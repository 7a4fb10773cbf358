------------------------ MODULE ContainerCacheProofs ------------------------
(***************************************************************************)
(* Theorems about ContainerCache, for every set of services, listeners and *)
(* waiters and every bound.                                                *)
(***************************************************************************)
EXTENDS ContainerCache, TLAPS

LEMMA NoEventType == NoEvent \in Event /\ NoEvent.svc \in Services
BY ServicesAssumption, BoundsAssumption DEF NoEvent, Event

LEMMA NilType == Nil \in Container /\ ~ Exists(Nil)
BY BoundsAssumption DEF Nil, Container, Status, Exists

(* What one change made by Docker leaves behind, for typing.               *)
LEMMA ChangeType ==
    ASSUME TypeOK, NEW s \in Services,
           NEW kind \in {"create", "start", "die", "destroy"},
           NEW id \in 0..MaxVer, NEW status \in Status,
           Change(s, kind, id, status)
    PROVE  TypeOK'
<1>1. docker[s].ver + 1 \in 0..MaxVer
  BY BoundsAssumption DEF TypeOK, Change, Container
<1>2. docker' \in [Services -> Container]
  BY <1>1, BoundsAssumption DEF TypeOK, Change, Container
<1>3. events' \in Seq(Event)
  <2> DEFINE e == [kind |-> kind, svc |-> s, id |-> id]
  <2>1. e \in Event
    BY DEF Event
  <2>2. events \in Seq(Event) /\ events' \in {events, Append(events, e)}
    BY DEF TypeOK, Change
  <2> HIDE DEF e
  <2> QED BY <2>1, <2>2
<1> QED
  BY <1>2, <1>3 DEF TypeOK, Change, initVars, loopVars

LEMMA SetContainerType ==
    ASSUME TypeOK, NEW s \in Services, NEW c \in Container, SetContainer(s, c)
    PROVE  /\ cache' \in [Services -> Container]
           /\ waiter' \in [Waiters -> [pc : {"idle", "check", "asleep"},
                             svc : Services, cond : {"created", "running"}]]
BY DEF TypeOK, SetContainer

LEMMA FaultType == ASSUME TypeOK, Fault PROVE faults' \in 0..MaxFaults
BY BoundsAssumption DEF TypeOK, Fault

(* Every step of Docker is a Change, and only a destroy leaves nothing.    *)
LEMMA DockerStepChanges ==
    ASSUME TypeOK, DockerStep
    PROVE  \E r \in Services, kind \in {"create", "start", "die", "destroy"},
              id \in 0..MaxVer, status \in Status :
                 /\ Change(r, kind, id, status)
                 /\ kind = "destroy" => status = "none"
<1>1. PICK r \in Services : Create(r) \/ Start(r) \/ Die(r) \/ Destroy(r)
  BY DEF DockerStep
<1>2. docker[r].id \in 0..MaxVer /\ docker[r].ver \in 0..MaxVer
  BY DEF TypeOK, Container
<1>3. CASE Create(r)
  <2>1. docker[r].ver + 1 \in 0..MaxVer
    BY <1>2, <1>3, BoundsAssumption DEF Create, Change
  <2>2. Change(r, "create", docker[r].ver + 1, "created")
    BY <1>3 DEF Create
  <2> QED BY <2>1, <2>2 DEF Status
<1>4. CASE Start(r)   BY <1>2, <1>4 DEF Start, Status
<1>5. CASE Die(r)     BY <1>2, <1>5 DEF Die, Status
<1>6. CASE Destroy(r) BY <1>2, <1>6 DEF Destroy, Status
<1> QED BY <1>1, <1>3, <1>4, <1>5, <1>6

(* Every variable keeps its type.                                          *)
LEMMA TypeOKStep == TypeOK /\ [Next]_vars => TypeOK'
<1> SUFFICES ASSUME TypeOK, [Next]_vars PROVE TypeOK'
  OBVIOUS
<1> USE NoEventType, NilType
<1>1. CASE DockerStep
  BY <1>1, DockerStepChanges, ChangeType
<1>2. ASSUME NEW s \in Services, InitInspect(s) PROVE TypeOK'
  BY <1>2, FaultType DEF InitInspect, TypeOK, dockerVars, loopVars
<1>3. ASSUME NEW s \in Services, InitSet(s) PROVE TypeOK'
  <2>1. initSnap[s] \in Container
    BY DEF TypeOK
  <2> QED BY <1>3, <2>1, SetContainerType DEF InitSet, TypeOK, dockerVars, loopVars
<1>4. CASE Subscribe
  BY <1>4 DEF Subscribe, TypeOK, dockerVars, initVars, loopVars
<1>5. CASE StreamError
  BY <1>5, FaultType DEF StreamError, TypeOK, initVars, loopVars
<1>6. CASE LoopTake
  <2>1. Head(events) \in Event /\ Tail(events) \in Seq(Event)
    BY <1>6 DEF LoopTake, TypeOK
  <2> QED BY <1>6, <2>1 DEF LoopTake, TypeOK, initVars
<1>7. CASE LoopResolve
  <2>1. faults' \in 0..MaxFaults
    BY <1>7, FaultType DEF LoopResolve, TypeOK
  <2>2. loop' \in {"idle", "inspect"} /\ ev' \in Event /\ snap' \in Container
    BY <1>7 DEF LoopResolve, GoInspect, IterationEnds, TypeOK
  <2> QED BY <1>7, <2>1, <2>2 DEF LoopResolve, TypeOK, dockerVars, initVars
<1>8. CASE LoopMatch
  BY <1>8 DEF LoopMatch, GoInspect, IterationEnds, TypeOK, dockerVars, initVars
<1>9. CASE LoopInspect
  <2>1. docker[ev.svc] \in Container
    BY DEF TypeOK, Event
  <2> QED BY <1>9, <2>1, FaultType
          DEF LoopInspect, IterationEnds, TypeOK, dockerVars, initVars
<1>10. CASE LoopSet
  <2>1. ev.svc \in Services /\ snap \in Container
    BY DEF TypeOK, Event
  <2> QED BY <1>10, <2>1, SetContainerType
          DEF LoopSet, IterationEnds, TypeOK, dockerVars, initVars
<1>11. ASSUME NEW w \in Waiters, NEW s \in Services,
              NEW cond \in {"created", "running"}, WaitCall(w, s, cond)
       PROVE  TypeOK'
  BY <1>11 DEF WaitCall, TypeOK, dockerVars, initVars, loopVars
<1>12. ASSUME NEW w \in Waiters, WaitCheck(w) PROVE TypeOK'
  BY <1>12 DEF WaitCheck, Away, TypeOK, dockerVars, initVars, loopVars
<1>13. CASE UNCHANGED vars
  BY <1>13 DEF TypeOK, vars
<1> QED
  BY <1>1, <1>2, <1>3, <1>4, <1>5, <1>6, <1>7, <1>8, <1>9, <1>10, <1>11,
     <1>12, <1>13 DEF Next, InitStep, LoopStep

LEMMA TypeOKInit == Init => TypeOK
<1> SUFFICES ASSUME Init PROVE TypeOK
  OBVIOUS
<1>1. docker \in [Services -> Container]
  BY NilType, BoundsAssumption DEF Init, Container, Status
<1>2. faults \in 0..MaxFaults
  BY BoundsAssumption DEF Init
<1> QED BY <1>1, <1>2, NoEventType, NilType DEF Init, TypeOK, Away

(* The program's state always has the types the module declares.           *)
THEOREM TypeCorrect == Spec => []TypeOK
<1> QED BY TypeOKInit, TypeOKStep, PTL DEF Spec

-----------------------------------------------------------------------------
(* The steps that store into a cache or move a waiter, and all the others. *)
LEMMA CacheStep ==
    ASSUME TypeOK, [Next]_vars
    PROVE  \/ UNCHANGED <<cache, waiter>>
           \/ \E s \in Services : InitSet(s)
           \/ LoopSet
           \/ UNCHANGED cache /\ \E w \in Waiters :
                 \/ WaitCheck(w)
                 \/ \E s \in Services, cond \in {"created", "running"} :
                       WaitCall(w, s, cond)
<1>1. ASSUME NEW s \in Services, InitStep(s), ~ InitSet(s)
      PROVE  UNCHANGED <<cache, waiter>>
  BY <1>1 DEF InitStep, InitInspect
<1>2. ASSUME LoopStep, ~ LoopSet PROVE UNCHANGED <<cache, waiter>>
  BY <1>2 DEF LoopStep, LoopTake, LoopResolve, LoopMatch, LoopInspect
<1>3. ASSUME DockerStep PROVE UNCHANGED <<cache, waiter>>
  BY <1>3 DEF DockerStep, Create, Start, Die, Destroy, Change
<1>4. ASSUME Subscribe \/ StreamError PROVE UNCHANGED <<cache, waiter>>
  BY <1>4 DEF Subscribe, StreamError
<1>5. ASSUME NEW w \in Waiters, WaitCheck(w) PROVE UNCHANGED cache
  BY <1>5 DEF WaitCheck
<1>6. ASSUME NEW w \in Waiters, NEW s \in Services, 
             NEW cond \in {"created", "running"}, WaitCall(w, s, cond)
      PROVE  UNCHANGED cache
  BY <1>6 DEF WaitCall
<1>7. CASE UNCHANGED vars
  BY <1>7 DEF vars
<1> QED
  BY <1>1, <1>2, <1>3, <1>4, <1>5, <1>6, <1>7 DEF Next

LEMMA SetContainerWakes ==
    ASSUME TypeOK, NoLostWakeup, NEW s \in Services, NEW c, SetContainer(s, c)
    PROVE  NoLostWakeup'
<1> SUFFICES ASSUME NEW w \in Waiters, waiter'[w].pc = "asleep"
             PROVE  ~ Satisfies(cache'[waiter'[w].svc], waiter'[w].cond)
  BY DEF NoLostWakeup
<1>1. waiter[w].pc = "asleep" /\ waiter'[w] = waiter[w]
  BY DEF SetContainer, TypeOK
<1>2. waiter[w].svc = s => cache'[s] = c /\ ~ Satisfies(c, waiter[w].cond)
  BY <1>1 DEF SetContainer, TypeOK
<1>3. waiter[w].svc # s => cache'[waiter[w].svc] = cache[waiter[w].svc]
  BY DEF SetContainer, TypeOK
<1> QED BY <1>1, <1>2, <1>3 DEF NoLostWakeup

(* Nobody sleeps on a condition that already holds.                        *)
THEOREM WakeupsNotLost == Spec => []NoLostWakeup
<1>1. Init => NoLostWakeup
  BY DEF Init, Away, NoLostWakeup
<1>2. TypeOK /\ NoLostWakeup /\ [Next]_vars => NoLostWakeup'
  <2> SUFFICES ASSUME TypeOK, NoLostWakeup, [Next]_vars PROVE NoLostWakeup'
    OBVIOUS
  <2>1. CASE UNCHANGED <<cache, waiter>>
    BY <2>1 DEF NoLostWakeup
  <2>2. ASSUME NEW s \in Services, InitSet(s) PROVE NoLostWakeup'
    BY <2>2, SetContainerWakes DEF InitSet
  <2>3. CASE LoopSet
    <3>1. ev.svc \in Services
      BY DEF TypeOK, Event
    <3> QED BY <2>3, <3>1, SetContainerWakes DEF LoopSet
  <2>4. ASSUME NEW w \in Waiters, WaitCheck(w), UNCHANGED cache
        PROVE  NoLostWakeup'
    <3> SUFFICES ASSUME NEW v \in Waiters, waiter'[v].pc = "asleep"
                 PROVE  ~ Satisfies(cache[waiter'[v].svc], waiter'[v].cond)
      BY <2>4 DEF NoLostWakeup
    <3>1. CASE v # w
      BY <2>4, <3>1 DEF WaitCheck, TypeOK, NoLostWakeup
    <3>2. CASE v = w
      <4>1. ~ Satisfies(cache[waiter[w].svc], waiter[w].cond)
        BY <2>4, <3>2 DEF WaitCheck, TypeOK, Away
      <4>2. waiter'[w].svc = waiter[w].svc /\ waiter'[w].cond = waiter[w].cond
        BY <2>4, <4>1 DEF WaitCheck, TypeOK
      <4> QED BY <3>2, <4>1, <4>2
    <3> QED BY <3>1, <3>2
  <2>5. ASSUME NEW w \in Waiters, UNCHANGED cache, NEW s \in Services,
               NEW cond \in {"created", "running"}, WaitCall(w, s, cond)
        PROVE  NoLostWakeup'
    BY <2>5 DEF WaitCall, TypeOK, NoLostWakeup
  <2> QED
    BY <2>1, <2>2, <2>3, <2>4, <2>5, CacheStep
<1> QED BY <1>1, <1>2, TypeCorrect, PTL DEF Spec

-----------------------------------------------------------------------------
(* What has been read of a container is never newer than Docker, the       *)
(* reading that waits to be stored is never empty, and what the loop is    *)
(* about to store is not older than the cache unless the cache shows what  *)
(* initContainer read.                                                     *)
Order(s) ==
    /\ cache[s].ver <= docker[s].ver
    /\ initSnap[s].ver <= docker[s].ver
    /\ initGo[s] = "inspect" => initSnap[s] = Nil
    /\ initGo[s] = "set" => Exists(initSnap[s])
    /\ (loop = "set" /\ ev.svc = s) =>
          /\ Exists(snap)
          /\ snap.ver <= docker[s].ver
          /\ cache[s] = initSnap[s] \/ cache[s].ver <= snap.ver

Ordered == \A s \in Services : Order(s)

(* A change made by Docker only raises a version.                          *)
LEMMA DockerStepRaises ==
    ASSUME TypeOK, DockerStep
    PROVE  /\ \A s \in Services : docker[s].ver <= docker'[s].ver
           /\ UNCHANGED <<sub, cache, initGo, initSnap, loop, ev, snap, faults>>
<1>1. PICK s \in Services : Create(s) \/ Start(s) \/ Die(s) \/ Destroy(s)
  BY DEF DockerStep
<1>2. PICK kind, id, status : Change(s, kind, id, status)
  BY <1>1 DEF Create, Start, Die, Destroy
<1>3. \A r \in Services : docker[r].ver \in Int
  BY BoundsAssumption DEF TypeOK, Container
<1> QED BY <1>2, <1>3 DEF Change, TypeOK, initVars, loopVars

LEMMA OrderedStep == TypeOK /\ Ordered /\ [Next]_vars => Ordered'
<1> SUFFICES ASSUME TypeOK, Ordered, [Next]_vars, NEW s \in Services
             PROVE  Order(s)'
  BY DEF Ordered
<1>t. /\ docker[s].ver \in Int /\ cache[s].ver \in Int
      /\ initSnap[s].ver \in Int /\ snap.ver \in Int /\ ev.svc \in Services
  BY BoundsAssumption DEF TypeOK, Container, Event
<1>o. Order(s)
  BY DEF Ordered
<1>1. CASE DockerStep
  <2>1. TypeOK'
    BY TypeOKStep
  <2>2. docker'[s].ver \in Int
    BY <2>1, BoundsAssumption DEF TypeOK, Container
  <2>3. /\ docker[s].ver <= docker'[s].ver
        /\ UNCHANGED <<cache, initGo, initSnap, loop, ev, snap>>
    BY <1>1, DockerStepRaises
  <2> QED BY <1>t, <1>o, <2>2, <2>3 DEF Order
<1>2. ASSUME NEW r \in Services, InitInspect(r) PROVE Order(s)'
  <2>1. CASE r # s
    BY <1>2, <1>o, <2>1 DEF InitInspect, Order, TypeOK, dockerVars, loopVars
  <2>2. CASE r = s
    <3>1. initSnap'[s] = docker[s] \/ initSnap'[s] = initSnap[s]
      BY <1>2, <2>2 DEF InitInspect, TypeOK
    <3>2. cache[s] = initSnap[s] => cache[s].ver = 0
      BY <1>2, <1>o, <2>2 DEF InitInspect, Order, Nil
    <3>3. (loop = "set" /\ ev.svc = s) => cache[s].ver <= snap.ver
      <4>1. snap.ver >= 0
        BY BoundsAssumption DEF TypeOK, Container
      <4> QED BY <1>t, <1>o, <3>2, <4>1 DEF Order
    <3>4. UNCHANGED <<docker, cache, loop, ev, snap>>
      BY <1>2 DEF InitInspect, dockerVars, loopVars
    <3>5. /\ initGo'[s] # "inspect"
          /\ initGo'[s] = "set" => Exists(initSnap'[s])
      BY <1>2, <2>2 DEF InitInspect, TypeOK
    <3> QED BY <1>t, <1>o, <3>1, <3>3, <3>4, <3>5 DEF Order
  <2> QED BY <2>1, <2>2
<1>3. ASSUME NEW r \in Services, InitSet(r) PROVE Order(s)'
  BY <1>3, <1>t, <1>o DEF InitSet, SetContainer, Order, TypeOK, dockerVars, loopVars
<1>4. CASE Subscribe
  BY <1>4, <1>o DEF Subscribe, Order, dockerVars, initVars, loopVars
<1>5. CASE StreamError
  BY <1>5, <1>o DEF StreamError, Order, initVars, loopVars
<1>6. CASE LoopTake
  BY <1>6, <1>o DEF LoopTake, Order, initVars
<1>7. CASE LoopResolve
  BY <1>7, <1>o DEF LoopResolve, GoInspect, IterationEnds, Order, dockerVars, initVars
<1>8. CASE LoopMatch
  BY <1>8, <1>o DEF LoopMatch, GoInspect, IterationEnds, Order, dockerVars, initVars
<1>9. CASE LoopInspect
  BY <1>9, <1>o, <1>t DEF LoopInspect, IterationEnds, Order, dockerVars, initVars
<1>10. CASE LoopSet
  BY <1>10, <1>o, <1>t
  DEF LoopSet, IterationEnds, SetContainer, Order, TypeOK, dockerVars, initVars
<1>11. ASSUME NEW w \in Waiters, NEW r \in Services,
              NEW cond \in {"created", "running"}, WaitCall(w, r, cond)
       PROVE  Order(s)'
  BY <1>11, <1>o DEF WaitCall, Order, dockerVars, initVars, loopVars
<1>12. ASSUME NEW w \in Waiters, WaitCheck(w) PROVE Order(s)'
  BY <1>12, <1>o DEF WaitCheck, Order, dockerVars, initVars, loopVars
<1>13. CASE UNCHANGED vars
  BY <1>13, <1>o DEF Order, vars
<1> QED
  BY <1>1, <1>2, <1>3, <1>4, <1>5, <1>6, <1>7, <1>8, <1>9, <1>10, <1>11,
     <1>12, <1>13 DEF Next, InitStep, LoopStep

LEMMA OrderedInit == Init => Ordered
<1> SUFFICES ASSUME Init, NEW s \in Services PROVE Order(s)
  BY DEF Ordered
<1>1. docker[s].ver \in {0, 1} /\ cache[s] = Nil /\ initSnap[s] = Nil
  BY DEF Init, Nil
<1> QED BY <1>1 DEF Init, Order, Nil

(* The cache goes back in time only through the startup inspect.           *)
THEOREM NoBackwardStep == Spec => BackwardOnlyAtStartup
<1> DEFINE B == \A s \in Services : cache'[s].ver < cache[s].ver =>
                  initSnap[s] # Nil /\ initSnap[s] \in {cache[s], cache'[s]}
<1>1. ASSUME TypeOK, Ordered, [Next]_vars PROVE B
  <2> SUFFICES ASSUME NEW s \in Services, cache'[s].ver < cache[s].ver
               PROVE  initSnap[s] # Nil /\ initSnap[s] \in {cache[s], cache'[s]}
    OBVIOUS
  <2>t. /\ cache[s].ver \in Nat /\ snap.ver \in Nat
        /\ ev.svc \in Services /\ Nil.ver = 0
    BY <1>1, BoundsAssumption DEF TypeOK, Container, Event, Nil
  <2>1. CASE UNCHANGED <<cache, waiter>> \/ UNCHANGED cache
    BY <2>1, <2>t
  <2>2. ASSUME NEW r \in Services, InitSet(r)
        PROVE  initSnap[s] # Nil /\ initSnap[s] \in {cache[s], cache'[s]}
    <3>1. r = s
      BY <1>1, <2>2, <2>t DEF InitSet, SetContainer, TypeOK
    <3>2. cache'[s] = initSnap[s] /\ Exists(initSnap[s])
      BY <1>1, <2>2, <3>1 DEF InitSet, SetContainer, TypeOK, Ordered, Order
    <3> QED BY <3>2 DEF Exists, Nil
  <2>3. CASE LoopSet
    <3>1. ev.svc = s
      BY <1>1, <2>3, <2>t DEF LoopSet, SetContainer, TypeOK
    <3>2. cache'[s] = snap
      BY <1>1, <2>3, <3>1 DEF LoopSet, SetContainer, TypeOK
    <3>3. cache[s] = initSnap[s] \/ cache[s].ver <= snap.ver
      BY <1>1, <2>3, <3>1 DEF LoopSet, Ordered, Order
    <3> QED BY <2>t, <3>2, <3>3
  <2> QED BY <1>1, <2>1, <2>2, <2>3, CacheStep
<1>2. TypeOK /\ Ordered /\ [Next]_vars => [B]_vars
  BY <1>1
<1>3. Spec => [](TypeOK /\ Ordered)
  BY TypeOKInit, TypeOKStep, OrderedInit, OrderedStep, PTL DEF Spec
<1> QED BY <1>2, <1>3, PTL DEF Spec, BackwardOnlyAtStartup

-----------------------------------------------------------------------------
(* SettledFresh is not inductive.  While something is under way, whatever  *)
(* will repair the cache of s must exist: an event of the container that   *)
(* Docker has now, on its way or in the loop's hands, or the very reading  *)
(* the loop is about to store.                                             *)

Queued(s) == \E i \in 1..Len(events) :
                 /\ events[i].svc = s /\ events[i].kind # "destroy"
                 /\ events[i].id = docker[s].id

Handling(s) == /\ ev.svc = s
               /\ \/ loop = "resolve" /\ ev.id = docker[s].id
                  \/ loop = "inspect"
                  \/ loop = "set" /\ snap = docker[s]

Repaired(s) ==
    \/ Queued(s) \/ Handling(s)
    \/ cache[s] = docker[s] \/ cache[s] = initSnap[s]
    \/ initGo[s] # "done"

(* A reading older than Docker is followed by an event.                    *)
StaleReadFollowed(s) ==
    loop = "set" /\ ev.svc = s /\ snap # docker[s] => Queued(s)

(* Before the subscription only initContainer writes the cache.            *)
BeforeSub(s) ==
    sub = "off" => /\ loop = "idle"
                   /\ initGo[s] = "set" \/ cache[s] = initSnap[s]

Fresh(s) ==
    /\ BeforeSub(s)
    /\ sub # "on" => loop = "idle"
    /\ sub = "on" /\ faults = 0 /\ Exists(docker[s]) =>
          Repaired(s) /\ StaleReadFollowed(s)

AllFresh == \A s \in Listeners : Fresh(s)

(* An event appended behind the queue is queued, and so is all before it.  *)
LEMMA QueuedAppend ==
    ASSUME TypeOK, NEW s \in Services, NEW e \in Event,
           events' = Append(events, e),
           \/ Queued(s) /\ docker'[s].id = docker[s].id
           \/ e.svc = s /\ e.kind # "destroy" /\ e.id = docker'[s].id
    PROVE  Queued(s)'
<1>1. /\ Len(events') = Len(events) + 1 /\ events'[Len(events) + 1] = e
      /\ \A i \in 1..Len(events) : events'[i] = events[i]
      /\ Len(events) \in Nat
  BY DEF TypeOK
<1>2. CASE Queued(s) /\ docker'[s].id = docker[s].id
  BY <1>1, <1>2 DEF Queued
<1>3. CASE e.svc = s /\ e.kind # "destroy" /\ e.id = docker'[s].id
  <2>1. Len(events) + 1 \in 1..Len(events')
    BY <1>1
  <2> QED BY <1>1, <1>3, <2>1 DEF Queued
<1> QED BY <1>2, <1>3

(* Taking the head of the queue: what was queued still is, or is the head. *)
LEMMA QueuedTake ==
    ASSUME TypeOK, NEW s \in Services, Queued(s), events # <<>>,
           events' = Tail(events), docker' = docker
    PROVE  \/ Queued(s)'
           \/ LET e == Head(events)
              IN  e.svc = s /\ e.kind # "destroy" /\ e.id = docker[s].id
<1>1. PICK i \in 1..Len(events) :
              /\ events[i].svc = s /\ events[i].kind # "destroy"
              /\ events[i].id = docker[s].id
  BY DEF Queued
<1>2. /\ Head(events) = events[1] /\ Len(events) \in Nat
      /\ Len(events') = Len(events) - 1
      /\ \A j \in 1..(Len(events) - 1) : events'[j] = events[j + 1]
  BY DEF TypeOK
<1>3. CASE i = 1
  BY <1>1, <1>2, <1>3
<1>4. CASE i # 1
  <2>1. i - 1 \in 1..(Len(events) - 1)
    BY <1>2, <1>4
  <2>2. events'[i - 1] = events[i]
    BY <1>2, <2>1
  <2> QED BY <1>1, <1>2, <2>1, <2>2 DEF Queued
<1> QED BY <1>3, <1>4

(* A change by Docker that leaves a container queues its event.            *)
LEMMA FreshDocker ==
    ASSUME TypeOK, DockerStep, NEW s \in Services, Fresh(s) PROVE Fresh(s)'
<1>1. PICK r \in Services, kind \in {"create", "start", "die", "destroy"},
           id \in 0..MaxVer, status \in Status :
              /\ Change(r, kind, id, status)
              /\ kind = "destroy" => status = "none"
  BY DockerStepChanges
<1>2. UNCHANGED <<sub, cache, initGo, initSnap, loop, ev, snap, faults>>
  BY DockerStepRaises
<1> SUFFICES ASSUME sub = "on", faults = 0, Exists(docker'[s])
             PROVE  Repaired(s)' /\ StaleReadFollowed(s)'
  BY <1>2 DEF Fresh, BeforeSub
<1> DEFINE e == [kind |-> kind, svc |-> r, id |-> id]
<1>3. /\ e \in Event /\ e.svc = r /\ e.kind = kind /\ e.id = id
      /\ events' = Append(events, e)
  BY <1>1 DEF Change, Event
<1> HIDE DEF e
<1>4. CASE r # s
  <2>1. docker'[s] = docker[s]
    BY <1>1, <1>4 DEF Change, TypeOK
  <2>2. docker'[s].id = docker[s].id
    BY <2>1
  <2>3. ASSUME Queued(s) PROVE Queued(s)'
    BY <1>3, <2>2, <2>3, QueuedAppend
  <2> QED BY <1>2, <2>1, <2>3
          DEF Fresh, Repaired, StaleReadFollowed, Handling
<1>5. CASE r = s
  <2>1. kind # "destroy"
    BY <1>1, <1>5 DEF Change, Exists, TypeOK
  <2>2. docker'[s].id = id
    BY <1>1, <1>5, <2>1 DEF Change, TypeOK
  <2>3. Queued(s)'
    BY <1>3, <1>5, <2>1, <2>2, QueuedAppend
  <2> QED BY <2>3 DEF Repaired, StaleReadFollowed
<1> QED BY <1>4, <1>5

LEMMA FreshLoop ==
    ASSUME TypeOK, LoopStep, NEW s \in Services, s \in Listeners, Fresh(s)
    PROVE  Fresh(s)'
<1>0. /\ UNCHANGED <<docker, sub, initGo, initSnap>> /\ sub = "on"
      /\ faults = 0 \/ faults' # 0
  BY BoundsAssumption
  DEF LoopStep, LoopTake, LoopResolve, LoopMatch, LoopInspect, LoopSet, Fault,
      dockerVars, initVars, Fresh, TypeOK
<1> SUFFICES ASSUME faults = 0, faults' = 0, Exists(docker[s])
             PROVE  Repaired(s)' /\ StaleReadFollowed(s)'
  BY <1>0 DEF Fresh, BeforeSub
<1>f. Repaired(s) /\ StaleReadFollowed(s)
  BY <1>0 DEF Fresh
<1>q. UNCHANGED <<docker, events>> => Queued(s)' = Queued(s)
  BY DEF Queued
<1>1. CASE LoopTake
  <2>1. Queued(s) => Queued(s)' \/ Handling(s)'
    BY <1>0, <1>1, QueuedTake DEF LoopTake, Handling
  <2> QED BY <1>0, <1>1, <1>f, <2>1
          DEF LoopTake, Repaired, StaleReadFollowed, Handling
<1>2. CASE LoopResolve
  <2>1. Handling(s) => Handling(s)'
    BY <1>2, BoundsAssumption
    DEF LoopResolve, Handling, Named, GoInspect, Fault, dockerVars
  <2> QED BY <1>0, <1>2, <1>f, <1>q, <2>1
          DEF LoopResolve, GoInspect, IterationEnds, Repaired,
              StaleReadFollowed, dockerVars
<1>3. CASE LoopMatch
  BY <1>0, <1>3, <1>f, <1>q
  DEF LoopMatch, GoInspect, IterationEnds, Repaired, StaleReadFollowed,
      Handling, dockerVars
<1>4. CASE LoopInspect
  <2>1. ev.svc = s => loop' = "set" /\ ev' = ev /\ snap' = docker[s]
    BY <1>4 DEF LoopInspect, Fault
  <2>2. ev.svc # s => ev'.svc # s \/ loop' = "idle"
    BY <1>4 DEF LoopInspect, IterationEnds
  <2> QED BY <1>0, <1>4, <1>f, <1>q, <2>1, <2>2
          DEF LoopInspect, Repaired, StaleReadFollowed, Handling, dockerVars
<1>5. CASE LoopSet
  <2>1. ev.svc = s => cache'[s] = snap
    BY <1>5 DEF LoopSet, SetContainer, TypeOK
  <2>2. ev.svc # s => cache'[s] = cache[s]
    BY <1>5 DEF LoopSet, SetContainer, TypeOK
  <2>3. loop = "set" /\ loop' = "idle" /\ UNCHANGED <<docker, events>>
    BY <1>5 DEF LoopSet, IterationEnds, dockerVars
  <2> QED BY <1>0, <1>f, <1>q, <2>1, <2>2, <2>3
          DEF Repaired, StaleReadFollowed, Handling
<1> QED BY <1>1, <1>2, <1>3, <1>4, <1>5 DEF LoopStep

LEMMA FreshInit ==
    ASSUME TypeOK, NEW r \in Services, InitStep(r), NEW s \in Services, Fresh(s),
           Order(s)
    PROVE  Fresh(s)'
<1>0. /\ UNCHANGED <<docker, events, sub, loop, ev, snap>>
      /\ faults = 0 \/ faults' # 0
  BY BoundsAssumption
  DEF InitStep, InitInspect, InitSet, Fault, dockerVars, loopVars, TypeOK
<1>q. /\ Queued(s)' = Queued(s) /\ Handling(s)' = Handling(s)
      /\ StaleReadFollowed(s)' = StaleReadFollowed(s)
  BY <1>0 DEF Queued, Handling, StaleReadFollowed
<1>1. CASE r # s
  <2>1. UNCHANGED <<cache[s], initGo[s], initSnap[s]>>
    BY <1>1 DEF InitStep, InitInspect, InitSet, SetContainer, TypeOK
  <2> QED BY <1>0, <1>q, <2>1 DEF Fresh, BeforeSub, Repaired
<1>2. CASE r = s /\ InitInspect(r)
  <2>1. /\ initGo'[s] = "set" \/ /\ initGo'[s] = "done"
                                 /\ initSnap'[s] = initSnap[s]
                                 /\ ~ Exists(docker[s]) \/ faults' # 0
        /\ UNCHANGED cache /\ initGo[s] = "inspect"
    BY <1>2, BoundsAssumption DEF InitInspect, Fault, TypeOK
  <2> QED BY <1>0, <1>2, <1>q, <2>1
          DEF Fresh, BeforeSub, Repaired
<1>3. CASE r = s /\ InitSet(r)
  <2>1. cache'[s] = initSnap[s] /\ initSnap'[s] = initSnap[s]
    BY <1>3 DEF InitSet, SetContainer, TypeOK
  <2> QED BY <1>0, <1>3, <1>q, <2>1 DEF Fresh, BeforeSub, Repaired
<1> QED BY <1>1, <1>2, <1>3 DEF InitStep

LEMMA FreshStep == TypeOK /\ Ordered /\ AllFresh /\ [Next]_vars => AllFresh'
<1> SUFFICES ASSUME TypeOK, Ordered, AllFresh, [Next]_vars,
                    NEW s \in Listeners
             PROVE  Fresh(s)'
  BY DEF AllFresh
<1>0. s \in Services /\ Fresh(s) /\ Order(s)
  BY ServicesAssumption DEF AllFresh, Ordered
<1>1. CASE DockerStep
  BY <1>0, <1>1, FreshDocker
<1>2. ASSUME NEW r \in Services, InitStep(r) PROVE Fresh(s)'
  BY <1>0, <1>2, FreshInit
<1>3. CASE Subscribe
  BY <1>0, <1>3
  DEF Subscribe, Fresh, BeforeSub, Repaired, StaleReadFollowed, Queued, Handling,
      dockerVars, initVars, loopVars
<1>4. CASE StreamError
  BY <1>0, <1>4 DEF StreamError, Fresh, BeforeSub, initVars, loopVars
<1>5. CASE LoopStep
  BY <1>0, <1>5, FreshLoop
<1>6. ASSUME NEW w \in Waiters,
             \/ WaitCheck(w)
             \/ \E r \in Services, cond \in {"created", "running"} :
                   WaitCall(w, r, cond)
      PROVE  Fresh(s)'
  <2>1. UNCHANGED <<dockerVars, sub, cache, initVars, loopVars, faults>>
    BY <1>6 DEF WaitCheck, WaitCall
  <2> QED BY <1>0, <2>1
          DEF Fresh, BeforeSub, Repaired, StaleReadFollowed, Queued, Handling,
              dockerVars, initVars, loopVars
<1>7. CASE UNCHANGED vars
  BY <1>0, <1>7
  DEF Fresh, BeforeSub, Repaired, StaleReadFollowed, Queued, Handling, vars
<1> QED BY <1>1, <1>2, <1>3, <1>4, <1>5, <1>6, <1>7 DEF Next

LEMMA FreshImplies == TypeOK /\ AllFresh => SettledFresh
<1> SUFFICES ASSUME TypeOK, AllFresh, NEW s \in Listeners, Settled(s),
                    Exists(docker[s])
             PROVE  cache[s] \in {docker[s], initSnap[s]}
  BY DEF SettledFresh
<1>1. Repaired(s) /\ ~ Handling(s) /\ initGo[s] = "done"
  BY DEF AllFresh, Fresh, Settled, Handling
<1>2. ~ Queued(s)
  BY DEF Settled, Pending, Queued
<1> QED BY <1>1, <1>2 DEF Repaired

(* When nothing is under way, a listening service shows what Docker has,   *)
(* or what initContainer read.                                             *)
THEOREM FreshWhenSettled == Spec => []SettledFresh
<1>1. Init => AllFresh
  BY DEF Init, AllFresh, Fresh, BeforeSub
<1>2. TypeOK /\ Ordered /\ AllFresh /\ [Next]_vars
         => TypeOK' /\ Ordered' /\ AllFresh'
  BY TypeOKStep, OrderedStep, FreshStep
<1> QED BY <1>1, <1>2, TypeOKInit, OrderedInit, FreshImplies, PTL DEF Spec

-----------------------------------------------------------------------------
(* ContainerCache implements ContainerView.                                *)

First == [s \in Services |-> IF initGo[s] = "set" THEN initSnap[s] ELSE Nil]
Started == [s \in Services |-> initGo[s] # "inspect"]
Later == [s \in Services |-> IF loop = "set" /\ ev.svc = s THEN snap ELSE Nil]

LEMMA ViewInit == Init => View!Init
BY DEF Init, View!Init

LEMMA ViewUnchanged ==
    /\ cache' = cache /\ initGo' = initGo /\ initSnap' = initSnap
    /\ \/ loop' = loop /\ ev' = ev /\ snap' = snap
       \/ loop # "set" /\ loop' # "set"
    => View!Next
BY DEF View!Next, View!Change

LEMMA ViewStep ==
    TypeOK /\ Ordered /\ [Next]_vars => [View!Next]_(View!vars)
<1> SUFFICES ASSUME TypeOK, Ordered, [Next]_vars PROVE View!Next
  OBVIOUS
<1>2. CASE DockerStep
  BY <1>2, DockerStepRaises, ViewUnchanged
<1>3. ASSUME NEW s \in Services, InitInspect(s) PROVE View!Next
  <2>1. UNCHANGED <<docker, cache, loop, ev, snap>> /\ initGo[s] = "inspect"
    BY <1>3 DEF InitInspect, dockerVars, loopVars
  <2>2. /\ Started' = [Started EXCEPT ![s] = TRUE]
        /\ ~ Started[s]
    BY <1>3 DEF InitInspect, Started, TypeOK
  <2>3. \/ First' = First
        \/ Exists(docker[s]) /\ First' = [First EXCEPT ![s] = docker[s]]
    BY <1>3 DEF InitInspect, First, TypeOK
  <2>4. View!ReadFirst(s)
    BY <2>1, <2>2, <2>3 DEF View!ReadFirst, Started, First
  <2> QED BY <2>4 DEF View!Next
<1>4. ASSUME NEW s \in Services, InitSet(s) PROVE View!Next
  <2>1. First[s] = initSnap[s] /\ First[s] # Nil
    BY <1>4 DEF InitSet, First, Ordered, Order, Exists, Nil
  <2>2. /\ First' = [First EXCEPT ![s] = Nil]
        /\ Started' = Started
        /\ cache' = [cache EXCEPT ![s] = First[s]]
    BY <1>4, <2>1 DEF InitSet, SetContainer, First, Started, TypeOK
  <2>3. UNCHANGED <<docker, loop, ev, snap>>
    BY <1>4 DEF InitSet, dockerVars, loopVars
  <2>4. View!ShowFirst(s)
    BY <2>1, <2>2, <2>3 DEF View!ShowFirst, First, Started
  <2> QED BY <2>4 DEF View!Next
<1>5. CASE Subscribe \/ StreamError
  BY <1>5, ViewUnchanged DEF Subscribe, StreamError, initVars, loopVars
<1>6. CASE LoopTake \/ LoopResolve \/ LoopMatch
  BY <1>6, ViewUnchanged
  DEF LoopTake, LoopResolve, LoopMatch, GoInspect, IterationEnds, initVars
<1>7. CASE LoopInspect
  <2>1. UNCHANGED <<docker, cache, initGo, initSnap>> /\ loop = "inspect"
    BY <1>7 DEF LoopInspect, dockerVars, initVars
  <2>2. CASE loop' # "set"
    BY <2>1, <2>2, ViewUnchanged
  <2>3. CASE loop' = "set"
    <3>1. PICK s \in Services : s = ev.svc
      BY DEF TypeOK, Event
    <3>2. Exists(docker[s]) /\ snap' = docker[s] /\ ev' = ev
      BY <1>7, <2>3, <3>1 DEF LoopInspect, IterationEnds
    <3>3. /\ \A r \in Services : Later[r] = Nil
          /\ Later' = [Later EXCEPT ![s] = docker[s]]
      BY <2>1, <2>3, <3>1, <3>2 DEF Later
    <3>4. View!Read(s)
      BY <2>1, <3>2, <3>3 DEF View!Read, Later
    <3> QED BY <3>4 DEF View!Next
  <2> QED BY <2>2, <2>3
<1>8. CASE LoopSet
  <2>1. PICK s \in Services : s = ev.svc
    BY DEF TypeOK, Event
  <2>2. loop' = "idle" /\ loop = "set"
    BY <1>8 DEF LoopSet, IterationEnds
  <2>3. Later[s] = snap /\ Later[s] # Nil
    BY <2>1, <2>2 DEF Later, Ordered, Order, Exists, Nil
  <2>4. /\ Later' = [Later EXCEPT ![s] = Nil]
        /\ cache' = [cache EXCEPT ![s] = Later[s]]
    BY <1>8, <2>1, <2>2, <2>3 DEF LoopSet, SetContainer, Later
  <2>5. UNCHANGED <<docker, initGo, initSnap>>
    BY <1>8 DEF LoopSet, dockerVars, initVars
  <2>6. View!Show(s)
    BY <2>3, <2>4, <2>5 DEF View!Show, Later
  <2> QED BY <2>6 DEF View!Next
<1>9. ASSUME NEW w \in Waiters,
             \/ WaitCheck(w)
             \/ \E r \in Services, cond \in {"created", "running"} :
                   WaitCall(w, r, cond)
      PROVE  View!Next
  BY <1>9, ViewUnchanged DEF WaitCheck, WaitCall, initVars, loopVars
<1>10. CASE UNCHANGED vars
  BY <1>10, ViewUnchanged DEF vars
<1> QED
  BY <1>2, <1>3, <1>4, <1>5, <1>6, <1>7, <1>8, <1>9, <1>10
  DEF Next, InitStep, LoopStep

(* What the cache shows under a name was read from Docker under that name, *)
(* by one startup reading or by the loop, one reading at a time.           *)
THEOREM Implements == Spec => ImplementsView
<1>1. Spec => [](TypeOK /\ Ordered)
  BY TypeOKInit, TypeOKStep, OrderedInit, OrderedStep, PTL DEF Spec
<1> QED BY <1>1, ViewInit, ViewStep, PTL DEF Spec, ImplementsView, View!Spec
=============================================================================
