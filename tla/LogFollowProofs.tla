-------------------------- MODULE LogFollowProofs --------------------------
(***************************************************************************)
(* Theorems about LogFollow, for any number of runs, lines, heights and    *)
(* failures.                                                               *)
(***************************************************************************)
EXTENDS LogFollow, TLAPS

-----------------------------------------------------------------------------
(* Types.                                                                  *)
Heights == 1..MaxHeight

LEMMA NotLines == None \notin Line /\ EOF \notin Line /\ None # EOF
<1>1. None.kind = "none" /\ EOF.kind = "EOF"
  BY DEF None, EOF
<1>2. \A x \in Line : x.kind \in {"total", "current", "done"}
  BY DEF Line
<1> QED BY <1>1, <1>2

LEMMA ZeroType ==
    /\ Zero.current = 0 /\ Zero.total = 0 /\ Zero.done = FALSE
    /\ Zero.first = None /\ Zero.last = None
BY DEF Zero

LEMMA NoReaderType ==
    /\ NoReader.on = FALSE /\ NoReader.next = 1 /\ NoReader.upto = 0
    /\ NoReader.line = None
BY DEF NoReader

Follower == [pc : {"wait", "open", "range", "stuck"}, since : Run,
             line : Sent \cup {None}]
Reader == [on : BOOLEAN, next : 1..(MaxLines + 1), upto : Run,
           line : Sent \cup {None}]
Watch == [current : Height, total : Height, done : BOOLEAN,
          first : Line \cup {None}, last : Line \cup {None}]

LEMMA Types ==
    ASSUME TypeOK
    PROVE  /\ follower \in Follower /\ reader \in Reader /\ watch \in Watch
           /\ docker.run \in Run /\ cache.run \in Run
           /\ snap.run \in Run /\ initSnap.run \in Run
           /\ log \in Seq(Line) /\ Len(log) \in 0..MaxLines
           /\ \A i \in 1..Len(log) : log[i] \in Line
<1>1. 0 \in Run /\ Unread.run = 0 /\ NoReading.run = 0
  BY LogBounds DEF Run, Unread, NoReading
<1>2. \A x \in State : x.run \in Run
  BY DEF State
<1>3. snap.run \in Run /\ initSnap.run \in Run
  BY <1>1, <1>2 DEF TypeOK
<1> QED BY <1>2, <1>3, LogBounds DEF TypeOK, Follower, Reader, Watch

LEMMA TypeInit == Init => TypeOK
<1> SUFFICES ASSUME Init PROVE TypeOK
  OBVIOUS
<1>1. 0 \in Run /\ 1 \in Run /\ 0 \in Height /\ 0 \in 0..MaxFaults /\ 1 \in 1..(MaxLines + 1)
  BY LogBounds DEF Run, Height
<1>2. log = <<>> /\ log \in Seq(Line) /\ Len(log) <= MaxLines
  BY LogBounds DEF Init
<1>3. NoReader \in Reader
  <2> DEFINE line == None
  <2>1. NoReader = [on |-> FALSE, next |-> 1, upto |-> 0, line |-> line]
    BY DEF NoReader
  <2>2. line \in Sent \cup {None}
    OBVIOUS
  <2> HIDE DEF line
  <2> QED BY <1>1, <2>1, <2>2 DEF Reader
<1>4. Zero \in Watch
  BY <1>1 DEF Zero, Watch
<1>5. follower \in Follower
  BY <1>1 DEF Init, Follower
<1>6. docker \in State /\ cache \in State
  BY <1>1 DEF Init, State
<1> QED BY <1>1, <1>2, <1>3, <1>4, <1>5, <1>6 DEF Init, TypeOK, Reader, Watch, Follower

(* The new line of Emit.                                                   *)
NewLine(kind, h) == [kind |-> kind, h |-> h, run |-> docker.run,
                     n |-> Len(log) + 1, begins |-> ThisRun = {}]

Emits(kind, h) ==
    /\ docker.status = "running" /\ Len(log) < MaxLines
    /\ kind \in {"total", "current", "done"} /\ h \in Heights
    /\ (ThisRun = {}) <=> (kind = "total")
    /\ \A i \in ThisRun : log[i].begins => (kind = "current" => h < log[i].h)
    /\ NewLine(kind, h) \in Line
    /\ log' = Append(log, NewLine(kind, h))

LEMMA EmitEmits ==
    ASSUME TypeOK, Emit
    PROVE  /\ \E kind, h : Emits(kind, h)
           /\ UNCHANGED <<docker, cache, initSnap, snap, follower, reader, watch, faults>>
<1>1. PICK kind \in {"total", "current", "done"}, h \in 1..MaxHeight :
          /\ (ThisRun = {}) <=> (kind = "total")
          /\ \A i \in ThisRun : log[i].begins =>
                /\ kind = "current" => h < log[i].h
                /\ kind = "done" => h >= log[i].h
          /\ log' = Append(log, NewLine(kind, h))
  BY DEF Emit, NewLine
<1>2. Len(log) + 1 \in 1..MaxLines /\ h \in Height /\ docker.run \in Run
  BY Types, LogBounds DEF Emit, Height
<1>3. NewLine(kind, h) \in Line
  BY <1>2 DEF NewLine, Line
<1>4. Emits(kind, h)
  BY <1>1, <1>3 DEF Emits, Emit, Heights
<1> QED BY <1>4 DEF Emit, OnlyDocker

LEMMA EmitType == ASSUME TypeOK, Emit PROVE TypeOK'
<1>1. PICK kind, h : Emits(kind, h)
  BY EmitEmits
<1> DEFINE x == NewLine(kind, h)
<1>2. x \in Line /\ log' = Append(log, x) /\ Len(log) < MaxLines
  BY <1>1 DEF Emits
<1> HIDE DEF x
<1>3. log' \in Seq(Line) /\ Len(log') = Len(log) + 1
  BY <1>2, Types
<1>4. Len(log') <= MaxLines
  BY <1>2, <1>3, Types, LogBounds
<1> QED BY <1>3, <1>4, EmitEmits DEF TypeOK

LEMMA EffectType ==
    ASSUME NEW w \in Watch, NEW x \in Sent, MaxHeight \in Nat
    PROVE  Effect(w, x) \in Watch
<1>1. CASE x = EOF
  <2>1. Zero \in Watch
    BY DEF Zero, Watch, Height
  <2> QED BY <1>1, <2>1 DEF Effect
<1>2. CASE x # EOF
  <2>1. x \in Line
    BY <1>2 DEF Sent
  <2>2. x.kind \in {"total", "current", "done"} /\ x.h \in Height
    BY <2>1 DEF Line
  <2> DEFINE f == IF w.first = None THEN x ELSE w.first
             seen == [w EXCEPT !.first = f, !.last = x]
  <2>3. f \in Line \cup {None}
    BY <2>1 DEF Watch
  <2> HIDE DEF f
  <2>4. seen \in Watch
    BY <2>1, <2>3 DEF Watch
  <2>5. Larger(x.h, w.total) \in Height
    BY <2>2 DEF Larger, Watch
  <2>6. [w EXCEPT !.first = IF @ = None THEN x ELSE @, !.last = x] = seen
    BY DEF f
  <2> HIDE DEF seen
  <2>7. CASE x.kind = "total"
    <3>1. Effect(w, x) = [seen EXCEPT !.total = x.h]
      BY <1>2, <2>6, <2>7 DEF Effect
    <3> QED BY <2>2, <2>4, <3>1 DEF Watch
  <2>8. CASE x.kind = "current"
    <3>1. Effect(w, x) = [seen EXCEPT !.current = x.h]
      BY <1>2, <2>6, <2>8 DEF Effect
    <3> QED BY <2>2, <2>4, <3>1 DEF Watch
  <2>9. CASE x.kind = "done"
    <3> DEFINE top == Larger(x.h, w.total)
    <3>1. Effect(w, x) = [seen EXCEPT !.current = top, !.total = top, !.done = TRUE]
      BY <1>2, <2>6, <2>9 DEF Effect
    <3> HIDE DEF top
    <3>2. top \in Height
      BY <2>5 DEF top
    <3> QED BY <2>4, <3>1, <3>2 DEF Watch
  <2> QED BY <2>2, <2>7, <2>8, <2>9
<1> QED BY <1>1, <1>2

(* What a line that is no sentinel makes of the watch.                     *)
LEMMA EffectOf ==
    ASSUME NEW w \in Watch, NEW x \in Line
    PROVE  LET v == Effect(w, x) IN
           /\ v.first = (IF w.first = None THEN x ELSE w.first) /\ v.last = x
           /\ x.kind = "total" =>
                 v.total = x.h /\ v.current = w.current /\ v.done = w.done
           /\ x.kind = "current" =>
                 v.total = w.total /\ v.current = x.h /\ v.done = w.done
           /\ x.kind = "done" => v.done
<1>1. x # EOF
  BY NotLines
<1>2. x.kind \in {"total", "current", "done"}
  BY DEF Line
<1> DEFINE f == IF w.first = None THEN x ELSE w.first
           seen == [w EXCEPT !.first = f, !.last = x]
<1>3. [w EXCEPT !.first = IF @ = None THEN x ELSE @, !.last = x] = seen
  OBVIOUS
<1> HIDE DEF f
<1>4. /\ seen.first = f /\ seen.last = x /\ seen.current = w.current
      /\ seen.total = w.total /\ seen.done = w.done
      /\ DOMAIN seen = {"current", "total", "done", "first", "last"}
  BY DEF Watch
<1> HIDE DEF seen
<1>5. CASE x.kind = "total"
  <2>1. Effect(w, x) = [seen EXCEPT !.total = x.h]
    BY <1>1, <1>3, <1>5 DEF Effect
  <2> QED BY <1>4, <1>5, <2>1 DEF f
<1>6. CASE x.kind = "current"
  <2>1. Effect(w, x) = [seen EXCEPT !.current = x.h]
    BY <1>1, <1>3, <1>6 DEF Effect
  <2> QED BY <1>4, <1>6, <2>1 DEF f
<1>7. CASE x.kind = "done"
  <2> DEFINE top == Larger(x.h, w.total)
  <2>1. Effect(w, x) = [seen EXCEPT !.current = top, !.total = top, !.done = TRUE]
    BY <1>1, <1>3, <1>7 DEF Effect
  <2> HIDE DEF top
  <2> QED BY <1>4, <1>7, <2>1 DEF f
<1> QED BY <1>2, <1>5, <1>6, <1>7

LEMMA TypeStep == TypeOK /\ [Next]_vars => TypeOK'
<1> SUFFICES ASSUME TypeOK, [Next]_vars PROVE TypeOK'
  OBVIOUS
<1>1. CASE Start \/ Die \/ Delete
  <2>1. docker' \in State
    <3>1. CASE Start
      <4>1. docker.run + 1 \in Run
        BY <3>1, Types, LogBounds DEF Start, Run
      <4> QED BY <3>1, <4>1 DEF Start, State
    <3>2. CASE Die \/ Delete
      BY <3>2 DEF Die, Delete, State, TypeOK
    <3> QED BY <1>1, <3>1, <3>2
  <2>2. log' \in Seq(Line) /\ Len(log') <= MaxLines
    <3>1. log \in Seq(Line) /\ Len(log) <= MaxLines
      BY DEF TypeOK
    <3>2. <<>> \in Seq(Line) /\ Len(<<>>) = 0 /\ 0 <= MaxLines
      BY LogBounds
    <3>3. log' = log \/ log' = <<>>
      BY <1>1 DEF Start, Die, Delete
    <3> QED BY <3>1, <3>2, <3>3
  <2> QED BY <1>1, <2>1, <2>2 DEF Start, Die, Delete, OnlyDocker, TypeOK
<1>2. CASE Emit
  BY <1>2, EmitType
<1>3. CASE Sample
  BY <1>3 DEF Sample, InitInspect, InitShow, Inspect, Show, TypeOK
<1>4. CASE Wait
  <2>1. follower' \in Follower
    BY <1>4, Types DEF Wait, Follower
  <2> QED BY <1>4, <2>1 DEF Wait, TypeOK, Follower
<1>5. CASE Open
  <2>1. follower' \in Follower
    BY <1>5, Types DEF Open, Follower
  <2>2. PICK i \in 1..(Len(log) + 1) :
           reader' = [on |-> TRUE, next |-> i, upto |-> docker.run, line |-> None]
    BY <1>5 DEF Open
  <2>3. i \in 1..(MaxLines + 1) /\ docker.run \in Run
    BY Types, LogBounds
  <2>4. reader' \in Reader
    <3> DEFINE line == None
    <3>1. reader' = [on |-> TRUE, next |-> i, upto |-> docker.run, line |-> line]
      BY <2>2
    <3>2. line \in Sent \cup {None}
      OBVIOUS
    <3> HIDE DEF line
    <3> QED BY <2>3, <3>1, <3>2 DEF Reader
  <2> QED BY <1>5, <2>1, <2>4 DEF Open, TypeOK, Follower, Reader
<1>6. CASE OpenFails
  <2>1. follower' \in Follower
    BY <1>6, Types DEF OpenFails, Follower
  <2>2. faults' \in 0..MaxFaults
    BY <1>6, LogBounds DEF OpenFails, Fault, TypeOK
  <2> QED BY <1>6, <2>1, <2>2 DEF OpenFails, TypeOK, Follower
<1>7. CASE Read
  <2>1. reader.next \in 1..Len(log) /\ reader.next + 1 \in 1..(MaxLines + 1)
    BY <1>7, Types, LogBounds DEF Read, Readable, Reader
  <2>2. log[reader.next] \in Sent
    BY <2>1, Types DEF Sent
  <2> DEFINE line == log[reader.next]
             next == reader.next + 1
  <2>3. reader' = [reader EXCEPT !.line = line, !.next = next]
    BY <1>7 DEF Read
  <2>4. line \in Sent /\ next \in 1..(MaxLines + 1)
    BY <2>1, <2>2
  <2> HIDE DEF line, next
  <2>5. reader' \in Reader
    BY <2>3, <2>4, Types DEF Reader
  <2> QED BY <1>7, <2>5 DEF Read, TypeOK, Reader
<1>8. CASE ReadEnds \/ StreamBreaks
  <2> DEFINE line == EOF
  <2>1. reader' = [reader EXCEPT !.line = line]
    BY <1>8 DEF ReadEnds, StreamBreaks, SendEOF
  <2>2. line \in Sent
    BY DEF Sent
  <2> HIDE DEF line
  <2>3. reader' \in Reader
    BY <2>1, <2>2, Types DEF Reader
  <2>4. faults' \in 0..MaxFaults
    BY <1>8, LogBounds DEF ReadEnds, StreamBreaks, Fault, TypeOK
  <2> QED BY <1>8, <2>3, <2>4 DEF ReadEnds, StreamBreaks, SendEOF, TypeOK, Reader
<1>9. CASE HandOver
  <2> DEFINE line == reader.line
             empty == None
  <2>1. line \in Sent \cup {None} /\ empty \in Sent \cup {None}
    BY Types DEF Reader
  <2>2. follower' = [follower EXCEPT !.line = line]
    BY <1>9 DEF HandOver
  <2>3. reader' = NoReader \/ reader' = [reader EXCEPT !.line = empty]
    BY <1>9 DEF HandOver
  <2>4. NoReader \in Reader
    <3>1. NoReader = [on |-> FALSE, next |-> 1, upto |-> 0, line |-> empty]
      BY DEF NoReader
    <3>2. 0 \in Run /\ 1 \in 1..(MaxLines + 1)
      BY LogBounds DEF Run
    <3> HIDE DEF empty
    <3> QED BY <2>1, <3>1, <3>2 DEF Reader
  <2> HIDE DEF line, empty
  <2>5. follower' \in Follower
    BY <2>1, <2>2, Types DEF Follower
  <2>6. reader' \in Reader
    BY <2>1, <2>3, <2>4, Types DEF Reader
  <2> QED BY <1>9, <2>5, <2>6 DEF HandOver, TypeOK, Follower, Reader
<1>10. CASE Deliver
  <2> DEFINE pc == IF follower.line = EOF THEN "wait" ELSE follower.pc
             empty == None
  <2>1. pc \in {"wait", "open", "range", "stuck"}
    BY Types DEF Follower
  <2>2. empty \in Sent \cup {None}
    OBVIOUS
  <2>3. follower' = [follower EXCEPT !.line = empty, !.pc = pc]
    BY <1>10 DEF Deliver
  <2>4. watch' \in Watch
    <3>1. follower.line \in Sent
      BY <1>10, Types DEF Deliver, Follower
    <3>2. watch' = Effect(watch, follower.line)
      BY <1>10 DEF Deliver
    <3> QED BY <3>1, <3>2, Types, EffectType, LogBounds
  <2> HIDE DEF pc, empty
  <2>5. follower' \in Follower
    BY <2>1, <2>2, <2>3, Types DEF Follower
  <2> QED BY <1>10, <2>4, <2>5 DEF Deliver, TypeOK, Follower, Watch
<1>11. CASE UNCHANGED vars
  BY <1>11 DEF vars, TypeOK
<1> QED BY <1>1, <1>2, <1>3, <1>4, <1>5, <1>6, <1>7, <1>8, <1>9, <1>10, <1>11
        DEF Next, Environment, ReaderStep

(* Every reachable state of the log, its three readers and the progress is *)
(* well typed.                                                             *)
THEOREM TypeCorrect == Spec => []TypeOK
<1>1. TypeOK /\ [Next]_vars => TypeOK'
  BY TypeStep
<1> QED BY <1>1, TypeInit, PTL DEF Spec

-----------------------------------------------------------------------------
(* The log: an earlier line x and a later line y of it.                    *)
LinePair(x, y) ==
    /\ x.run <= y.run
    /\ x.run = y.run =>
          /\ ~ y.begins /\ y.kind # "total"
          /\ x.begins /\ y.kind = "current" => y.h < x.h

Begins(x) == x.begins => x.kind = "total" /\ x.h >= 1

LogInv ==
    /\ \A i \in 1..Len(log) : /\ log[i].n = i /\ log[i].run <= docker.run
                              /\ Begins(log[i])
    /\ \A i, j \in 1..Len(log) : i < j => LinePair(log[i], log[j])
    /\ \A j \in 1..Len(log) :
          (\A i \in 1..(j - 1) : log[i].run < log[j].run) => log[j].begins

(* What was sampled of Docker is not ahead of it.                          *)
SampleInv ==
    /\ snap.run <= docker.run /\ initSnap.run <= docker.run /\ cache.run <= docker.run
    /\ follower.since <= docker.run /\ reader.upto <= docker.run

LEMMA LogEmit ==
    ASSUME TypeOK, LogInv, NEW kind, NEW h, Emits(kind, h), docker' = docker
    PROVE  LogInv' /\ \A i \in 1..Len(log) : log'[i] = log[i]
<1> DEFINE y == NewLine(kind, h)
<1>1. /\ y \in Line /\ log' = Append(log, y) /\ log \in Seq(Line)
      /\ \A i \in 1..Len(log) : log[i] \in Line
  BY Types DEF Emits
<1>2. /\ y.run = docker.run /\ y.n = Len(log) + 1 /\ y.kind = kind /\ y.h = h
      /\ y.begins = (ThisRun = {})
  BY DEF NewLine
<1>2a. /\ (ThisRun = {}) <=> (kind = "total")
       /\ h \in Heights
  BY DEF Emits
<1>2b. h >= 1
  BY <1>2a, LogBounds DEF Heights
<1> HIDE DEF y
<1>3. /\ Len(log) \in Nat /\ Len(log') = Len(log) + 1 /\ log'[Len(log) + 1] = y
      /\ \A i \in 1..Len(log) : log'[i] = log[i]
  BY <1>1
<1>4. Begins(y)
  <2>1. y.begins => y.kind = "total"
    BY <1>2, <1>2a
  <2> QED BY <1>2, <1>2b, <2>1 DEF Begins
<1>5. ASSUME NEW i \in 1..Len(log) PROVE LinePair(log[i], y)
  <2>1. log[i].run <= y.run
    BY <1>2 DEF LogInv
  <2>2. ASSUME log[i].run = y.run
        PROVE  /\ ~ y.begins /\ y.kind # "total"
               /\ log[i].begins /\ y.kind = "current" => y.h < log[i].h
    <3>1. i \in ThisRun
      BY <1>1, <1>2, <2>2 DEF ThisRun
    <3> QED BY <1>2, <3>1 DEF Emits
  <2> QED BY <2>1, <2>2 DEF LinePair
<1>6. ASSUME \A i \in 1..Len(log) : log[i].run < y.run PROVE y.begins
  <2>1. \A i \in DOMAIN log : i \in 1..Len(log)
    BY <1>1
  <2>2. ASSUME NEW i \in ThisRun PROVE FALSE
    <3>1. i \in 1..Len(log) /\ log[i].run = docker.run
      BY <2>1 DEF ThisRun
    <3>2. log[i].run \in Int
      BY <1>1, <3>1 DEF Line, Run
    <3> QED BY <1>2, <1>6, <3>1, <3>2
  <2> QED BY <1>2, <2>2
<1>7. \A i \in 1..Len(log') : i \in 1..Len(log) \/ i = Len(log) + 1
  BY <1>3
<1>8. \A i \in 1..Len(log') : /\ log'[i].n = i /\ log'[i].run <= docker'.run
                              /\ Begins(log'[i])
  <2>1. docker.run <= docker.run
    BY Types DEF Run
  <2> QED BY <1>2, <1>3, <1>4, <1>7, <2>1 DEF LogInv
<1>9. ASSUME NEW i \in 1..Len(log'), NEW j \in 1..Len(log'), i < j
      PROVE  LinePair(log'[i], log'[j])
  <2>1. CASE j \in 1..Len(log)
    <3>1. i \in 1..Len(log)
      BY <1>3, <1>9, <2>1
    <3> QED BY <1>3, <1>9, <2>1, <3>1 DEF LogInv
  <2>2. CASE j = Len(log) + 1
    <3>1. i \in 1..Len(log)
      BY <1>3, <1>9, <2>2
    <3> QED BY <1>3, <1>5, <2>2, <3>1
  <2> QED BY <1>7, <2>1, <2>2
<1>10. ASSUME NEW j \in 1..Len(log'),
              \A i \in 1..(j - 1) : log'[i].run < log'[j].run
       PROVE  log'[j].begins
  <2>1. CASE j \in 1..Len(log)
    <3>1. \A i \in 1..(j - 1) : i \in 1..Len(log)
      BY <1>3, <2>1
    <3> QED BY <1>3, <1>10, <2>1, <3>1 DEF LogInv
  <2>2. CASE j = Len(log) + 1
    <3>1. \A i \in 1..Len(log) : i \in 1..(j - 1)
      BY <1>3, <2>2
    <3> QED BY <1>3, <1>6, <1>10, <2>2, <3>1
  <2> QED BY <1>7, <2>1, <2>2
<1> QED BY <1>3, <1>8, <1>9, <1>10 DEF LogInv

LEMMA LogStep ==
    ASSUME TypeOK, LogInv, SampleInv, [Next]_vars
    PROVE  LogInv' /\ SampleInv' /\ docker.run <= docker'.run
<1>0. docker.run \in Nat /\ docker.run <= docker.run /\ docker.run <= docker.run + 1
  BY Types DEF Run
<1>1. CASE UNCHANGED <<docker, log>>
  <2>1. LogInv'
    BY <1>1 DEF LogInv
  <2>2. SampleInv'
    <3>1. CASE Sample
      <4>1. NoReading.run = 0
        BY DEF NoReading
      <4> QED BY <1>0, <1>1, <3>1, <4>1 DEF Sample, InitInspect, InitShow, Inspect, Show,
              SampleInv
    <3>6. CASE Wait
      BY <1>0, <1>1, <3>6 DEF Wait, SampleInv, TypeOK
    <3>2. CASE Open
      <4>1. reader'.upto = docker.run /\ follower'.since = follower.since
        BY <3>2 DEF Open, TypeOK
      <4> QED BY <1>0, <1>1, <3>2, <4>1 DEF Open, SampleInv
    <3>3. CASE OpenFails \/ Read \/ ReadEnds \/ StreamBreaks \/ HandOver \/ Deliver
      <4>1. follower'.since = follower.since
        BY <3>3, Types DEF OpenFails, Read, ReadEnds, StreamBreaks, SendEOF, HandOver,
           Deliver, Follower
      <4>2. reader'.upto = reader.upto \/ reader'.upto = 0
        BY <3>3, Types, NoReaderType DEF OpenFails, Read, ReadEnds, StreamBreaks, SendEOF,
           HandOver, Deliver, Reader
      <4>3. UNCHANGED <<initSnap, snap, cache>>
        BY <3>3 DEF OpenFails, Read, ReadEnds, StreamBreaks, SendEOF, HandOver, Deliver
      <4> QED BY <1>0, <1>1, <4>1, <4>2, <4>3 DEF SampleInv
    <3>4. CASE UNCHANGED vars
      BY <3>4 DEF vars, SampleInv
    <3>5. CASE Start \/ Die \/ Delete \/ Emit
      BY <1>1, <3>5 DEF Start, Die, Delete, Emit, OnlyDocker, SampleInv
    <3> QED BY <3>1, <3>2, <3>3, <3>4, <3>5, <3>6 DEF Next, Environment, ReaderStep
  <2> QED BY <1>0, <1>1, <2>1, <2>2
<1>2. CASE Start
  <2>1. docker'.run = docker.run + 1 /\ UNCHANGED log
    BY <1>2 DEF Start
  <2>2. LogInv'
    <3>1. \A i \in 1..Len(log) : log[i].run \in Nat
      BY Types DEF Line, Run
    <3>2. \A i \in 1..Len(log) : log[i].run <= docker'.run
      BY <1>0, <2>1, <3>1 DEF LogInv
    <3> QED BY <2>1, <3>2 DEF LogInv
  <2>3. SampleInv'
    BY <1>0, <1>2, <2>1, Types DEF Start, OnlyDocker, SampleInv, Run, Follower, Reader
  <2> QED BY <1>0, <2>1, <2>2, <2>3
<1>3. CASE Die \/ Delete
  <2>1. docker'.run = docker.run
    BY <1>3 DEF Die, Delete, TypeOK, State
  <2>2. LogInv'
    <3>1. CASE log' = log
      BY <2>1, <3>1 DEF LogInv
    <3>2. CASE log' = <<>>
      <4>1. Len(log') = 0
        BY <3>2
      <4>2. 1..Len(log') = {}
        BY <4>1
      <4> QED BY <4>2 DEF LogInv
    <3> QED BY <1>3, <3>1, <3>2 DEF Die, Delete
  <2>3. SampleInv'
    BY <1>3, <2>1 DEF Die, Delete, OnlyDocker, SampleInv
  <2> QED BY <1>0, <2>1, <2>2, <2>3
<1>4. CASE Emit
  <2>1. PICK kind, h : Emits(kind, h)
    BY <1>4, EmitEmits
  <2>2. UNCHANGED <<docker, cache, initSnap, snap, follower, reader>>
    BY <1>4, EmitEmits
  <2>3. LogInv'
    BY <2>1, <2>2, LogEmit
  <2> QED BY <1>0, <2>2, <2>3 DEF SampleInv
<1>5. CASE ~ (Start \/ Die \/ Delete \/ Emit)
  BY <1>1, <1>5 DEF Next, Environment, Sample, InitInspect, InitShow, Inspect, Show,
     Wait, Open, OpenFails, ReaderStep, Read, ReadEnds, StreamBreaks, SendEOF, HandOver, Deliver, vars
<1> QED BY <1>2, <1>3, <1>4, <1>5

-----------------------------------------------------------------------------
(* The lines on their way: what the reader holds (r), what the follower    *)
(* holds (f), and what the watcher has folded in (w).                      *)

(* Who holds a line in which stage.                                        *)
StageInv ==
    /\ follower.pc # "range" => /\ ~ reader.on /\ follower.line = None
                                /\ watch.last = None
    /\ ~ reader.on => reader.line = None
    /\ reader.on => follower.line # EOF
    /\ watch.last = None => /\ watch.first = None
                            /\ watch.current = 0 /\ watch.total = 0
    /\ watch.first = None => watch.last = None

(* Lines on their way follow one another in the log.                       *)
Order(on, next, r, f, l) ==
    /\ l \in Line /\ f \in Line => f.n = l.n + 1
    /\ f \in Line /\ r \in Line => r.n = f.n + 1
    /\ l \in Line /\ f = None /\ r \in Line => r.n = l.n + 1
    /\ on /\ r \in Line => next = r.n + 1
    /\ on /\ r = None /\ f \in Line => next = f.n + 1
    /\ on /\ r = None /\ f = None /\ l \in Line => next = l.n + 1

OrderInv == Order(reader.on, reader.next, reader.line, follower.line, watch.last)

(* The first line of a stream is the first of its run.                     *)
Begun(r, f, first, last) ==
    /\ first \in Line => first.begins
    /\ last = None => /\ f \in Line => f.begins
                      /\ f = None /\ r \in Line => r.begins

BeginInv == Begun(reader.line, follower.line, watch.first, watch.last)

(* What the log says of two of its lines holds of those on their way.      *)
Pair(x, y) == x \in Line /\ y \in Line => LinePair(x, y)

Pairs(r, f, first, last) ==
    /\ first = last \/ Pair(first, last)
    /\ Pair(first, f) /\ Pair(first, r)
    /\ Pair(last, f) /\ Pair(last, r) /\ Pair(f, r)
    /\ r \in Line => Begins(r)
    /\ f \in Line => Begins(f)

PairInv == Pairs(reader.line, follower.line, watch.first, watch.last)

(* A stream follows the log its lines are from, or that log is gone.       *)
Gone == /\ \A i \in 1..Len(log) : log[i].run > reader.upto
        /\ docker.status = "absent" \/ docker.run > reader.upto

Kept(x) == x \in Line => x.n \in 1..Len(log) /\ x.n < reader.next /\ log[x.n] = x

Intact == /\ reader.next <= Len(log) + 1
          /\ Kept(reader.line) /\ Kept(follower.line)
          /\ Kept(watch.first) /\ Kept(watch.last)
          /\ reader.line = None /\ follower.line = None /\ watch.last = None =>
                FirstSince(reader.next, follower.since)

ReadInv == reader.on => Gone \/ Intact

(* The total stands until lnd says it is done.                             *)
WatchInv ==
    watch.last # None /\ watch.first.run = watch.last.run =>
       watch.done \/ (watch.total = watch.first.h /\ watch.current < watch.total)

Pipe == StageInv /\ OrderInv /\ BeginInv /\ PairInv /\ WatchInv

IInv == TypeOK /\ LogInv /\ SampleInv /\ Pipe /\ ReadInv

LEMMA PipeUnchanged ==
    ASSUME Pipe, UNCHANGED <<reader, watch>>, follower'.line = follower.line,
           (follower.pc # "range") <=> (follower'.pc # "range")
    PROVE  Pipe'
BY DEF Pipe, StageInv, OrderInv, BeginInv, PairInv, WatchInv

LEMMA StepEmit ==
    ASSUME IInv, Emit
    PROVE  ReadInv'
<1>1. PICK kind, h : Emits(kind, h)
  BY EmitEmits DEF IInv
<1>2. UNCHANGED <<docker, cache, snap, follower, reader, watch>>
  BY EmitEmits DEF IInv
<1> DEFINE y == NewLine(kind, h)
<1>3. y.run = docker.run
  BY DEF NewLine
<1>4. log' = Append(log, y) /\ y \in Line /\ docker.status = "running"
  BY <1>1 DEF Emits
<1> HIDE DEF y
<1>5. /\ Len(log) \in Nat /\ Len(log') = Len(log) + 1 /\ log'[Len(log) + 1] = y
      /\ \A i \in 1..Len(log) : log'[i] = log[i]
  BY <1>4, Types DEF IInv
<1>6. \A i \in 1..Len(log') : i \in 1..Len(log) \/ i = Len(log) + 1
  BY <1>5
<1>7. /\ docker.run \in Nat /\ reader.upto \in Nat /\ follower.since \in Nat
      /\ reader.next \in Nat /\ follower.since <= docker.run
  BY Types, LogBounds DEF IInv, Reader, Follower, Run, SampleInv
<1>8. CASE Gone
  <2>1. docker.run > reader.upto
    BY <1>4, <1>8 DEF Gone
  <2>2. \A i \in 1..Len(log') : log'[i].run > reader.upto
    BY <1>3, <1>5, <1>6, <1>8, <2>1 DEF Gone
  <2> QED BY <1>2, <2>1, <2>2 DEF Gone, ReadInv
<1>9. CASE Intact
  <2>1. ASSUME NEW x, Kept(x)
        PROVE  x \in Line => x.n \in 1..Len(log') /\ x.n < reader.next /\ log'[x.n] = x
    BY <1>5, <2>1 DEF Kept
  <2>2. reader.next <= Len(log') + 1
    BY <1>5, <1>7, <1>9 DEF Intact
  <2>3. ASSUME FirstSince(reader.next, follower.since)
        PROVE  FirstSince(reader.next, follower.since)'
    <3>1. \A j \in 1..(reader.next - 1) : j \in 1..Len(log)
      BY <1>5, <1>7, <1>9 DEF Intact
    <3>2. \A j \in 1..(reader.next - 1) : log'[j].run < follower.since
      BY <1>5, <2>3, <3>1 DEF FirstSince
    <3>3. reader.next >= 1
      BY Types DEF IInv, Reader
    <3>4. CASE reader.next <= Len(log)
      BY <1>2, <1>5, <1>7, <2>3, <3>2, <3>3, <3>4 DEF FirstSince
    <3>5. CASE reader.next = Len(log) + 1
      BY <1>2, <1>3, <1>5, <1>7, <3>2, <3>5 DEF FirstSince
    <3> QED BY <1>5, <1>7, <1>9, <3>4, <3>5 DEF Intact
  <2>4. Kept(reader.line)' /\ Kept(follower.line)' /\ Kept(watch.first)' /\ Kept(watch.last)'
    BY <1>2, <1>9, <2>1 DEF Intact, Kept
  <2>5. Intact'
    BY <1>2, <1>9, <2>2, <2>3, <2>4 DEF Intact
  <2> QED BY <2>5 DEF ReadInv
<1> QED BY <1>2, <1>8, <1>9 DEF IInv, ReadInv

LEMMA StepEnvironment ==
    ASSUME IInv, Environment
    PROVE  Pipe' /\ ReadInv'
<1>1. UNCHANGED <<follower, reader, watch>>
  BY DEF Environment, Start, Die, Delete, Emit, OnlyDocker, Sample, InitInspect,
     InitShow, Inspect, Show
<1>2. Pipe'
  BY <1>1, PipeUnchanged DEF IInv
<1>3. docker.run \in Nat /\ reader.upto \in Nat /\ reader.upto <= docker.run
  BY Types DEF IInv, Reader, Run, SampleInv
<1>4. CASE Start \/ Die
  <2>1. UNCHANGED log
    BY <1>4 DEF Start, Die
  <2>2. Gone => Gone'
    <3>1. CASE Start
      <4>1. docker'.run = docker.run + 1
        BY <3>1 DEF Start
      <4> QED BY <1>1, <1>3, <2>1, <4>1 DEF Gone
    <3>2. CASE Die
      <4>1. docker'.run = docker.run /\ docker.status = "running"
        BY <3>2 DEF Die, IInv, TypeOK, State
      <4> QED BY <1>1, <2>1, <4>1 DEF Gone
    <3> QED BY <1>4, <3>1, <3>2
  <2>3. Intact => Intact'
    BY <1>1, <2>1 DEF Intact, Kept, FirstSince
  <2> QED BY <1>1, <1>2, <2>2, <2>3 DEF IInv, ReadInv
<1>5. CASE Delete
  <2>1. docker'.status = "absent"
    BY <1>5 DEF Delete, IInv, TypeOK, State
  <2>2. log' = <<>>
    BY <1>5 DEF Delete
  <2>3. Len(log') = 0
    BY <2>2
  <2>4. \A i \in 1..Len(log') : FALSE
    BY <2>3
  <2> QED BY <1>2, <2>1, <2>4 DEF Gone, ReadInv
<1>6. CASE Sample
  <2>1. UNCHANGED <<docker, log>>
    BY <1>6 DEF Sample, InitInspect, InitShow, Inspect, Show
  <2> QED BY <1>1, <1>2, <2>1 DEF IInv, ReadInv, Gone, Intact, Kept, FirstSince
<1> QED BY <1>2, <1>4, <1>5, <1>6, StepEmit DEF Environment

LEMMA StepWait ==
    ASSUME IInv, Wait \/ OpenFails
    PROVE  Pipe' /\ ReadInv'
<1>1. /\ UNCHANGED <<docker, log, reader, watch>> /\ follower'.line = follower.line
      /\ follower.pc # "range" /\ follower'.pc # "range"
  BY Types DEF IInv, Wait, OpenFails, Follower
<1>2. ~ reader.on
  BY <1>1 DEF IInv, Pipe, StageInv
<1> QED BY <1>1, <1>2, PipeUnchanged DEF IInv, ReadInv

LEMMA StepOpen ==
    ASSUME IInv, Open
    PROVE  Pipe' /\ ReadInv'
<1>1. PICK i \in 1..(Len(log) + 1) :
          /\ FirstSince(i, follower.since)
          /\ reader' = [on |-> TRUE, next |-> i, upto |-> docker.run, line |-> None]
  BY DEF Open
<1>2. reader'.on = TRUE /\ reader'.next = i /\ reader'.line = None
  BY <1>1
<1>3. /\ follower.pc = "open" /\ follower'.pc = "range"
      /\ follower'.line = follower.line /\ follower'.since = follower.since
  BY Types DEF IInv, Open, Follower
<1>4. UNCHANGED <<docker, log, watch>>
  BY DEF Open
<1>5. follower.line = None /\ watch.last = None /\ watch.first = None
  BY <1>3 DEF IInv, Pipe, StageInv
<1>6. StageInv'
  BY <1>2, <1>3, <1>4, <1>5, NotLines DEF IInv, Pipe, StageInv
<1>7. OrderInv'
  BY <1>2, <1>3, <1>4, <1>5, NotLines DEF OrderInv, Order
<1>8. BeginInv'
  BY <1>2, <1>3, <1>4, <1>5, NotLines DEF BeginInv, Begun
<1>9. PairInv'
  BY <1>2, <1>3, <1>4, <1>5, NotLines DEF PairInv, Pairs, Pair
<1>10. WatchInv'
  BY <1>4, <1>5 DEF WatchInv
<1>11. ReadInv'
  <2>1. FirstSince(i, follower.since)'
    BY <1>1, <1>3, <1>4 DEF FirstSince
  <2>2. FirstSince(reader.next, follower.since)'
    BY <1>2, <1>3, <2>1
  <2>3. reader'.next <= Len(log') + 1
    BY <1>1, <1>2, <1>4, Types DEF IInv
  <2>4. Intact'
    BY <1>2, <1>3, <1>4, <1>5, <2>2, <2>3, NotLines DEF Intact, Kept
  <2> QED BY <2>4 DEF ReadInv
<1> QED BY <1>6, <1>7, <1>8, <1>9, <1>10, <1>11 DEF Pipe

LEMMA StepRead ==
    ASSUME IInv, Read
    PROVE  Pipe' /\ ReadInv'
<1> DEFINE x == log[reader.next]
<1>1. reader' = [reader EXCEPT !.line = x, !.next = reader.next + 1]
  BY DEF Read
<1>2. UNCHANGED <<docker, log, follower, watch>>
  BY DEF Read
<1>3. /\ reader.on /\ reader.line = None /\ x.run <= reader.upto
      /\ reader.next \in 1..Len(log)
  BY Types DEF IInv, Read, Readable, Reader
<1>4. x \in Line /\ x.n = reader.next /\ Begins(x)
  BY <1>3, Types DEF IInv, LogInv
<1>5. /\ reader'.on = reader.on /\ reader'.next = reader.next + 1
      /\ reader'.upto = reader.upto /\ reader'.line = x
  BY <1>1, Types DEF IInv, Reader
<1>6. Intact
  <2>1. x.run \in Int /\ reader.upto \in Int
    BY <1>4, Types DEF IInv, Line, Run, Reader
  <2>2. ~ Gone
    BY <1>3, <2>1 DEF Gone
  <2> QED BY <1>3, <2>2 DEF IInv, ReadInv
<1>7. ASSUME NEW y, Kept(y)
      PROVE  Pair(y, x) /\ (y \in Line => y.n < reader.next)
  <2>1. CASE y \in Line
    <3>1. y.n \in 1..Len(log) /\ y.n < reader.next /\ log[y.n] = y
      BY <1>7, <2>1 DEF Kept
    <3>2. LinePair(log[y.n], log[reader.next])
      BY <1>3, <3>1 DEF IInv, LogInv
    <3> QED BY <3>1, <3>2 DEF Pair
  <2> QED BY <2>1 DEF Pair
<1>8. x.begins \/ ~ (follower.line = None /\ watch.last = None)
  <2> SUFFICES ASSUME follower.line = None, watch.last = None PROVE x.begins
    OBVIOUS
  <2>1. FirstSince(reader.next, follower.since)
    BY <1>3, <1>6 DEF Intact
  <2>2. \A i \in 1..(reader.next - 1) : log[i].run < follower.since /\ i \in 1..Len(log)
    BY <1>3, <2>1 DEF FirstSince
  <2>3. x.run >= follower.since
    BY <1>3, <2>1 DEF FirstSince
  <2>4. /\ follower.since \in Int /\ x.run \in Int
        /\ \A i \in 1..Len(log) : log[i].run \in Int
    BY <1>4, Types DEF IInv, Line, Run, Follower
  <2>5. \A i \in 1..(reader.next - 1) : log[i].run < log[reader.next].run
    BY <2>2, <2>3, <2>4
  <2> QED BY <1>3, <2>5 DEF IInv, LogInv
<1> HIDE DEF x
<1>9. x # None /\ x # EOF
  BY <1>4, NotLines
<1>10. StageInv'
  BY <1>2, <1>3, <1>5 DEF IInv, Pipe, StageInv
<1>11. OrderInv'
  BY <1>2, <1>3, <1>4, <1>5, <1>9 DEF IInv, Pipe, OrderInv, Order
<1>12. BeginInv'
  BY <1>2, <1>3, <1>4, <1>5, <1>8 DEF IInv, Pipe, BeginInv, Begun
<1>13. PairInv'
  BY <1>2, <1>3, <1>4, <1>5, <1>6, <1>7 DEF IInv, Pipe, PairInv, Pairs, Intact
<1>14. WatchInv'
  BY <1>2 DEF IInv, Pipe, WatchInv
<1>15. Intact'
  <2>1. reader.next \in Nat /\ reader.next < reader.next + 1
    BY <1>3
  <2>3. ASSUME NEW y, Kept(y)
        PROVE  y \in Line => y.n \in 1..Len(log) /\ y.n < reader.next + 1 /\ log[y.n] = y
    BY <2>1, <2>3 DEF Kept
  <2>4. Kept(follower.line)' /\ Kept(watch.first)' /\ Kept(watch.last)'
    BY <1>2, <1>5, <1>6, <2>3 DEF Kept, Intact
  <2>5. Kept(reader.line)'
    BY <1>2, <1>3, <1>4, <1>5, <2>1 DEF x, Kept
  <2>6. reader'.next <= Len(log') + 1
    BY <1>2, <1>3, <1>5, Types DEF IInv
  <2> QED BY <1>5, <1>9, <2>4, <2>5, <2>6 DEF Intact
<1> QED BY <1>10, <1>11, <1>12, <1>13, <1>14, <1>15 DEF Pipe, ReadInv

LEMMA StepEnd ==
    ASSUME IInv, ReadEnds \/ StreamBreaks
    PROVE  Pipe' /\ ReadInv'
<1>1. reader.on /\ reader.line = None /\ reader' = [reader EXCEPT !.line = EOF]
  BY DEF ReadEnds, StreamBreaks, SendEOF
<1>2. UNCHANGED <<docker, log, follower, watch>>
  BY DEF ReadEnds, StreamBreaks, SendEOF
<1> DEFINE x == EOF
<1>3. x \notin Line /\ x # None
  BY NotLines
<1>4. reader' = [reader EXCEPT !.line = x]
  BY <1>1
<1> HIDE DEF x
<1>5. /\ reader'.on = reader.on /\ reader'.next = reader.next
      /\ reader'.upto = reader.upto /\ reader'.line = x
  BY <1>4, Types DEF IInv, Reader
<1>6. StageInv'
  BY <1>1, <1>2, <1>5 DEF IInv, Pipe, StageInv
<1>7. OrderInv' /\ BeginInv' /\ WatchInv'
  BY <1>2, <1>3, <1>5 DEF IInv, Pipe, OrderInv, Order, BeginInv, Begun, WatchInv
<1>8. PairInv'
  BY <1>2, <1>3, <1>5 DEF IInv, Pipe, PairInv, Pairs, Pair
<1>9. Gone => Gone'
  BY <1>2, <1>5 DEF Gone
<1>10. Intact => Intact'
  BY <1>2, <1>3, <1>5 DEF Intact, Kept
<1> QED BY <1>1, <1>6, <1>7, <1>8, <1>9, <1>10 DEF IInv, Pipe, ReadInv

LEMMA StepHandOver ==
    ASSUME IInv, HandOver
    PROVE  Pipe' /\ ReadInv'
<1>1. /\ reader.line # None /\ follower.pc = "range" /\ follower.line = None
      /\ UNCHANGED <<docker, log, watch>>
  BY DEF HandOver
<1>2. reader.on
  BY <1>1 DEF IInv, Pipe, StageInv
<1>3. /\ follower'.line = reader.line /\ follower'.pc = follower.pc
      /\ follower'.since = follower.since
  BY Types DEF IInv, HandOver, Follower
<1>4. reader'.line = None
  BY NoReaderType, Types DEF IInv, HandOver, Reader
<1>5. CASE reader.line = EOF
  <2>1. reader'.on = FALSE
    BY <1>5, NoReaderType DEF HandOver
  <2>2. follower'.line # None /\ follower'.line \notin Line
    BY <1>1, <1>3, <1>5, NotLines
  <2>3. StageInv'
    BY <1>1, <1>3, <1>4, <2>1 DEF IInv, Pipe, StageInv
  <2>4. OrderInv' /\ BeginInv' /\ WatchInv'
    BY <1>1, <1>4, <2>1, <2>2, NotLines
       DEF IInv, Pipe, OrderInv, Order, BeginInv, Begun, WatchInv
  <2>5. PairInv'
    BY <1>1, <1>4, <2>2, NotLines DEF IInv, Pipe, PairInv, Pairs, Pair
  <2> QED BY <2>1, <2>3, <2>4, <2>5 DEF Pipe, ReadInv
<1>6. CASE reader.line # EOF
  <2>1. reader.line \in Line
    BY <1>1, <1>6, Types DEF IInv, Reader, Sent
  <2>2. reader' = [reader EXCEPT !.line = None]
    BY <1>6 DEF HandOver
  <2>3. /\ reader'.on = reader.on /\ reader'.next = reader.next
        /\ reader'.upto = reader.upto
    BY <2>2, Types DEF IInv, Reader
  <2>4. StageInv'
    BY <1>1, <1>2, <1>3, <1>6, <2>3 DEF IInv, Pipe, StageInv
  <2>5. OrderInv'
    BY <1>1, <1>2, <1>3, <1>4, <2>1, <2>3, NotLines DEF IInv, Pipe, OrderInv, Order
  <2>6. BeginInv' /\ WatchInv'
    BY <1>1, <1>3, <1>4, <2>1, NotLines DEF IInv, Pipe, BeginInv, Begun, WatchInv
  <2>7. PairInv'
    BY <1>1, <1>3, <1>4, <2>1, NotLines DEF IInv, Pipe, PairInv, Pairs, Pair
  <2>8. Gone => Gone'
    BY <1>1, <2>3 DEF Gone
  <2>9. Intact => Intact'
    BY <1>1, <1>3, <1>4, <2>1, <2>3, NotLines DEF Intact, Kept
  <2> QED BY <1>2, <2>4, <2>5, <2>6, <2>7, <2>8, <2>9 DEF IInv, Pipe, ReadInv
<1> QED BY <1>5, <1>6

(* The watcher folds in a line: the step the theorems are about.           *)
DeliverLine(x) == /\ x = follower.line /\ x \in Line /\ follower.pc = "range"
                  /\ watch' = Effect(watch, x)
                  /\ follower'.line = None /\ follower'.pc = "range"
                  /\ follower'.since = follower.since
                  /\ UNCHANGED <<docker, log, reader>>

LEMMA Delivered ==
    ASSUME IInv, NEW x, DeliverLine(x)
    PROVE  /\ watch'.last = x /\ watch'.first \in Line /\ watch'.last # None
           /\ watch'.first = (IF watch.first = None THEN x ELSE watch.first)
           /\ IF watch.last = None THEN x.begins ELSE x.n = watch.last.n + 1
<1>1. watch \in Watch /\ x \in Line /\ x # None
  BY Types, NotLines DEF IInv, DeliverLine
<1>2. /\ watch'.last = x
      /\ watch'.first = (IF watch.first = None THEN x ELSE watch.first)
  BY <1>1, EffectOf DEF DeliverLine
<1>3. watch.first \in Line \cup {None} /\ watch.last \in Line \cup {None}
  BY <1>1 DEF Watch
<1>4. watch.last = None => x.begins
  BY <1>1 DEF IInv, Pipe, BeginInv, Begun, DeliverLine
<1>5. watch.last # None => x.n = watch.last.n + 1
  BY <1>1, <1>3 DEF IInv, Pipe, OrderInv, Order, DeliverLine
<1> QED BY <1>1, <1>2, <1>3, <1>4, <1>5

LEMMA DeliveredWatch ==
    ASSUME IInv, NEW x, DeliverLine(x)
    PROVE  WatchInv'
<1>1. /\ watch \in Watch /\ x \in Line /\ watch' = Effect(watch, x)
      /\ x = follower.line
  BY Types DEF IInv, DeliverLine
<1>2. /\ watch'.last = x
      /\ watch'.first = (IF watch.first = None THEN x ELSE watch.first)
      /\ x.kind = "total" => /\ watch'.total = x.h /\ watch'.current = watch.current
                             /\ watch'.done = watch.done
      /\ x.kind = "current" => /\ watch'.total = watch.total /\ watch'.current = x.h
                               /\ watch'.done = watch.done
      /\ x.kind = "done" => watch'.done
  BY <1>1, EffectOf
<1>3. x.kind \in {"total", "current", "done"} /\ x.h \in Nat /\ x.run \in Nat
  BY <1>1, LogBounds DEF Line, Height, Run
<1>4. CASE watch.last = None
  <2>1. watch.first = None /\ watch.current = 0
    BY <1>4 DEF IInv, Pipe, StageInv
  <2>2. x.begins
    BY <1>1, <1>4 DEF IInv, Pipe, BeginInv, Begun
  <2>3. x.kind = "total" /\ x.h >= 1
    BY <1>1, <2>2 DEF IInv, Pipe, PairInv, Pairs, Begins
  <2> QED BY <1>2, <1>3, <2>1, <2>3 DEF WatchInv
<1>5. CASE watch.last # None
  <2>1. watch.first \in Line /\ watch.last \in Line
    BY <1>1, <1>5 DEF IInv, Pipe, StageInv, Watch
  <2>2. watch'.first = watch.first
    BY <1>2, <2>1, NotLines
  <2>3. /\ watch.first = watch.last \/ LinePair(watch.first, watch.last)
        /\ LinePair(watch.first, x) /\ LinePair(watch.last, x)
    BY <1>1, <2>1 DEF IInv, Pipe, PairInv, Pairs, Pair
  <2>4. watch.first.begins
    BY <2>1 DEF IInv, Pipe, BeginInv, Begun
  <2>5. watch.first.run \in Nat /\ watch.last.run \in Nat /\ watch.first.h \in Nat
    BY <2>1, LogBounds DEF Line, Run, Height
  <2>6. ASSUME watch.first.run = x.run
        PROVE  watch'.done \/ (watch'.total = watch.first.h /\ watch'.current < watch'.total)
    <3>1. watch.first.run = watch.last.run
      BY <1>3, <2>3, <2>5, <2>6 DEF LinePair
    <3>2. watch.done \/ (watch.total = watch.first.h /\ watch.current < watch.total)
      BY <1>5, <3>1 DEF IInv, Pipe, WatchInv
    <3>3. x.kind # "total" /\ (x.kind = "current" => x.h < watch.first.h)
      BY <2>3, <2>4, <2>6 DEF LinePair
    <3> QED BY <1>2, <1>3, <3>2, <3>3
  <2> QED BY <1>2, <2>2, <2>6 DEF WatchInv
<1> QED BY <1>4, <1>5

LEMMA StepLine ==
    ASSUME IInv, NEW x, DeliverLine(x)
    PROVE  Pipe' /\ ReadInv'
<1>1. /\ x = follower.line /\ x \in Line /\ follower.pc = "range" /\ x # None
      /\ follower'.line = None /\ follower'.pc = "range" /\ None # EOF
      /\ follower'.since = follower.since /\ UNCHANGED <<docker, log, reader>>
  BY NotLines DEF DeliverLine
<1>2. /\ watch'.last = x /\ watch'.first \in Line /\ watch'.last # None
      /\ watch'.first = (IF watch.first = None THEN x ELSE watch.first)
      /\ IF watch.last = None THEN x.begins ELSE x.n = watch.last.n + 1
  BY Delivered
<1>3. /\ watch.first \in Line \cup {None} /\ watch.last \in Line \cup {None}
      /\ watch.last = None <=> watch.first = None
      /\ watch.first = None => watch'.first = x
      /\ watch.first # None => watch'.first = watch.first
  BY <1>2, Types DEF IInv, Pipe, StageInv, Watch
<1>4. StageInv'
  BY <1>1, <1>2, <1>3, NotLines DEF IInv, Pipe, StageInv
<1>5. OrderInv'
  BY <1>1, <1>2, NotLines DEF IInv, Pipe, OrderInv, Order
<1>6. BeginInv'
  BY <1>1, <1>2, <1>3, NotLines DEF IInv, Pipe, BeginInv, Begun
<1>7. PairInv'
  BY <1>1, <1>2, <1>3, NotLines DEF IInv, Pipe, PairInv, Pairs, Pair
<1>8. Gone => Gone'
  BY <1>1 DEF Gone
<1>9. Intact => Intact'
  BY <1>1, <1>2, <1>3, NotLines DEF Intact, Kept
<1> QED BY <1>1, <1>4, <1>5, <1>6, <1>7, <1>8, <1>9, DeliveredWatch DEF IInv, Pipe, ReadInv

LEMMA StepSentinel ==
    ASSUME IInv, Deliver, follower.line = EOF
    PROVE  Pipe' /\ ReadInv' /\ watch'.last = None
<1>1. ~ reader.on /\ reader.line = None /\ UNCHANGED <<docker, log, reader>>
  BY DEF IInv, Pipe, StageInv, Deliver
<1>2. follower'.line = None /\ follower'.pc = "wait"
  BY Types DEF IInv, Deliver, Follower
<1>3. watch' = Zero
  BY DEF Deliver, Effect
<1>4. /\ watch'.last = None /\ watch'.first = None
      /\ watch'.current = 0 /\ watch'.total = 0
  BY <1>3, ZeroType
<1>5. StageInv' /\ ReadInv'
  BY <1>1, <1>2, <1>4 DEF StageInv, ReadInv
<1>6. OrderInv' /\ BeginInv'
  BY <1>1, <1>2, <1>4, NotLines DEF OrderInv, Order, BeginInv, Begun
<1>7. PairInv' /\ WatchInv'
  BY <1>1, <1>2, <1>4, NotLines DEF PairInv, Pairs, Pair, WatchInv
<1> QED BY <1>4, <1>5, <1>6, <1>7 DEF Pipe

LEMMA DeliverSplit ==
    ASSUME TypeOK, IInv, Deliver
    PROVE  follower.line = EOF \/ DeliverLine(follower.line)
<1>1. follower.line # None /\ watch' = Effect(watch, follower.line)
  BY DEF Deliver
<1>2. follower.line # EOF => follower.line \in Line
  BY <1>1, Types DEF Follower, Sent
<1>3. follower.pc = "range"
  BY <1>1 DEF IInv, Pipe, StageInv
<1>4. ASSUME follower.line # EOF
      PROVE  /\ follower'.line = None /\ follower'.pc = "range"
             /\ follower'.since = follower.since
  BY <1>3, <1>4, Types DEF Deliver, Follower
<1> QED BY <1>1, <1>2, <1>3, <1>4 DEF Deliver, DeliverLine

LEMMA InvInit == Init => IInv
<1> SUFFICES ASSUME Init PROVE IInv
  OBVIOUS
<1>1. /\ follower.pc = "wait" /\ follower.line = None /\ follower.since = 0
      /\ ~ reader.on /\ reader.line = None /\ reader.upto = 0
      /\ watch.first = None /\ watch.last = None
      /\ watch.current = 0 /\ watch.total = 0
      /\ docker.run \in {0, 1} /\ snap.run = 0 /\ initSnap.run = 0 /\ cache.run = 0
  BY ZeroType, NoReaderType DEF Init, Unread, NoReading
<1>2. log = <<>>
  BY DEF Init
<1>3. Len(log) = 0
  BY <1>2
<1>4. \A i \in 1..Len(log) : FALSE
  BY <1>3
<1>5. LogInv
  BY <1>4 DEF LogInv
<1>6. SampleInv
  BY <1>1 DEF SampleInv
<1>7. StageInv /\ WatchInv /\ ReadInv
  BY <1>1 DEF StageInv, WatchInv, ReadInv
<1>8. OrderInv /\ BeginInv /\ PairInv
  BY <1>1, NotLines DEF OrderInv, Order, BeginInv, Begun, PairInv, Pairs, Pair
<1> QED BY <1>5, <1>6, <1>7, <1>8, TypeInit DEF IInv, Pipe

LEMMA InvStep == IInv /\ [Next]_vars => IInv'
<1> SUFFICES ASSUME IInv, [Next]_vars PROVE IInv'
  OBVIOUS
<1>1. TypeOK' /\ LogInv' /\ SampleInv'
  BY TypeStep, LogStep DEF IInv
<1>2. Pipe' /\ ReadInv'
  <2>1. CASE Deliver
    BY <2>1, DeliverSplit, StepLine, StepSentinel DEF IInv
  <2>2. CASE UNCHANGED vars
    <3>1. UNCHANGED <<docker, log, follower, reader, watch>>
      BY <2>2 DEF vars
    <3>2. Pipe'
      BY <3>1, PipeUnchanged DEF IInv
    <3> QED BY <3>1, <3>2 DEF IInv, ReadInv, Gone, Intact, Kept, FirstSince
  <2> QED BY <2>1, <2>2, StepEnvironment, StepWait, StepOpen, StepRead, StepEnd, StepHandOver
          DEF Next, ReaderStep
<1> QED BY <1>1, <1>2 DEF IInv

(* What the watcher folds in begins with the first line of a run and then  *)
(* misses, repeats and reorders no line of the log.                        *)
THEOREM LinesInOrder == Spec => InOrder
<1>1. ASSUME IInv, [Next]_vars
      PROVE  [LET x == watch'.last
              IN  x # watch.last /\ x # None =>
                    IF watch.last = None THEN x.begins ELSE x.n = watch.last.n + 1]_vars
  <2>1. CASE ~ Deliver
    <3>1. UNCHANGED watch
      BY <1>1, <2>1 DEF Next, Environment, ReaderStep, vars, Start, Die, Delete, Emit,
         OnlyDocker, Sample, InitInspect, InitShow, Inspect, Show, Wait, Open, OpenFails,
         Read, ReadEnds, StreamBreaks, SendEOF, HandOver
    <3> QED BY <3>1
  <2>2. CASE Deliver
    <3>1. CASE follower.line = EOF
      BY <1>1, <2>2, <3>1, StepSentinel
    <3>2. CASE DeliverLine(follower.line)
      BY <1>1, <3>2, Delivered
    <3> QED BY <1>1, <2>2, <3>1, <3>2, DeliverSplit DEF IInv
  <2> QED BY <2>1, <2>2
<1> QED BY <1>1, InvInit, InvStep, PTL DEF Spec, InOrder

(* The progress says Synced only after lnd logged that it has caught up.   *)
THEOREM SyncedAfterDone == Spec => []SyncedIsDone
<1>1. IInv => SyncedIsDone
  <2> SUFFICES ASSUME IInv, Synced, watch.first # None, watch.first.run = watch.last.run
               PROVE  watch.done
    BY DEF SyncedIsDone
  <2>1. watch.last # None
    BY DEF IInv, Pipe, StageInv
  <2>2. watch.current \in Nat /\ watch.total \in Nat
    BY Types, LogBounds DEF IInv, Watch, Height
  <2> QED BY <2>1, <2>2 DEF IInv, Pipe, WatchInv, Synced
<1> QED BY <1>1, InvInit, InvStep, PTL DEF Spec
=============================================================================
