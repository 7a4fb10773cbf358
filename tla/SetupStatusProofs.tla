-------------------------- MODULE SetupStatusProofs --------------------------
(***************************************************************************)
(* What a client of the setup status reads is in order and, as long as     *)
(* updates of the slice do not overlap, complete, for any requests, size   *)
(* of the channels and number of statuses.                                 *)
(***************************************************************************)
EXTENDS SetupStatus, TLAPS

-----------------------------------------------------------------------------
(* h is the history, o what a client has been sent, b what waits for it.   *)
Kind == {"step", "Done"}
NoDone(h, o, n) == \A i \in 1..n : h[o[i]] # "Done"
Sorted(b) == \A i, j \in 1..Len(b) : i <= j => b[i] <= b[j]
Split(o, b, k) == /\ \A i \in 1..k : o[i] = i
                  /\ \A i \in (k + 1)..(Len(o) - 1) : o[i] <= o[i + 1]
                  /\ Len(o) > k => \A j \in 1..Len(b) : o[Len(o)] <= b[j]

Fine(h, o, b) == /\ o \in Seq(1..Len(h)) /\ b \in Seq(1..Len(h)) /\ Sorted(b)
                 /\ NoDone(h, o, Len(o) - 1)
                 /\ \E k \in 0..Len(o) : Split(o, b, k)

(* Where a request is, by its thread s.                                    *)
Early == {"new", "append", "listed"}
Place == [pc : {"write", "read"}, arr : Nat, len : Nat, at : Nat]

Placed(h, o, s) ==
    /\ s.pc \in Early => o = <<>>
    /\ s.pc \in {"write", "read"} => s \in Place /\ NoDone(h, o, Len(o))
    /\ s.pc = "write" => /\ s.len <= Len(h) /\ s.at = Len(o) + 1
                         /\ \A i \in 1..Len(o) : o[i] = i

OrderInv ==
    /\ history \in Seq(Kind)
    /\ agent.pc \in {"range", "send"} => Len(history) >= 1
    /\ DOMAIN stream = Streams /\ DOMAIN out = Streams /\ DOMAIN buf = Streams
    /\ \A c \in Streams : /\ Fine(history, out[c], buf[c])
                          /\ Placed(history, out[c], stream[c])

LEMMA SeqMono ==
    ASSUME NEW S, NEW T, S \subseteq T, NEW o \in Seq(S) PROVE o \in Seq(T)
<1>1. Len(o) \in Nat /\ o = [i \in 1..Len(o) |-> o[i]] /\ \A i \in 1..Len(o) : o[i] \in T
  OBVIOUS
<1>2. o \in [1..Len(o) -> T]
  BY <1>1
<1> QED BY <1>1, <1>2

LEMMA HistoryGrows ==
    ASSUME NEW h \in Seq(Kind), NEW x \in Kind, NEW o, NEW b, NEW s,
           Fine(h, o, b), Placed(h, o, s)
    PROVE  LET g == Append(h, x) IN
           /\ g \in Seq(Kind) /\ Len(g) >= 1 /\ Fine(g, o, b) /\ Placed(g, o, s)
<1> DEFINE g == Append(h, x)
<1>1. /\ Len(h) \in Nat /\ g \in Seq(Kind) /\ Len(g) = Len(h) + 1
      /\ \A i \in 1..Len(h) : g[i] = h[i]
  OBVIOUS
<1> HIDE DEF g
<1>2. /\ o \in Seq(1..Len(h)) /\ b \in Seq(1..Len(h)) /\ Len(o) \in Nat
      /\ \A i \in 1..Len(o) : o[i] \in 1..Len(h)
  BY DEF Fine
<1>3. 1..Len(h) \subseteq 1..Len(g)
  BY <1>1
<1>4. o \in Seq(1..Len(g)) /\ b \in Seq(1..Len(g))
  BY <1>2, <1>3, SeqMono
<1>5. /\ NoDone(h, o, Len(o) - 1) => NoDone(g, o, Len(o) - 1)
      /\ NoDone(h, o, Len(o)) => NoDone(g, o, Len(o))
  <2>1. \A i \in 1..(Len(o) - 1) : i \in 1..Len(o)
    BY <1>2
  <2> QED BY <1>1, <1>2, <2>1 DEF NoDone
<1>6. Fine(g, o, b)
  BY <1>4, <1>5 DEF Fine
<1>7. Placed(g, o, s)
  BY <1>1, <1>5 DEF Placed, Place
<1>8. Len(g) >= 1
  BY <1>1
<1> QED BY <1>1, <1>6, <1>7, <1>8 DEF g

(* emitStatus sends the newest status.                                     *)
LEMMA Emitted ==
    ASSUME NEW h \in Seq(Kind), Len(h) >= 1, NEW o, NEW b, Fine(h, o, b)
    PROVE  Fine(h, o, Append(b, Len(h)))
<1> DEFINE n == Len(h)
           d == Append(b, n)
<1>1. /\ n \in 1..n /\ b \in Seq(1..n) /\ Len(b) \in Nat /\ o \in Seq(1..n)
      /\ Len(o) \in Nat
      /\ \A i \in 1..Len(b) : b[i] \in 1..n
      /\ \A i \in 1..Len(o) : o[i] \in 1..n
  BY DEF Fine
<1> HIDE DEF n
<1>2. /\ d \in Seq(1..n) /\ Len(d) = Len(b) + 1 /\ d[Len(b) + 1] = n
      /\ \A i \in 1..Len(b) : d[i] = b[i]
  BY <1>1
<1> HIDE DEF d
<1>3. \A i \in 1..Len(d) : i \in 1..Len(b) \/ i = Len(b) + 1
  BY <1>1, <1>2
<1>4. Sorted(d)
  <2> SUFFICES ASSUME NEW i \in 1..Len(d), NEW j \in 1..Len(d), i <= j PROVE d[i] <= d[j]
    BY DEF Sorted
  <2>1. CASE j = Len(b) + 1
    <3>1. d[i] \in 1..n /\ d[j] = n
      BY <1>1, <1>2, <1>3, <2>1
    <3> QED BY <1>1, <3>1
  <2>2. CASE j \in 1..Len(b)
    <3>1. i \in 1..Len(b)
      BY <1>1, <1>3, <2>2
    <3>2. b[i] <= b[j]
      BY <2>2, <3>1 DEF Fine, Sorted
    <3> QED BY <1>2, <2>2, <3>1, <3>2
  <2> QED BY <1>3, <2>1, <2>2
<1>5. PICK k \in 0..Len(o) : Split(o, b, k)
  BY DEF Fine
<1>6. Split(o, d, k)
  <2>1. ASSUME Len(o) > k, NEW j \in 1..Len(d) PROVE o[Len(o)] <= d[j]
    <3>1. o[Len(o)] \in 1..n
      BY <1>1, <2>1
    <3>2. CASE j \in 1..Len(b)
      BY <1>2, <1>5, <2>1, <3>2 DEF Split
    <3>3. CASE j = Len(b) + 1
      BY <1>1, <1>2, <3>1, <3>3
    <3> QED BY <1>3, <3>2, <3>3
  <2> QED BY <1>5, <2>1 DEF Split
<1>7. Fine(h, o, d)
  BY <1>1, <1>2, <1>4, <1>6 DEF Fine, n
<1> QED BY <1>7 DEF d, n

(* What a client is sent next: i, at least as new as all it has been sent  *)
(* beyond the first k, and at most as new as all that is left for it.      *)
LEMMA Sends ==
    ASSUME NEW h \in Seq(Kind), NEW o, NEW b, NEW d, NEW i \in 1..Len(h), Fine(h, o, b),
           NoDone(h, o, Len(o)), d \in Seq(1..Len(h)), Sorted(d),
           NEW k \in 0..(Len(o) + 1), Split(Append(o, i), d, k)
    PROVE  /\ Fine(h, Append(o, i), d)
           /\ h[i] # "Done" => NoDone(h, Append(o, i), Len(Append(o, i)))
<1> DEFINE p == Append(o, i)
<1>1. /\ o \in Seq(1..Len(h)) /\ Len(o) \in Nat
  BY DEF Fine
<1>2. /\ p \in Seq(1..Len(h)) /\ Len(p) = Len(o) + 1 /\ p[Len(o) + 1] = i
      /\ \A j \in 1..Len(o) : p[j] = o[j]
  BY <1>1
<1> HIDE DEF p
<1>3. NoDone(h, p, Len(p) - 1)
  <2>1. Len(p) - 1 = Len(o)
    BY <1>1, <1>2
  <2> QED BY <1>2, <2>1 DEF NoDone
<1>4. ASSUME h[i] # "Done" PROVE NoDone(h, p, Len(p))
  <2>1. \A j \in 1..Len(p) : j \in 1..Len(o) \/ j = Len(o) + 1
    BY <1>1, <1>2
  <2> QED BY <1>2, <1>4, <2>1 DEF NoDone
<1>5. Split(p, d, k) /\ k \in 0..Len(p)
  BY <1>2 DEF p
<1>6. Fine(h, p, d)
  BY <1>2, <1>3, <1>5 DEF Fine
<1> QED BY <1>4, <1>6 DEF p

(* The next of the history.                                                *)
LEMMA SendsHistory ==
    ASSUME NEW h \in Seq(Kind), NEW o, NEW b, Fine(h, o, b), NoDone(h, o, Len(o)),
           \A i \in 1..Len(o) : o[i] = i, NEW at \in 1..Len(h), at = Len(o) + 1
    PROVE  /\ Fine(h, Append(o, at), b)
           /\ h[at] # "Done" => NoDone(h, Append(o, at), Len(Append(o, at)))
           /\ Len(Append(o, at)) = at
           /\ \A i \in 1..Len(Append(o, at)) : Append(o, at)[i] = i
<1> DEFINE p == Append(o, at)
<1>1. o \in Seq(1..Len(h)) /\ Len(o) \in Nat /\ b \in Seq(1..Len(h)) /\ Sorted(b)
  BY DEF Fine
<1>2. /\ Len(p) = Len(o) + 1 /\ p[Len(o) + 1] = at
      /\ \A j \in 1..Len(o) : p[j] = o[j]
  BY <1>1
<1> HIDE DEF p
<1>3. \A j \in 1..Len(p) : j \in 1..Len(o) \/ j = Len(o) + 1
  BY <1>1, <1>2
<1>4. \A i \in 1..Len(p) : p[i] = i
  BY <1>2, <1>3
<1>5. Split(p, b, at)
  BY <1>1, <1>2, <1>4 DEF Split
<1>6. at \in 0..(Len(o) + 1)
  BY <1>1
<1>7. Fine(h, p, b) /\ (h[at] # "Done" => NoDone(h, p, Len(p)))
  BY <1>1, <1>5, <1>6, Sends DEF p
<1> QED BY <1>2, <1>4, <1>7 DEF p

(* The next of the channel.                                                *)
LEMMA SendsStatus ==
    ASSUME NEW h \in Seq(Kind), NEW o, NEW b, Fine(h, o, b), NoDone(h, o, Len(o)), b # <<>>
    PROVE  LET p == Append(o, Head(b)) IN
           /\ Fine(h, p, Tail(b)) /\ Head(b) \in 1..Len(h)
           /\ h[Head(b)] # "Done" => NoDone(h, p, Len(p))
<1> DEFINE x == Head(b)
           p == Append(o, x)
           d == Tail(b)
<1>1. /\ o \in Seq(1..Len(h)) /\ Len(o) \in Nat /\ b \in Seq(1..Len(h)) /\ Len(b) \in Nat
      /\ Len(b) >= 1 /\ \A i \in 1..Len(o) : o[i] \in Nat
      /\ \A i \in 1..Len(b) : b[i] \in Nat
  BY DEF Fine
<1>2. /\ x = b[1] /\ x \in 1..Len(h) /\ d \in Seq(1..Len(h)) /\ Len(d) = Len(b) - 1
      /\ \A i \in 1..(Len(b) - 1) : d[i] = b[i + 1]
  BY <1>1
<1> HIDE DEF x, d
<1>3. /\ Len(p) = Len(o) + 1 /\ p[Len(o) + 1] = x /\ \A j \in 1..Len(o) : p[j] = o[j]
  BY <1>1, <1>2
<1> HIDE DEF p
<1>4. Sorted(b)
  BY DEF Fine
<1>5. ASSUME NEW i \in 1..Len(d) PROVE i + 1 \in 1..Len(b) /\ d[i] = b[i + 1] /\ x <= d[i]
  <2>1. i + 1 \in 1..Len(b) /\ d[i] = b[i + 1] /\ 1 \in 1..Len(b) /\ 1 <= i + 1
    BY <1>1, <1>2
  <2> QED BY <1>2, <1>4, <2>1 DEF Sorted
<1>6. Sorted(d)
  <2> SUFFICES ASSUME NEW i \in 1..Len(d), NEW j \in 1..Len(d), i <= j PROVE d[i] <= d[j]
    BY DEF Sorted
  <2>1. i + 1 <= j + 1
    BY <1>1, <1>2
  <2>2. b[i + 1] <= b[j + 1]
    BY <1>4, <1>5, <2>1 DEF Sorted
  <2> QED BY <1>5, <2>2
<1>7. PICK k \in 0..Len(o) : Split(o, b, k)
  BY DEF Fine
<1>8. Split(p, d, k)
  <2>1. \A i \in 1..k : p[i] = i
    <3>1. \A i \in 1..k : i \in 1..Len(o)
      BY <1>1
    <3> QED BY <1>3, <1>7, <3>1 DEF Split
  <2>2. ASSUME NEW i \in (k + 1)..(Len(p) - 1) PROVE p[i] <= p[i + 1]
    <3>1. CASE i = Len(o)
      <4>1. Len(o) > k /\ 1 \in 1..Len(b) /\ i \in 1..Len(o)
        BY <1>1, <2>2, <3>1
      <4>2. o[Len(o)] <= b[1]
        BY <1>7, <4>1 DEF Split
      <4> QED BY <1>2, <1>3, <3>1, <4>1, <4>2
    <3>2. CASE i # Len(o)
      <4>1. i \in (k + 1)..(Len(o) - 1) /\ i \in 1..Len(o) /\ i + 1 \in 1..Len(o)
        BY <1>1, <1>3, <2>2, <3>2
      <4>2. o[i] <= o[i + 1]
        BY <1>7, <4>1 DEF Split
      <4> QED BY <1>3, <4>1, <4>2
    <3> QED BY <3>1, <3>2
  <2>3. \A j \in 1..Len(d) : p[Len(p)] <= d[j]
    BY <1>3, <1>5
  <2> QED BY <2>1, <2>2, <2>3 DEF Split
<1>9. k \in 0..(Len(o) + 1)
  BY <1>1
<1>10. Fine(h, p, d) /\ (h[x] # "Done" => NoDone(h, p, Len(p)))
  BY <1>2, <1>6, <1>8, <1>9, Sends DEF p
<1> QED BY <1>2, <1>10 DEF p, x, d

(* A status leaves the channel and is not sent.                            *)
LEMMA Takes ==
    ASSUME NEW h, NEW o, NEW b, Fine(h, o, b), b # <<>>
    PROVE  Fine(h, o, Tail(b)) /\ Len(Tail(b)) <= Len(b)
<1> DEFINE d == Tail(b)
<1>1. b \in Seq(1..Len(h)) /\ Len(b) \in Nat /\ Len(b) >= 1
  BY DEF Fine
<1>2. /\ d \in Seq(1..Len(h)) /\ Len(d) = Len(b) - 1 /\ Len(d) <= Len(b)
      /\ \A i \in 1..Len(d) : d[i] = b[i + 1]
  BY <1>1
<1> HIDE DEF d
<1>3. \A i \in 1..Len(d) : i + 1 \in 1..Len(b) /\ d[i] = b[i + 1]
  BY <1>1, <1>2
<1>4. Sorted(d)
  <2> SUFFICES ASSUME NEW i \in 1..Len(d), NEW j \in 1..Len(d), i <= j PROVE d[i] <= d[j]
    BY DEF Sorted
  <2>1. i + 1 <= j + 1
    BY <1>1, <1>2
  <2>2. b[i + 1] <= b[j + 1]
    BY <1>3, <2>1 DEF Fine, Sorted
  <2> QED BY <1>3, <2>2
<1>5. PICK k \in 0..Len(o) : Split(o, b, k)
  BY DEF Fine
<1>6. Split(o, d, k)
  BY <1>3, <1>5 DEF Split
<1>7. Fine(h, o, d)
  BY <1>2, <1>4, <1>6 DEF Fine
<1> QED BY <1>2, <1>7 DEF d

-----------------------------------------------------------------------------
(* The steps.                                                              *)
LEMMA ThreadIs ==
    ASSUME NEW pc, NEW s, NEW at
    PROVE  /\ Thread(pc, s, at).pc = pc /\ Thread(pc, s, at).len = s.len
           /\ Thread(pc, s, at).at = at
BY DEF Thread

LEMMA OrderInit == Init => OrderInv
<1> SUFFICES ASSUME Init PROVE OrderInv
  OBVIOUS
<1> DEFINE e == <<>>
<1>1. Len(e) = 0 /\ e \in Seq(1..0) /\ e \in Seq(Kind)
  OBVIOUS
<1>2. /\ history = e /\ \A c \in Streams : out[c] = e /\ buf[c] = e
      /\ DOMAIN stream = Streams /\ DOMAIN out = Streams /\ DOMAIN buf = Streams
  BY DEF Init
<1>3. agent.pc = "start" /\ \A c \in Streams : stream[c].pc = "new"
  <2>1. /\ agent = Thread("start", EmptySlice, 0)
        /\ stream = [c \in Streams |-> Thread("new", EmptySlice, 0)]
    BY Zenon DEF Init
  <2> QED BY <2>1, ThreadIs
<1>4. \A s : s.pc = "new" => Placed(e, e, s)
  BY DEF Placed
<1> HIDE DEF e
<1>5. Fine(e, e, e)
  <2>1. Split(e, e, 0) /\ 0 \in 0..Len(e)
    BY <1>1 DEF Split
  <2>2. Sorted(e) /\ NoDone(e, e, Len(e) - 1)
    BY <1>1 DEF Sorted, NoDone
  <2> QED BY <1>1, <2>1, <2>2 DEF Fine
<1>6. \A c \in Streams : Fine(history, out[c], buf[c]) /\ Placed(history, out[c], stream[c])
  BY <1>2, <1>3, <1>4, <1>5
<1> QED BY <1>1, <1>2, <1>3, <1>6 DEF OrderInv

(* The log goroutine.                                                      *)
LEMMA OrderAgent ==
    ASSUME OrderInv,
           \/ \E kind \in Kind : HandleLine(kind)
           \/ Emit \/ LogEnds \/ BadLine
    PROVE  OrderInv'
<1>1. ASSUME agent'.pc \in {"range", "send"} => Len(history) >= 1,
             UNCHANGED <<history, stream, buf, out>>
      PROVE  OrderInv'
  BY <1>1 DEF OrderInv
<1>2. CASE FollowLog
  <2>1. agent'.pc = "idle"
    BY <1>2, ThreadIs DEF FollowLog
  <2> QED BY <1>1, <1>2, <2>1 DEF FollowLog
<1>3. CASE EmitRange
  BY <1>1, <1>3 DEF EmitRange, OrderInv
<1>4. CASE EmitReturn
  <2>1. agent'.pc = "idle"
    BY <1>4, ThreadIs DEF EmitReturn
  <2> QED BY <1>1, <1>4, <2>1 DEF EmitReturn
<1>5. CASE LogEnds
  <2>1. agent'.pc = "stopped"
    BY <1>5, ThreadIs DEF LogEnds
  <2> QED BY <1>1, <1>5, <2>1 DEF LogEnds
<1>6. ASSUME NEW kind \in Kind, HandleLine(kind) PROVE OrderInv'
  <2>1. history \in Seq(Kind) /\ history' = Append(history, kind)
        /\ UNCHANGED <<stream, buf, out>>
    BY <1>6 DEF HandleLine, OrderInv
  <2>2. PICK h, g : h = history /\ g = Append(h, kind) /\ g = history'
    BY <2>1
  <2>3. ASSUME NEW c \in Streams
        PROVE  Fine(g, out[c], buf[c]) /\ Placed(g, out[c], stream[c])
    <3>1. PICK o, b, s : o = out[c] /\ b = buf[c] /\ s = stream[c]
      OBVIOUS
    <3>2. h \in Seq(Kind) /\ Fine(h, o, b) /\ Placed(h, o, s)
      BY <2>1, <2>2, <3>1 DEF OrderInv
    <3>3. Fine(g, o, b) /\ Placed(g, o, s)
      BY <2>2, <3>2, HistoryGrows
    <3> QED BY <3>1, <3>3
  <2>4. g \in Seq(Kind) /\ Len(g) >= 1
    <3>1. Len(h) \in Nat /\ Len(g) = Len(h) + 1 /\ g \in Seq(Kind)
      BY <2>1, <2>2
    <3> QED BY <3>1
  <2> QED BY <2>1, <2>2, <2>3, <2>4 DEF OrderInv
<1>7. CASE EmitSend
  <2>1. PICK x, n : x = Target /\ n = Len(history)
    OBVIOUS
  <2>2. /\ agent.pc = "send" /\ buf' = [buf EXCEPT ![x] = Append(@, n)]
        /\ UNCHANGED <<history, stream, out>>
    BY <1>7, <2>1 DEF EmitSend
  <2>3. history \in Seq(Kind) /\ n >= 1
    BY <2>1, <2>2 DEF OrderInv
  <2>4. ASSUME NEW c \in Streams PROVE Fine(history, out[c], buf'[c])
    <3>1. PICK h, o, b : h = history /\ o = out[c] /\ b = buf[c]
      OBVIOUS
    <3>2. h \in Seq(Kind) /\ Fine(h, o, b) /\ n = Len(h) /\ Len(h) >= 1
      BY <2>1, <2>3, <3>1 DEF OrderInv
    <3>3. Fine(h, o, Append(b, n))
      BY <3>2, Emitted
    <3>4. buf'[c] = b \/ buf'[c] = Append(b, n)
      BY <2>2, <3>1 DEF OrderInv
    <3> QED BY <3>1, <3>2, <3>3, <3>4
  <2>5. DOMAIN buf' = Streams
    BY <2>2 DEF OrderInv
  <2> QED BY <2>1, <2>2, <2>3, <2>4, <2>5 DEF OrderInv
<1>8. CASE BadLine
  <2>1. agent'.pc = "crashed"
    BY <1>8, ThreadIs DEF BadLine
  <2> QED BY <1>1, <1>8, <2>1 DEF BadLine
<1> QED BY <1>2, <1>3, <1>4, <1>5, <1>6, <1>7, <1>8 DEF Emit

(* A request takes a step: t is where it is then, p what it has been sent  *)
(* and d what is left in its channel.                                      *)
Puts(old, new, c, x) == /\ DOMAIN new = Streams /\ new[c] = x
                        /\ \A e \in Streams \ {c} : new[e] = old[e]

LEMMA OneStream ==
    ASSUME OrderInv, NEW c \in Streams, NEW t, NEW p, NEW d,
           stream' = [stream EXCEPT ![c] = t], Puts(out, out', c, p),
           Puts(buf, buf', c, d), UNCHANGED <<history, agent>>,
           Fine(history, p, d), Placed(history, p, t)
    PROVE  OrderInv'
<1>1. ASSUME NEW e \in Streams
      PROVE  Fine(history, out'[e], buf'[e]) /\ Placed(history, out'[e], stream'[e])
  <2>1. CASE e = c
    <3>1. out'[e] = p /\ buf'[e] = d /\ stream'[e] = t
      BY <2>1 DEF OrderInv, Puts
    <3> QED BY <3>1
  <2>2. CASE e # c
    <3>1. out'[e] = out[e] /\ buf'[e] = buf[e] /\ stream'[e] = stream[e]
      BY <2>2 DEF OrderInv, Puts
    <3> QED BY <3>1 DEF OrderInv
  <2> QED BY <2>1, <2>2
<1>2. DOMAIN stream' = Streams /\ DOMAIN out' = Streams /\ DOMAIN buf' = Streams
  BY DEF OrderInv, Puts
<1> QED BY <1>1, <1>2 DEF OrderInv

LEMMA SameStream ==
    ASSUME OrderInv, NEW c \in Streams, NEW t, stream' = [stream EXCEPT ![c] = t],
           UNCHANGED <<history, agent, out, buf>>, Placed(history, out[c], t)
    PROVE  OrderInv'
<1>1. PICK p, d : p = out[c] /\ d = buf[c]
  OBVIOUS
<1>2. Puts(out, out', c, p) /\ Puts(buf, buf', c, d)
  BY <1>1 DEF OrderInv, Puts
<1>3. Fine(history, p, d) /\ Placed(history, p, t)
  BY <1>1 DEF OrderInv
<1> QED BY <1>2, <1>3, OneStream

(* The request writes status i and goes on at next.                        *)
LEMMA Writes ==
    ASSUME OrderInv, NEW c \in Streams, NEW i, NEW next, NEW d, Write(c, i, next),
           Puts(buf, buf', c, d), UNCHANGED <<history, agent>>,
           NEW p, p = Append(out[c], i), Fine(history, p, d),
           history[i] # "Done" => Placed(history, p, next)
    PROVE  OrderInv'
<1> DEFINE t == IF history[i] = "Done" THEN Thread("cancel", EmptySlice, 0) ELSE next
<1>1. stream' = [stream EXCEPT ![c] = t] /\ Puts(out, out', c, p)
  BY DEF Write, OrderInv, Puts
<1>2. Placed(history, p, t)
  <2>1. CASE history[i] = "Done"
    <3>1. t.pc = "cancel"
      BY <2>1, ThreadIs
    <3> HIDE DEF t
    <3> QED BY <3>1 DEF Placed, Early
  <2>2. CASE history[i] # "Done"
    BY <2>2
  <2> QED BY <2>1, <2>2
<1> HIDE DEF t
<1> QED BY <1>1, <1>2, OneStream

LEMMA OrderStream ==
    ASSUME OrderInv, NEW c \in Streams, Subscribe(c) \/ ClientGone(c) \/ ClientStalls(c) \/ StreamStep(c)
    PROVE  OrderInv'
<1>0. PICK h, o, b, s : h = history /\ o = out[c] /\ b = buf[c] /\ s = stream[c]
  OBVIOUS
<1>1. h \in Seq(Kind) /\ Len(h) \in Nat /\ Fine(h, o, b) /\ Placed(h, o, s)
  BY <1>0 DEF OrderInv
<1>2. Len(o) \in Nat
  BY <1>1 DEF Fine
<1>3. ASSUME NEW t, stream' = [stream EXCEPT ![c] = t], UNCHANGED <<history, agent, out, buf>>,
             t.pc \in Early => o = <<>>, t.pc \notin {"write", "read"}
      PROVE  OrderInv'
  <2>1. Placed(h, o, t)
    BY <1>3 DEF Placed
  <2> QED BY <1>0, <1>3, <2>1, SameStream
<1>4. CASE Subscribe(c)
  <2> DEFINE t == Thread("append", listeners, 0)
  <2>1. t.pc = "append" /\ o = <<>>
    BY <1>0, <1>1, <1>4, ThreadIs DEF Subscribe, Placed, Early
  <2>2. stream' = [stream EXCEPT ![c] = t] /\ UNCHANGED <<history, agent, out, buf>>
    BY <1>4 DEF Subscribe, agentVars
  <2> HIDE DEF t
  <2> QED BY <1>3, <2>1, <2>2
<1>5. CASE AppendListener(c)
  <2> DEFINE t == Thread("listed", EmptySlice, 0)
  <2>1. t.pc = "listed" /\ o = <<>>
    BY <1>0, <1>1, <1>5, ThreadIs DEF AppendListener, Placed, Early
  <2>2. stream' = [stream EXCEPT ![c] = t] /\ UNCHANGED <<history, agent, out, buf>>
    BY <1>5 DEF AppendListener, agentVars
  <2> HIDE DEF t
  <2> QED BY <1>3, <2>1, <2>2
<1>6. CASE ClientGone(c)
  <2> DEFINE t == Thread("gone", EmptySlice, 0)
  <2>1. t.pc = "gone"
    BY ThreadIs
  <2>2. stream' = [stream EXCEPT ![c] = t] /\ UNCHANGED <<history, agent, out, buf>>
    BY <1>6 DEF ClientGone, agentVars
  <2> HIDE DEF t
  <2> QED BY <1>3, <2>1, <2>2 DEF Early
<1>7. CASE Cancel(c)
  <2>1. PICK t : stream' = [stream EXCEPT ![c] = t] /\ t.pc \in {"ended", "remove"}
    <3>1. \/ stream' = [stream EXCEPT ![c] = Thread("ended", EmptySlice, 0)]
          \/ \E i : stream' = [stream EXCEPT ![c] = Thread("remove", EmptySlice, i)]
      BY <1>7 DEF Cancel
    <3> QED BY <3>1, ThreadIs
  <2>2. UNCHANGED <<history, agent, out, buf>>
    BY <1>7 DEF Cancel, agentVars
  <2> QED BY <1>3, <2>1, <2>2 DEF Early
<1>8. CASE RemoveListener(c)
  <2> DEFINE t == Thread("ended", EmptySlice, 0)
  <2>1. t.pc = "ended"
    BY ThreadIs
  <2>2. stream' = [stream EXCEPT ![c] = t] /\ UNCHANGED <<history, agent, out, buf>>
    BY <1>8 DEF RemoveListener, agentVars
  <2> HIDE DEF t
  <2> QED BY <1>3, <2>1, <2>2 DEF Early
<1>9. CASE CopyHistory(c)
  <2> DEFINE head == [arr |-> 1, len |-> Len(history)]
             t == Thread("write", head, 1)
  <2>1. o = <<>> /\ Len(o) = 0
    BY <1>0, <1>1, <1>9 DEF CopyHistory, Placed, Early
  <2>2. stream' = [stream EXCEPT ![c] = t] /\ UNCHANGED <<history, agent, out, buf>>
    BY <1>9 DEF CopyHistory, agentVars
  <2>3. head.arr = 1 /\ head.len = Len(h)
    BY <1>0
  <2> HIDE DEF head
  <2>4. t.pc = "write" /\ t.len = Len(h) /\ t.at = 1 /\ t \in Place
    BY <1>1, <2>3 DEF Thread, Place
  <2> HIDE DEF t
  <2>5. Placed(h, o, t)
    BY <1>1, <2>1, <2>4 DEF Placed, NoDone, Early
  <2> QED BY <1>0, <2>2, <2>5, SameStream
<1>10. CASE WriteHistory(c)
  <2>1. /\ s.pc = "write" /\ UNCHANGED <<history, agent, buf>>
        /\ IF s.at <= s.len THEN Write(c, s.at, [s EXCEPT !.at = @ + 1])
           ELSE stream' = [stream EXCEPT ![c].pc = "read"] /\ UNCHANGED out
    BY <1>0, <1>10 DEF WriteHistory, agentVars
  <2>2. /\ s \in Place /\ NoDone(h, o, Len(o)) /\ s.len <= Len(h) /\ s.at = Len(o) + 1
        /\ \A i \in 1..Len(o) : o[i] = i
    BY <1>1, <2>1 DEF Placed
  <2>3. CASE s.at <= s.len
    <3> DEFINE t == [s EXCEPT !.at = @ + 1]
               p == Append(o, s.at)
    <3>1. s.at \in 1..Len(h) /\ s.at \in Nat
      BY <1>1, <1>2, <2>2, <2>3 DEF Place
    <3>2. /\ Fine(h, p, b)
          /\ h[s.at] # "Done" => NoDone(h, p, Len(p))
          /\ Len(p) = s.at /\ \A i \in 1..Len(p) : p[i] = i
      BY <1>1, <2>2, <3>1, SendsHistory
    <3>3. t.pc = "write" /\ t.len = s.len /\ t.at = s.at + 1 /\ t \in Place
      BY <2>1, <2>2, <3>1 DEF Place
    <3>4. Write(c, s.at, t)
      BY <2>1, <2>3
    <3> HIDE DEF t, p
    <3>5. h[s.at] # "Done" => Placed(h, p, t)
      BY <2>2, <3>2, <3>3 DEF Placed, Early
    <3>6. Puts(buf, buf', c, b) /\ p = Append(out[c], s.at)
      BY <1>0, <2>1 DEF OrderInv, Puts, p
    <3> QED BY <1>0, <2>1, <3>2, <3>4, <3>5, <3>6, Writes
  <2>4. CASE ~ (s.at <= s.len)
    <3> DEFINE t == [s EXCEPT !.pc = "read"]
    <3>1. stream' = [stream EXCEPT ![c].pc = "read"] /\ UNCHANGED out
      BY <2>1, <2>4
    <3>2. stream' = [stream EXCEPT ![c] = t]
      BY <1>0, <3>1 DEF OrderInv
    <3>3. t.pc = "read" /\ t \in Place
      BY <2>2 DEF Place
    <3> HIDE DEF t
    <3>4. Placed(h, o, t)
      BY <2>2, <3>3 DEF Placed, Early
    <3> QED BY <1>0, <2>1, <3>1, <3>2, <3>4, SameStream
  <2> QED BY <2>3, <2>4
<1>11. CASE WriteStatus(c)
  <2> DEFINE x == Head(b)
             p == Append(o, x)
             d == Tail(b)
  <2>1. /\ s.pc = "read" /\ b # <<>> /\ Write(c, x, s) /\ UNCHANGED <<history, agent>>
        /\ Puts(buf, buf', c, d)
    BY <1>0, <1>11 DEF WriteStatus, agentVars, OrderInv, Puts
  <2>2. s \in Place /\ NoDone(h, o, Len(o))
    BY <1>1, <2>1 DEF Placed
  <2>3. Fine(h, p, d) /\ (h[x] # "Done" => NoDone(h, p, Len(p)))
    BY <1>1, <2>1, <2>2, SendsStatus
  <2>4. p = Append(out[c], x)
    BY <1>0
  <2> HIDE DEF x, p, d
  <2>5. h[x] # "Done" => Placed(h, p, s)
    BY <2>1, <2>2, <2>3 DEF Placed, Early
  <2> QED BY <1>0, <2>1, <2>3, <2>4, <2>5, Writes
<1>12. CASE TakeListeners(c)
  <2> DEFINE t == Thread("store", listeners, stream[c].at)
  <2>1. t.pc = "store"
    BY ThreadIs
  <2>2. stream' = [stream EXCEPT ![c] = t] /\ UNCHANGED <<history, agent, out, buf>>
    BY <1>0, <1>12 DEF TakeListeners, agentVars, OrderInv
  <2> HIDE DEF t
  <2> QED BY <1>3, <2>1, <2>2 DEF Early
<1>13. CASE ClientStalls(c)
  <2> DEFINE t == Thread("stuck", EmptySlice, 0)
  <2>1. t.pc = "stuck"
    BY ThreadIs
  <2>2. /\ stream' = [stream EXCEPT ![c] = t] /\ UNCHANGED <<history, agent, out>>
        /\ \/ UNCHANGED buf
           \/ b # <<>> /\ buf' = [buf EXCEPT ![c] = Tail(b)]
    BY <1>0, <1>13 DEF ClientStalls, agentVars
  <2> HIDE DEF t
  <2>3. CASE UNCHANGED buf
    BY <1>3, <2>1, <2>2, <2>3 DEF Early
  <2>4. CASE b # <<>> /\ buf' = [buf EXCEPT ![c] = Tail(b)]
    <3>1. PICK d : d = Tail(b)
      OBVIOUS
    <3>2. Puts(buf, buf', c, d) /\ Puts(out, out', c, o)
      BY <1>0, <2>2, <2>4, <3>1 DEF OrderInv, Puts
    <3>3. Fine(h, o, d)
      BY <1>1, <2>4, <3>1, Takes
    <3>4. Placed(h, o, t)
      BY <2>1 DEF Placed, Early
    <3> QED BY <1>0, <2>2, <3>2, <3>3, <3>4, OneStream
  <2> QED BY <2>2, <2>3, <2>4
<1> QED BY <1>4, <1>5, <1>6, <1>7, <1>8, <1>9, <1>10, <1>11, <1>12, <1>13 DEF StreamStep

LEMMA OrderStep == OrderInv /\ [Next]_vars => OrderInv'
<1> SUFFICES ASSUME OrderInv, [Next]_vars PROVE OrderInv'
  OBVIOUS
<1>1. CASE UNCHANGED vars
  BY <1>1 DEF vars, OrderInv
<1>2. CASE Next
  BY <1>2, OrderAgent, OrderStream DEF Next, Kind
<1> QED BY <1>1, <1>2

LEMMA OrderInvOK == OrderInv => InOrder
<1> SUFFICES ASSUME OrderInv, NEW c \in Streams
             PROVE  \E k \in 0..Len(out[c]) :
                       /\ \A i \in 1..k : out[c][i] = i
                       /\ \A i \in (k + 1)..(Len(out[c]) - 1) : out[c][i] <= out[c][i + 1]
                       /\ \A i \in 1..(Len(out[c]) - 1) : history[out[c][i]] # "Done"
  BY DEF InOrder
<1>1. Fine(history, out[c], buf[c])
  BY DEF OrderInv
<1> QED BY <1>1 DEF Fine, Split, NoDone

(* A client is sent the statuses in the order of the history, the first of *)
(* them from its beginning, and nothing after the first "Done", however    *)
(* the requests' updates of the slice race each other and the goroutine    *)
(* that reads it: a lost or a stale listener costs statuses, not order.    *)
THEOREM StatusesInOrder == Spec => []InOrder
<1>1. Init => OrderInv
  BY OrderInit
<1>2. OrderInv /\ [Next]_vars => OrderInv'
  BY OrderStep
<1>3. OrderInv => InOrder
  BY OrderInvOK
<1> QED BY <1>1, <1>2, <1>3, PTL DEF Spec
-----------------------------------------------------------------------------
(* Types, and which headers fit their arrays: whatever the updates of the  *)
(* slice do to each other, heaps only grow.                                *)
Slot  == Streams \cup {None}
Heaps == Seq(Seq(Slot))

Fits(hp, s) == s.arr \in 1..Len(hp) /\ s.len \in 0..Len(hp[s.arr])
Grows(old, new) == new \in Heaps /\ \A s : Fits(old, s) => Fits(new, s)

LEMMA HeapTypes ==
    ASSUME NEW hp \in Heaps
    PROVE  /\ Len(hp) \in Nat /\ DOMAIN hp = 1..Len(hp)
           /\ \A a \in 1..Len(hp) :
                 /\ hp[a] \in Seq(Slot) /\ Len(hp[a]) \in Nat
                 /\ DOMAIN hp[a] = 1..Len(hp[a])
                 /\ \A i \in 1..Len(hp[a]) : hp[a][i] \in Slot
BY DEF Heaps

(* One array is replaced by another as long.                               *)
LEMMA Rewrite ==
    ASSUME NEW hp \in Heaps, NEW a \in 1..Len(hp), NEW row \in Seq(Slot),
           Len(row) = Len(hp[a])
    PROVE  LET new == [hp EXCEPT ![a] = row] IN
           /\ Grows(hp, new) /\ new[a] = row
           /\ \A b \in 1..Len(hp) : b # a => new[b] = hp[b]
<1> DEFINE new == [hp EXCEPT ![a] = row]
<1>1. new \in Heaps /\ Len(new) = Len(hp)
  BY HeapTypes DEF Heaps
<1>2. new[a] = row /\ \A b \in 1..Len(hp) : b # a => new[b] = hp[b]
  BY HeapTypes
<1> HIDE DEF new
<1>3. ASSUME NEW s, Fits(hp, s) PROVE Fits(new, s)
  <2>1. s.arr \in 1..Len(hp) /\ s.len \in 0..Len(hp[s.arr])
    BY <1>3 DEF Fits
  <2>2. Len(new[s.arr]) = Len(hp[s.arr])
    BY <1>2, <2>1
  <2> QED BY <1>1, <2>1, <2>2 DEF Fits
<1> QED BY <1>1, <1>2, <1>3 DEF new, Grows

(* append leaves the elements it found and adds x, and what a header over  *)
(* the same array or another sees stays too, unless it is longer.          *)
Spared(hp, s, t) == Fits(hp, t) /\ (t.arr = s.arr => t.len <= s.len)
Appended(hp, s, x, nh, sl) ==
    /\ Grows(hp, nh) /\ Fits(nh, sl) /\ sl \in Slice /\ sl.len = s.len + 1
    /\ sl.arr = s.arr \/ sl.arr = Len(hp) + 1
    /\ \A i \in 1..s.len : At(nh, sl, i) = At(hp, s, i)
    /\ At(nh, sl, s.len + 1) = x
    /\ \A t : Spared(hp, s, t) => \A i \in 1..t.len : At(nh, t, i) = At(hp, t, i)

LEMMA AppendInPlace ==
    ASSUME NEW hp \in Heaps, NEW s, Fits(hp, s), NEW x \in Slot,
           s.len < Len(hp[s.arr])
    PROVE  LET new == SliceAppend(hp, s, x, None) IN
           Appended(hp, s, x, new.heap, new.slice)
<1> DEFINE old == hp[s.arr]
           at == s.len + 1
           row == [old EXCEPT ![at] = x]
           nh == [hp EXCEPT ![s.arr] = row]
           sl == [arr |-> s.arr, len |-> at]
<1>1. /\ s.arr \in 1..Len(hp) /\ s.arr \in Nat /\ s.len \in Nat /\ at \in 1..Len(old)
      /\ old \in Seq(Slot) /\ Len(old) \in Nat
  BY HeapTypes DEF Fits
<1>2. SliceAppend(hp, s, x, None) = [heap |-> nh, slice |-> sl]
  <2>1. [hp EXCEPT ![s.arr][s.len + 1] = x] = nh
    OBVIOUS
  <2> QED BY <2>1 DEF SliceAppend
<1>3. /\ row \in Seq(Slot) /\ Len(row) = Len(old) /\ row[at] = x
      /\ \A i \in 1..Len(old) : i # at => row[i] = old[i]
  BY <1>1
<1>4. sl \in Slice /\ sl.arr = s.arr /\ sl.len = at
  BY <1>1 DEF Slice
<1> HIDE DEF row
<1>5. /\ Grows(hp, nh) /\ nh[s.arr] = row
      /\ \A b \in 1..Len(hp) : b # s.arr => nh[b] = hp[b]
  BY <1>1, <1>3, Rewrite
<1> HIDE DEF nh, sl
<1>6. Fits(nh, sl)
  <2>1. Fits(nh, s)
    BY <1>5 DEF Grows
  <2>2. at \in 0..Len(nh[s.arr])
    BY <1>1, <1>3, <1>5
  <2> QED BY <1>4, <2>1, <2>2 DEF Fits
<1>7. \A i \in 1..s.len : At(nh, sl, i) = At(hp, s, i)
  <2>1. \A i \in 1..s.len : i \in 1..Len(old) /\ i # at
    BY <1>1
  <2> QED BY <1>3, <1>4, <1>5, <2>1 DEF At
<1>8. At(nh, sl, at) = x
  BY <1>3, <1>4, <1>5 DEF At
<1>9. ASSUME NEW t, Spared(hp, s, t), NEW i \in 1..t.len PROVE At(nh, t, i) = At(hp, t, i)
  <2>1. t.arr \in 1..Len(hp) /\ t.len \in 0..Len(hp[t.arr]) /\ (t.arr = s.arr => t.len <= s.len)
    BY <1>9 DEF Spared, Fits
  <2>2. CASE t.arr = s.arr
    <3>1. t.len <= s.len /\ t.len \in 0..Len(old)
      BY <2>1, <2>2
    <3>2. i \in 1..Len(old) /\ i # at
      BY <1>1, <1>9, <3>1
    <3> QED BY <1>3, <1>5, <2>2, <3>2 DEF At
  <2>3. CASE t.arr # s.arr
    BY <1>5, <2>1, <2>3 DEF At
  <2> QED BY <2>2, <2>3
<1>10. Appended(hp, s, x, nh, sl)
  BY <1>4, <1>5, <1>6, <1>7, <1>8, <1>9 DEF Appended
<1> QED BY <1>2, <1>10

LEMMA AppendAnew ==
    ASSUME NEW hp \in Heaps, NEW s, Fits(hp, s), NEW x \in Slot,
           ~ (s.len < Len(hp[s.arr]))
    PROVE  LET new == SliceAppend(hp, s, x, None) IN
           Appended(hp, s, x, new.heap, new.slice)
<1> DEFINE old == hp[s.arr]
           cap == IF old = <<>> THEN 1 ELSE 2 * Len(old)
           row == [i \in 1..cap |-> CASE i <= s.len -> old[i]
                                      [] i = s.len + 1 -> x
                                      [] OTHER -> None]
           nh == Append(hp, row)
           sl == [arr |-> Len(hp) + 1, len |-> s.len + 1]
<1>1. /\ s.arr \in 1..Len(hp) /\ Len(hp) \in Nat /\ s.len = Len(old) /\ s.len \in Nat
      /\ old \in Seq(Slot) /\ \A i \in 1..Len(old) : old[i] \in Slot
  <2>1. s.arr \in 1..Len(hp) /\ s.len \in 0..Len(old)
    BY DEF Fits
  <2> QED BY <2>1, HeapTypes
<1>2. SliceAppend(hp, s, x, None) = [heap |-> nh, slice |-> sl]
  BY DEF SliceAppend
<1>3. cap \in Nat /\ s.len + 1 <= cap
  <2>1. CASE old = <<>>
    <3>1. Len(old) = 0
      BY <2>1
    <3> QED BY <1>1, <2>1, <3>1
  <2>2. CASE old # <<>>
    <3>1. Len(old) >= 1
      BY <1>1, <2>2
    <3> QED BY <1>1, <2>2, <3>1
  <2> QED BY <2>1, <2>2
<1> HIDE DEF cap
<1>4. \A i \in 1..cap : /\ row[i] \in Slot
                        /\ i \in 1..s.len => row[i] = old[i]
                        /\ i = s.len + 1 => row[i] = x
  <2> SUFFICES ASSUME NEW i \in 1..cap
               PROVE  /\ row[i] \in Slot
                      /\ i \in 1..s.len => row[i] = old[i]
                      /\ i = s.len + 1 => row[i] = x
    OBVIOUS
  <2>1. CASE i <= s.len
    <3>1. row[i] = old[i] /\ i \in 1..s.len /\ i # s.len + 1
      BY <1>1, <1>3, <2>1
    <3> QED BY <1>1, <3>1
  <2>2. CASE i = s.len + 1
    <3>1. row[i] = x /\ i \notin 1..s.len
      BY <1>1, <2>2
    <3> QED BY <3>1
  <2>3. CASE ~ (i <= s.len) /\ i # s.len + 1
    <3>1. row[i] = None /\ i \notin 1..s.len
      BY <1>1, <2>3
    <3> QED BY <2>3, <3>1 DEF Slot
  <2> QED BY <2>1, <2>2, <2>3
<1>5. row \in [1..cap -> Slot]
  <2>1. row = [i \in 1..cap |-> row[i]]
    OBVIOUS
  <2> HIDE DEF row
  <2> QED BY <1>4, <2>1
<1> HIDE DEF row
<1>6. row \in Seq(Slot) /\ Len(row) = cap
  BY <1>3, <1>5
<1>7. /\ nh \in Heaps /\ Len(nh) = Len(hp) + 1 /\ nh[Len(hp) + 1] = row
      /\ \A a \in 1..Len(hp) : nh[a] = hp[a]
  BY <1>1, <1>6 DEF Heaps
<1>8. sl \in Slice /\ sl.arr = Len(hp) + 1 /\ sl.len = s.len + 1
  BY <1>1 DEF Slice
<1> HIDE DEF nh, sl
<1>9. ASSUME NEW t, Fits(hp, t)
      PROVE  Fits(nh, t) /\ \A i \in 1..t.len : At(nh, t, i) = At(hp, t, i)
  <2>1. t.arr \in 1..Len(hp) /\ t.len \in 0..Len(hp[t.arr])
    BY <1>9 DEF Fits
  <2>2. nh[t.arr] = hp[t.arr] /\ t.arr \in 1..Len(nh)
    BY <1>1, <1>7, <2>1
  <2> QED BY <2>1, <2>2 DEF Fits, At
<1>10. Fits(nh, sl)
  <2>1. sl.arr \in 1..Len(nh) /\ sl.len \in 0..cap /\ nh[sl.arr] = row
    BY <1>1, <1>3, <1>7, <1>8
  <2> QED BY <1>6, <2>1 DEF Fits
<1>11. /\ \A i \in 1..s.len : At(nh, sl, i) = At(hp, s, i)
       /\ At(nh, sl, s.len + 1) = x
  <2>1. s.len + 1 \in 1..cap /\ \A i \in 1..s.len : i \in 1..cap
    BY <1>1, <1>3
  <2> QED BY <1>4, <1>7, <1>8, <2>1 DEF At
<1>12. Grows(hp, nh)
  BY <1>7, <1>9 DEF Grows
<1>13. \A t : Spared(hp, s, t) => \A i \in 1..t.len : At(nh, t, i) = At(hp, t, i)
  BY <1>9 DEF Spared
<1>14. Appended(hp, s, x, nh, sl)
  BY <1>8, <1>10, <1>11, <1>12, <1>13 DEF Appended
<1> QED BY <1>2, <1>14

LEMMA AppendSlice ==
    ASSUME NEW hp \in Heaps, NEW s, Fits(hp, s), NEW x \in Slot
    PROVE  LET new == SliceAppend(hp, s, x, None) IN
           Appended(hp, s, x, new.heap, new.slice)
BY AppendInPlace, AppendAnew

(* Removing at a place keeps every element of the others.                  *)
Removed(hp, s, at, nh, sl) ==
    /\ Grows(hp, nh) /\ Fits(nh, sl) /\ sl \in Slice
    /\ \A i \in (1..s.len) \ {at} : \E j \in 1..sl.len : At(nh, sl, j) = At(hp, s, i)

LEMMA RemoveSlice ==
    ASSUME NEW hp \in Heaps, NEW s, Fits(hp, s), NEW at \in 1..s.len
    PROVE  LET new == SliceRemove(hp, s, at) IN
           Removed(hp, s, at, new.heap, new.slice)
<1> DEFINE old == hp[s.arr]
           n == s.len - 1
           row == [j \in DOMAIN old |-> IF j \in at..n THEN old[j + 1] ELSE old[j]]
           nh == [hp EXCEPT ![s.arr] = row]
           sl == [arr |-> s.arr, len |-> n]
<1>1. /\ s.arr \in 1..Len(hp) /\ s.arr \in Nat /\ s.len \in 1..Len(old) /\ Len(old) \in Nat
      /\ old \in Seq(Slot) /\ DOMAIN old = 1..Len(old)
      /\ \A i \in 1..Len(old) : old[i] \in Slot
  <2>1. s.arr \in 1..Len(hp) /\ s.len \in 0..Len(old)
    BY DEF Fits
  <2>2. /\ s.arr \in Nat /\ Len(old) \in Nat /\ old \in Seq(Slot) /\ DOMAIN old = 1..Len(old)
        /\ \A i \in 1..Len(old) : old[i] \in Slot
    BY <2>1, HeapTypes
  <2> QED BY <2>1, <2>2
<1>2. n \in 0..Len(old) /\ at \in Nat /\ at >= 1 /\ at <= n + 1 /\ n + 1 = s.len
  BY <1>1
<1>3. SliceRemove(hp, s, at) = [heap |-> nh, slice |-> sl]
  BY DEF SliceRemove
<1>4. \A j \in 1..Len(old) : row[j] = IF j \in at..n THEN old[j + 1] ELSE old[j]
  BY <1>1
<1>5. row \in [1..Len(old) -> Slot]
  <2>1. row = [j \in 1..Len(old) |-> row[j]]
    BY <1>1
  <2>2. \A j \in 1..Len(old) : j \in at..n => j + 1 \in 1..Len(old)
    BY <1>1, <1>2
  <2> HIDE DEF row
  <2>3. \A j \in 1..Len(old) : row[j] \in Slot
    BY <1>1, <1>4, <2>2
  <2> QED BY <2>1, <2>3
<1> HIDE DEF row
<1>6. row \in Seq(Slot) /\ Len(row) = Len(old)
  BY <1>1, <1>5
<1>7. sl \in Slice /\ sl.arr = s.arr /\ sl.len = n
  BY <1>1, <1>2 DEF Slice
<1>8. Grows(hp, nh) /\ nh[s.arr] = row
  BY <1>1, <1>6, Rewrite
<1> HIDE DEF nh, sl, n
<1>9. Fits(nh, sl)
  <2>1. Fits(nh, s)
    BY <1>8 DEF Grows
  <2> QED BY <1>2, <1>6, <1>7, <1>8, <2>1 DEF Fits
<1>10. ASSUME NEW i \in (1..s.len) \ {at}
       PROVE  \E j \in 1..sl.len : At(nh, sl, j) = At(hp, s, i)
  <2>1. CASE i < at
    <3>1. i \in 1..n /\ i \in 1..Len(old) /\ i \notin at..n
      BY <1>1, <1>2, <1>10, <2>1
    <3>2. At(nh, sl, i) = At(hp, s, i)
      BY <1>4, <1>7, <1>8, <3>1 DEF At
    <3> QED BY <1>7, <3>1, <3>2
  <2>2. CASE ~ (i < at)
    <3>1. i - 1 \in 1..n /\ i - 1 \in 1..Len(old) /\ i - 1 \in at..n /\ (i - 1) + 1 = i
      BY <1>1, <1>2, <1>10, <2>2
    <3>2. At(nh, sl, i - 1) = At(hp, s, i)
      BY <1>4, <1>7, <1>8, <3>1 DEF At
    <3> QED BY <1>7, <3>1, <3>2
  <2> QED BY <2>1, <2>2
<1>11. Removed(hp, s, at, nh, sl)
  BY <1>7, <1>8, <1>9, <1>10 DEF Removed
<1> QED BY <1>3, <1>11

(* Types of everything; a header an update works on fits its array.        *)
ThreadType == [pc : PC, arr : Nat, len : Nat, at : Nat]
AgentType  == [pc : {"start", "idle", "range", "send", "stopped", "crashed"},
               arr : Nat, len : Nat, at : Nat]
Held(hp, t) == /\ t.pc \in {"append", "store"} => Fits(hp, t)
               /\ t.pc \in {"remove", "store"} => t.at >= 1

SliceType == /\ heap \in Heaps /\ listeners \in Slice /\ Fits(heap, listeners)
             /\ \A c \in Streams : Held(heap, stream[c])
             /\ agent.pc = "send" => Fits(heap, agent) /\ agent.at >= 1
TypeInv ==
    /\ state \in {"", "attached", "setup"} /\ disturbed \in BOOLEAN
    /\ agent \in AgentType /\ stream \in [Streams -> ThreadType]
    /\ SliceType
    /\ \A c \in Streams : Len(buf[c]) <= BufSize

LEMMA TypeInvOK == OrderInv /\ TypeInv => TypeOK
<1> SUFFICES ASSUME OrderInv, TypeInv PROVE TypeOK
  OBVIOUS
<1>1. /\ \A a \in DOMAIN heap : heap[a] \in Seq(Streams \cup {None})
      /\ listeners.len <= Len(heap[listeners.arr])
  <2>1. heap \in Heaps /\ listeners.len \in 0..Len(heap[listeners.arr])
        /\ listeners.arr \in 1..Len(heap)
    BY DEF TypeInv, SliceType, Fits
  <2>2. Len(heap[listeners.arr]) \in Nat
    BY <2>1, HeapTypes
  <2> QED BY <2>1, <2>2, HeapTypes DEF Slot
<1>2. ASSUME NEW c \in Streams
      PROVE  /\ \A i \in DOMAIN buf[c] : buf[c][i] \in DOMAIN history
             /\ \A i \in DOMAIN out[c] : out[c][i] \in DOMAIN history
  <2>1. /\ history \in Seq(Kind) /\ out[c] \in Seq(1..Len(history))
        /\ buf[c] \in Seq(1..Len(history))
    BY DEF OrderInv, Fine
  <2> QED BY <2>1
<1>3. history \in Seq({"step", "Done"})
  BY DEF OrderInv, Kind
<1> QED BY <1>1, <1>2, <1>3 DEF TypeInv, SliceType, TypeOK, ThreadType, AgentType

LEMMA ThreadTyped ==
    ASSUME NEW pc, NEW s, s.arr \in Nat, s.len \in Nat, NEW at \in Nat
    PROVE  /\ pc \in PC => Thread(pc, s, at) \in ThreadType
           /\ pc \in {"start", "idle", "range", "send", "stopped", "crashed"} =>
                  Thread(pc, s, at) \in AgentType
           /\ Thread(pc, s, at).pc = pc /\ Thread(pc, s, at).at = at
           /\ Thread(pc, s, at).arr = s.arr /\ Thread(pc, s, at).len = s.len
           /\ \A hp : Fits(hp, s) => Fits(hp, Thread(pc, s, at))
BY DEF Thread, ThreadType, AgentType, Fits

LEMMA EmptyTyped == /\ EmptySlice \in Slice /\ EmptySlice.arr \in Nat /\ EmptySlice.len \in Nat
                    /\ EmptyHeap \in Heaps /\ Fits(EmptyHeap, EmptySlice)
<1>1. EmptySlice.arr = 1 /\ EmptySlice.len = 0 /\ EmptySlice \in Slice
  BY DEF EmptySlice, Slice
<1> DEFINE e == <<>>
           hp == <<e>>
<1>2. e \in Seq(Slot) /\ Len(e) = 0
  OBVIOUS
<1> HIDE DEF e
<1>3. hp \in Seq(Seq(Slot)) /\ Len(hp) = 1 /\ hp[1] = e
  BY <1>2
<1>4. EmptyHeap = hp
  BY DEF EmptyHeap, e
<1> HIDE DEF hp
<1>5. Len(hp[1]) = 0 /\ hp \in Heaps
  BY <1>2, <1>3 DEF Heaps
<1>6. Fits(hp, EmptySlice)
  BY <1>1, <1>3, <1>5 DEF Fits
<1> QED BY <1>1, <1>4, <1>5, <1>6

LEMMA EmptyAgent ==
    ASSUME NEW pc \in {"start", "idle", "range", "send", "stopped", "crashed"}
    PROVE  Thread(pc, EmptySlice, 0) \in AgentType /\ Thread(pc, EmptySlice, 0).pc = pc
BY EmptyTyped DEF Thread, AgentType

(* To pc, with an empty header and a place.                                *)
LEMMA EmptyThread ==
    ASSUME NEW pc \in PC \ {"append", "store"}, NEW at \in Nat, pc = "remove" => at >= 1,
           NEW hp
    PROVE  /\ Thread(pc, EmptySlice, at) \in ThreadType
           /\ Thread(pc, EmptySlice, at).pc = pc
           /\ Held(hp, Thread(pc, EmptySlice, at))
<1>1. /\ Thread(pc, EmptySlice, at) \in ThreadType /\ Thread(pc, EmptySlice, at).pc = pc
      /\ Thread(pc, EmptySlice, at).at = at
  BY ThreadTyped, EmptyTyped
<1> QED BY <1>1 DEF Held

LEMMA TypeInit == Init => TypeInv
<1> SUFFICES ASSUME Init PROVE TypeInv
  OBVIOUS
<1>1. /\ agent = Thread("start", EmptySlice, 0) /\ heap = EmptyHeap /\ listeners = EmptySlice
      /\ stream = [c \in Streams |-> Thread("new", EmptySlice, 0)] /\ state = ""
      /\ \A c \in Streams : buf[c] = <<>>
      /\ disturbed = FALSE
  BY DEF Init
<1>2. /\ agent \in AgentType /\ agent.pc = "start"
      /\ Thread("new", EmptySlice, 0) \in ThreadType
      /\ Thread("new", EmptySlice, 0).pc = "new"
  <2>1. Thread("start", EmptySlice, 0) \in AgentType /\ Thread("start", EmptySlice, 0).pc = "start"
    BY EmptyAgent
  <2>2. "new" \in PC \ {"append", "store"} /\ 0 \in Nat /\ "new" # "remove"
    BY DEF PC
  <2> QED BY <1>1, <2>1, <2>2, EmptyThread
<1>3. stream \in [Streams -> ThreadType] /\ \A c \in Streams : stream[c].pc = "new"
  <2> DEFINE t == Thread("new", EmptySlice, 0)
  <2> HIDE DEF t
  <2>1. stream = [c \in Streams |-> t] /\ t \in ThreadType /\ t.pc = "new"
    BY <1>1, <1>2 DEF t
  <2> QED BY <2>1
<1>4. SliceType
  BY <1>1, <1>2, <1>3, EmptyTyped DEF SliceType, Held
<1>5. \A c \in Streams : Len(buf[c]) <= BufSize
  <2>1. 0 <= BufSize
    BY SizesAssumption
  <2>2. ASSUME NEW c \in Streams PROVE Len(buf[c]) <= BufSize
    <3>1. buf[c] = <<>> /\ Len(<<>>) = 0
      BY <1>1
    <3> QED BY <2>1, <3>1
  <2> QED BY <2>2
<1>6. state \in {"", "attached", "setup"} /\ disturbed \in BOOLEAN
  BY <1>1
<1> QED BY <1>2, <1>3, <1>4, <1>5, <1>6 DEF TypeInv

LEMMA SameHeap == ASSUME NEW hp \in Heaps PROVE Grows(hp, hp)
BY DEF Grows

LEMMA TypeAgent ==
    ASSUME OrderInv, TypeInv,
           \/ \E kind \in Kind : HandleLine(kind)
           \/ Emit \/ LogEnds \/ BadLine
    PROVE  TypeInv'
<1>1. ASSUME NEW pc \in {"idle", "range", "stopped", "crashed"},
             agent' = Thread(pc, EmptySlice, 0), state' \in {"", "attached", "setup"},
             UNCHANGED <<sliceVars, stream, buf, disturbed>>
      PROVE  TypeInv'
  <2>1. agent' \in AgentType /\ agent'.pc = pc
    BY <1>1, EmptyAgent
  <2>2. agent'.pc # "send"
    BY <2>1
  <2>3. SliceType'
    BY <1>1, <2>2 DEF TypeInv, SliceType, sliceVars
  <2> QED BY <1>1, <2>1, <2>3 DEF TypeInv
<1>2. CASE FollowLog
  BY <1>1, <1>2 DEF FollowLog
<1>3. ASSUME NEW kind \in Kind, HandleLine(kind) PROVE TypeInv'
  BY <1>1, <1>3 DEF HandleLine
<1>4. CASE BadLine
  BY <1>1, <1>4 DEF BadLine
<1>5. CASE LogEnds
  BY <1>1, <1>5 DEF LogEnds, TypeInv
<1>6. CASE EmitReturn
  BY <1>1, <1>6 DEF EmitReturn, TypeInv
<1>7. CASE EmitRange
  <2>1. /\ agent' = Thread("send", listeners, 1) /\ UNCHANGED <<state, sliceVars, stream, buf>>
        /\ disturbed' = (disturbed \/ \E c \in Streams : stream[c].pc \in {"remove", "store"})
    BY <1>7 DEF EmitRange
  <2>2. disturbed' \in BOOLEAN
    BY <2>1 DEF TypeInv
  <2>3. listeners.arr \in Nat /\ listeners.len \in Nat /\ Fits(heap, listeners)
    BY DEF TypeInv, SliceType, Slice
  <2>4. agent' \in AgentType /\ Fits(heap, agent')
    BY <2>1, <2>3, ThreadTyped
  <2>5. agent'.at >= 1
    BY <2>1 DEF Thread
  <2> QED BY <2>1, <2>2, <2>4, <2>5 DEF TypeInv, SliceType, sliceVars
<1>8. CASE EmitSend
  <2>1. PICK x, n : x = Target /\ n = Len(history)
    OBVIOUS
  <2>2. /\ agent.pc = "send" /\ agent.at <= agent.len /\ Len(buf[x]) < BufSize
        /\ buf' = [buf EXCEPT ![x] = Append(@, n)]
        /\ agent' = [agent EXCEPT !.at = @ + 1]
        /\ UNCHANGED <<state, sliceVars, stream, disturbed>>
    BY <1>8, <2>1 DEF EmitSend
  <2>3. agent \in AgentType /\ Fits(heap, agent) /\ agent.at >= 1
    BY <2>2 DEF TypeInv, SliceType
  <2>4. /\ agent' \in AgentType /\ agent'.arr = agent.arr /\ agent'.len = agent.len
        /\ agent'.pc = "send" /\ agent'.at >= 1
    BY <2>2, <2>3 DEF AgentType
  <2>5. Fits(heap, agent')
    BY <2>3, <2>4 DEF Fits
  <2>6. ASSUME NEW c \in Streams PROVE Len(buf'[c]) <= BufSize
    <3>1. CASE c = x
      <4>1. buf[c] \in Seq(1..Len(history)) /\ buf'[c] = Append(buf[c], n)
        BY <2>2, <3>1 DEF OrderInv, Fine
      <4>2. Len(buf'[c]) = Len(buf[c]) + 1 /\ Len(buf[c]) \in Nat
        BY <4>1
      <4> QED BY <2>2, <3>1, <4>2, SizesAssumption
    <3>2. CASE c # x
      <4>1. buf'[c] = buf[c]
        BY <2>2, <3>2 DEF OrderInv
      <4> QED BY <4>1 DEF TypeInv
    <3> QED BY <3>1, <3>2
  <2> QED BY <2>2, <2>4, <2>5, <2>6 DEF TypeInv, SliceType, sliceVars
<1> QED BY <1>2, <1>3, <1>4, <1>5, <1>6, <1>7, <1>8 DEF Emit

(* A request's step to t, whatever it does to the slice.                   *)
LEMMA OneThread ==
    ASSUME TypeInv, NEW c \in Streams, NEW t \in ThreadType,
           stream' = [stream EXCEPT ![c] = t], UNCHANGED agentVars, disturbed' \in BOOLEAN,
           Grows(heap, heap'), listeners' \in Slice, Fits(heap', listeners'), Held(heap', t),
           \A d \in Streams : Len(buf'[d]) <= BufSize
    PROVE  TypeInv'
<1>1. stream' \in [Streams -> ThreadType]
  BY DEF TypeInv
<1>2. ASSUME NEW d \in Streams PROVE Held(heap', stream'[d])
  <2>1. CASE d = c
    <3>1. stream'[d] = t
      BY <2>1 DEF TypeInv
    <3> QED BY <3>1
  <2>2. CASE d # c
    <3>1. stream'[d] = stream[d]
      BY <2>2 DEF TypeInv
    <3>2. Held(heap, stream[d])
      BY DEF TypeInv, SliceType
    <3> QED BY <3>1, <3>2 DEF Held, Grows
  <2> QED BY <2>1, <2>2
<1>3. SliceType'
  BY <1>2 DEF TypeInv, SliceType, Grows, agentVars
<1> QED BY <1>1, <1>3 DEF TypeInv, agentVars

LEMMA SameSlices ==
    ASSUME TypeInv, NEW c \in Streams, NEW t \in ThreadType,
           stream' = [stream EXCEPT ![c] = t], UNCHANGED <<agentVars, sliceVars>>,
           disturbed' \in BOOLEAN, Held(heap, t),
           \A d \in Streams : Len(buf'[d]) <= BufSize
    PROVE  TypeInv'
<1>1. Grows(heap, heap') /\ listeners' \in Slice /\ Fits(heap', listeners') /\ heap' = heap
  BY SameHeap DEF TypeInv, SliceType, sliceVars
<1> QED BY <1>1, OneThread

LEMMA TypeStream ==
    ASSUME OrderInv, TypeInv, NEW c \in Streams,
           Subscribe(c) \/ ClientGone(c) \/ ClientStalls(c) \/ StreamStep(c)
    PROVE  TypeInv'
<1>1. /\ stream[c] \in ThreadType /\ Held(heap, stream[c]) /\ heap \in Heaps
      /\ listeners \in Slice /\ Fits(heap, listeners) /\ disturbed \in BOOLEAN
      /\ listeners.arr \in Nat /\ listeners.len \in Nat
      /\ \A d \in Streams : Len(buf[d]) <= BufSize
  BY DEF TypeInv, SliceType, Slice
<1>2. CASE Subscribe(c)
  <2> DEFINE t == Thread("append", listeners, 0)
  <2>1. t \in ThreadType /\ t.pc = "append" /\ Fits(heap, t)
    BY <1>1, ThreadTyped DEF PC
  <2>2. disturbed' \in BOOLEAN
    BY <1>1, <1>2 DEF Subscribe
  <2>3. stream' = [stream EXCEPT ![c] = t] /\ UNCHANGED <<agentVars, sliceVars, buf>>
    BY <1>2 DEF Subscribe
  <2> HIDE DEF t
  <2>4. Held(heap, t)
    BY <2>1 DEF Held
  <2> QED BY <1>1, <2>1, <2>2, <2>3, <2>4, SameSlices
<1>3. CASE AppendListener(c)
  <2> DEFINE t == Thread("listed", EmptySlice, 0)
             new == SliceAppend(heap, stream[c], c, None)
  <2>1. /\ stream[c].pc = "append" /\ stream' = [stream EXCEPT ![c] = t]
        /\ heap' = new.heap /\ listeners' = new.slice
        /\ UNCHANGED <<agentVars, buf, disturbed>>
    BY <1>3 DEF AppendListener
  <2>2. t \in ThreadType /\ Held(heap', t)
    BY EmptyThread DEF PC
  <2>3. Fits(heap, stream[c]) /\ c \in Slot
    BY <1>1, <2>1 DEF Held, Slot
  <2>4. Appended(heap, stream[c], c, new.heap, new.slice)
    BY <1>1, <2>3, AppendSlice
  <2> HIDE DEF t, new
  <2>5. Grows(heap, heap') /\ listeners' \in Slice /\ Fits(heap', listeners')
    BY <2>1, <2>4 DEF Appended
  <2> QED BY <1>1, <2>1, <2>2, <2>5, OneThread
<1>4. CASE CopyHistory(c)
  <2> DEFINE head == [arr |-> 1, len |-> Len(history)]
             t == Thread("write", head, 1)
  <2>1. head.arr \in Nat /\ head.len \in Nat
    BY DEF OrderInv
  <2> HIDE DEF head
  <2>5. "write" \in PC /\ 1 \in Nat
    BY DEF PC
  <2>6. t \in ThreadType /\ t.pc = "write"
    BY <2>1, <2>5, ThreadTyped, ThreadIs
  <2>2. t \in ThreadType /\ t.pc = "write"
    BY <2>6
  <2>3. stream' = [stream EXCEPT ![c] = t] /\ UNCHANGED <<agentVars, sliceVars, buf, disturbed>>
    BY <1>4 DEF CopyHistory, head
  <2> HIDE DEF t
  <2>4. Held(heap, t)
    BY <2>2 DEF Held
  <2> QED BY <1>1, <2>2, <2>3, <2>4, SameSlices
<1>5. CASE ClientGone(c)
  <2> DEFINE t == Thread("gone", EmptySlice, 0)
  <2>1. t \in ThreadType /\ Held(heap, t)
    BY EmptyThread DEF PC
  <2>2. stream' = [stream EXCEPT ![c] = t] /\ UNCHANGED <<agentVars, sliceVars, buf>>
        /\ disturbed' \in BOOLEAN
    BY <1>1, <1>5 DEF ClientGone
  <2> HIDE DEF t
  <2> QED BY <1>1, <2>1, <2>2, SameSlices
<1>6. ASSUME NEW i, NEW next \in ThreadType, Held(heap, next), Write(c, i, next),
             UNCHANGED <<agentVars, sliceVars, disturbed>>,
             \A d \in Streams : Len(buf'[d]) <= BufSize
      PROVE  TypeInv'
  <2> DEFINE e == Thread("cancel", EmptySlice, 0)
             t == IF history[i] = "Done" THEN e ELSE next
  <2>1. e \in ThreadType /\ Held(heap, e)
    BY EmptyThread DEF PC
  <2>2. stream' = [stream EXCEPT ![c] = t]
    BY <1>6 DEF Write
  <2> HIDE DEF e
  <2>3. t \in ThreadType /\ Held(heap, t)
    BY <1>6, <2>1
  <2> HIDE DEF t
  <2> QED BY <1>1, <1>6, <2>2, <2>3, SameSlices
<1>7. CASE WriteHistory(c)
  <2> DEFINE s == stream[c]
             t == [s EXCEPT !.at = @ + 1]
             r == [s EXCEPT !.pc = "read"]
  <2>1. /\ s.pc = "write" /\ UNCHANGED <<agentVars, sliceVars, buf, disturbed>>
        /\ \/ Write(c, s.at, t)
           \/ stream' = [stream EXCEPT ![c].pc = "read"]
    BY <1>7 DEF WriteHistory
  <2>2. t \in ThreadType /\ t.pc = "write" /\ r \in ThreadType /\ r.pc = "read"
    BY <1>1, <2>1 DEF ThreadType, PC
  <2>3. stream' = [stream EXCEPT ![c].pc = "read"] => stream' = [stream EXCEPT ![c] = r]
    OBVIOUS
  <2> HIDE DEF t, r
  <2>4. Held(heap, t) /\ Held(heap, r)
    BY <2>2 DEF Held
  <2> QED BY <1>1, <1>6, <2>1, <2>2, <2>3, <2>4, SameSlices
<1>12. ASSUME buf[c] # <<>>, buf' = [buf EXCEPT ![c] = Tail(@)]
       PROVE  \A d \in Streams : Len(buf'[d]) <= BufSize
  <2>1. PICK b, n : b = buf[c] /\ n = Len(history)
    OBVIOUS
  <2>2. b \in Seq(1..n) /\ buf'[c] = Tail(b) /\ b # <<>>
    BY <1>12, <2>1 DEF OrderInv, Fine
  <2>3. Len(Tail(b)) = Len(b) - 1 /\ Len(b) \in Nat
    BY <2>2
  <2>4. Len(b) <= BufSize /\ BufSize \in Nat
    BY <1>1, <2>1, SizesAssumption
  <2>5. \A d \in Streams \ {c} : buf'[d] = buf[d]
    BY <1>12 DEF OrderInv
  <2>6. Len(buf'[c]) <= BufSize
    BY <2>2, <2>3, <2>4
  <2> QED BY <1>1, <2>5, <2>6
<1>8. CASE WriteStatus(c)
  <2>1. /\ buf[c] # <<>> /\ Write(c, Head(buf[c]), stream[c])
        /\ buf' = [buf EXCEPT ![c] = Tail(@)] /\ UNCHANGED <<agentVars, sliceVars, disturbed>>
    BY <1>8 DEF WriteStatus
  <2> QED BY <1>1, <1>6, <1>12, <2>1
<1>13. CASE ClientStalls(c)
  <2> DEFINE t == Thread("stuck", EmptySlice, 0)
  <2>1. t \in ThreadType /\ Held(heap, t)
    BY EmptyThread DEF PC
  <2>2. stream' = [stream EXCEPT ![c] = t] /\ UNCHANGED <<agentVars, sliceVars, disturbed>>
    BY <1>13 DEF ClientStalls
  <2>3. \A d \in Streams : Len(buf'[d]) <= BufSize
    BY <1>1, <1>12, <1>13 DEF ClientStalls
  <2> HIDE DEF t
  <2> QED BY <1>1, <2>1, <2>2, <2>3, SameSlices
<1>9. CASE Cancel(c)
  <2>1. PICK places : places = Places(heap, listeners, c, 1)
    OBVIOUS
  <2>2. \/ stream' = [stream EXCEPT ![c] = Thread("ended", EmptySlice, 0)]
        \/ \E i \in places : stream' = [stream EXCEPT ![c] = Thread("remove", EmptySlice, i)]
    BY <1>9, <2>1 DEF Cancel
  <2>3. PICK t \in ThreadType : stream' = [stream EXCEPT ![c] = t] /\ Held(heap, t)
    <3>1. CASE stream' = [stream EXCEPT ![c] = Thread("ended", EmptySlice, 0)]
      <4>1. Thread("ended", EmptySlice, 0) \in ThreadType /\ Held(heap, Thread("ended", EmptySlice, 0))
        BY EmptyThread DEF PC
      <4> QED BY <3>1, <4>1
    <3>2. ASSUME NEW i \in places, stream' = [stream EXCEPT ![c] = Thread("remove", EmptySlice, i)]
          PROVE  \E t \in ThreadType : stream' = [stream EXCEPT ![c] = t] /\ Held(heap, t)
      <4>1. i \in Nat /\ i >= 1
        BY <2>1, <3>2, <1>1 DEF Places
      <4>2. Thread("remove", EmptySlice, i) \in ThreadType /\ Held(heap, Thread("remove", EmptySlice, i))
        BY <4>1, EmptyThread DEF PC
      <4> QED BY <3>2, <4>2
    <3> QED BY <2>2, <3>1, <3>2
  <2>4. UNCHANGED <<agentVars, sliceVars, buf>> /\ disturbed' \in BOOLEAN
    BY <1>9, <1>1 DEF Cancel
  <2> QED BY <1>1, <2>3, <2>4, SameSlices
<1>10. CASE TakeListeners(c)
  <2> DEFINE t == Thread("store", listeners, stream[c].at)
  <2>1. /\ stream[c].pc = "remove" /\ stream' = [stream EXCEPT ![c] = t]
        /\ UNCHANGED <<agentVars, sliceVars, buf, disturbed>>
    BY <1>10 DEF TakeListeners, TypeInv
  <2>2. stream[c].at \in Nat /\ stream[c].at >= 1
    BY <1>1, <2>1 DEF Held, ThreadType
  <2>3. t \in ThreadType /\ t.pc = "store" /\ t.at = stream[c].at /\ Fits(heap, t)
    <3>1. "store" \in PC
      BY DEF PC
    <3> QED BY <1>1, <2>2, <3>1, ThreadTyped
  <2> HIDE DEF t
  <2>4. Held(heap, t)
    BY <2>2, <2>3 DEF Held
  <2> QED BY <1>1, <2>1, <2>3, <2>4, SameSlices
<1>11. CASE RemoveListener(c)
  <2> DEFINE t == Thread("ended", EmptySlice, 0)
             s == stream[c]
             new == SliceRemove(heap, s, s.at)
             longer == [arr |-> s.arr, len |-> s.at - 1]
  <2>1. /\ s.pc = "store" /\ stream' = [stream EXCEPT ![c] = t]
        /\ heap' = IF s.at <= s.len THEN new.heap ELSE heap
        /\ listeners' = CASE s.at <= s.len -> new.slice
                          [] s.at > s.len /\ s.at - 1 <= Len(heap[s.arr]) -> longer
                          [] OTHER -> listeners
        /\ UNCHANGED <<agentVars, buf, disturbed>>
    BY <1>11 DEF RemoveListener
  <2>2. t \in ThreadType /\ Held(heap', t)
    BY EmptyThread DEF PC
  <2>3. s \in ThreadType /\ Fits(heap, s) /\ s.at \in Nat /\ s.at >= 1 /\ s.len \in Nat
        /\ s.arr \in Nat
    BY <1>1, <2>1 DEF Held, ThreadType
  <2> HIDE DEF t, s
  <2>4. Grows(heap, heap') /\ listeners' \in Slice /\ Fits(heap', listeners')
    <3>1. CASE s.at <= s.len
      <4>1. s.at \in 1..s.len
        BY <2>3, <3>1
      <4>2. Removed(heap, s, s.at, new.heap, new.slice)
        BY <1>1, <2>3, <4>1, RemoveSlice
      <4>3. heap' = new.heap /\ listeners' = new.slice
        BY <2>1, <2>3, <3>1
      <4> HIDE DEF new
      <4>4. Grows(heap, new.heap) /\ Fits(new.heap, new.slice) /\ new.slice \in Slice
        BY <4>2 DEF Removed
      <4> QED BY <4>3, <4>4
    <3>2. CASE ~ (s.at <= s.len) /\ s.at - 1 <= Len(heap[s.arr])
      <4>1. s.at > s.len
        BY <2>3, <3>2
      <4>2. heap' = heap /\ listeners' = longer
        BY <2>1, <3>2, <4>1
      <4>3. longer \in Slice /\ longer.arr = s.arr /\ longer.len = s.at - 1
        BY <2>3 DEF Slice
      <4>4. s.arr \in 1..Len(heap) /\ Len(heap[s.arr]) \in Nat
        BY <1>1, <2>3, HeapTypes DEF Fits
      <4>5. s.at - 1 \in 0..Len(heap[s.arr])
        BY <2>3, <3>2, <4>4
      <4> HIDE DEF longer
      <4> QED BY <1>1, <4>2, <4>3, <4>4, <4>5, SameHeap DEF Fits
    <3>3. CASE ~ (s.at <= s.len) /\ ~ (s.at - 1 <= Len(heap[s.arr]))
      <4>1. heap' = heap /\ listeners' = listeners
        BY <2>1, <3>3
      <4> QED BY <1>1, <4>1, SameHeap
    <3> QED BY <3>1, <3>2, <3>3
  <2> QED BY <1>1, <2>1, <2>2, <2>4, OneThread
<1> QED BY <1>2, <1>3, <1>4, <1>5, <1>7, <1>8, <1>9, <1>10, <1>11, <1>13 DEF StreamStep

LEMMA TypeStep == OrderInv /\ TypeInv /\ [Next]_vars => TypeInv'
<1> SUFFICES ASSUME OrderInv, TypeInv, [Next]_vars PROVE TypeInv'
  OBVIOUS
<1>1. CASE UNCHANGED vars
  BY <1>1 DEF vars, TypeInv, SliceType, sliceVars
<1>2. CASE Next
  BY <1>2, TypeAgent, TypeStream DEF Next, Kind
<1> QED BY <1>1, <1>2

(* The types: a channel never holds more than its size, what it holds and  *)
(* what a client was sent are statuses of the history, and the slice of    *)
(* listeners always fits its array, whatever its updates do to each other. *)
THEOREM TypeCorrect == Spec => []TypeOK
<1>1. Init => OrderInv /\ TypeInv
  BY OrderInit, TypeInit
<1>2. OrderInv /\ TypeInv /\ [Next]_vars => (OrderInv /\ TypeInv)'
  BY OrderStep, TypeStep
<1>3. OrderInv /\ TypeInv => TypeOK
  BY TypeInvOK
<1> QED BY <1>1, <1>2, <1>3, PTL DEF Spec

-----------------------------------------------------------------------------
(* Nothing is missed.  While updates of the slice have not overlapped each *)
(* other or, removing, an emitStatus, a subscribed request is among the    *)
(* listeners, the one update works on the slice as it is, and what the     *)
(* goroutine ranges over is at most the listeners.                         *)
Listening == {"listed", "write", "read", "cancel", "remove", "store"}
Updates   == {"append", "remove", "store"}
Has(hp, s, c, from) == \E i \in from..s.len : At(hp, s, i) = c

Calm ==
    /\ \A c \in Streams : stream[c].pc \in Listening => Has(heap, listeners, c, 1)
    /\ \A c, d \in Streams : Updating(c) /\ Updating(d) => c = d
    /\ \A c \in Streams : stream[c].pc \in {"append", "store"} =>
          stream[c].arr = listeners.arr /\ stream[c].len = listeners.len
    /\ \A c \in Streams : stream[c].pc \in {"remove", "store"} =>
          /\ stream[c].at \in 1..listeners.len /\ At(heap, listeners, stream[c].at) = c
          /\ agent.pc # "send"
    /\ agent.pc = "send" /\ agent.arr = listeners.arr => agent.len <= listeners.len

(* Of n statuses those a client was sent are o, those in its channel b, s  *)
(* is its thread; f says that the newest is on its way to the channel.     *)
Covered(n, o, b, s, f) ==
    \A i \in 1..n : \/ \E k \in 1..Len(o) : o[k] = i
                    \/ \E k \in 1..Len(b) : b[k] = i
                    \/ s.pc = "write" /\ i \in s.at..s.len
                    \/ f /\ i = n

InFlight(c) == \/ agent.pc = "range"
               \/ agent.pc = "send" /\ Has(heap, agent, c, agent.at)

Served(c) == stream[c].pc \in {"write", "read"}
MissInv ==
    ~ disturbed =>
       /\ Calm
       /\ \A c \in Streams : Served(c) =>
             Covered(Len(history), out[c], buf[c], stream[c], InFlight(c))

LEMMA PlacesHas ==
    ASSUME NEW hp, NEW s, NEW c, NEW from
    PROVE  Places(hp, s, c, from) # {} <=> Has(hp, s, c, from)
BY DEF Places, Has

LEMMA MissInvOK == OrderInv /\ MissInv => NothingMissed
<1> SUFFICES ASSUME OrderInv, MissInv, ~ disturbed, NEW c \in Streams,
                    stream[c].pc \in {"write", "read"}, NEW i \in 1..Len(history)
             PROVE  i \in InTransit(c)
  BY DEF NothingMissed
<1>1. PICK o, b, s : o = out[c] /\ b = buf[c] /\ s = stream[c]
  OBVIOUS
<1>2. Covered(Len(history), o, b, s, InFlight(c))
  BY <1>1 DEF MissInv, Served
<1>3. DOMAIN o = 1..Len(o) /\ DOMAIN b = 1..Len(b)
  <2>1. o \in Seq(1..Len(history)) /\ b \in Seq(1..Len(history))
    BY <1>1 DEF OrderInv, Fine
  <2> QED BY <2>1
<1>4. InFlight(c) <=> \/ agent.pc = "range"
                      \/ agent.pc = "send" /\ Places(heap, agent, c, agent.at) # {}
  BY PlacesHas DEF InFlight
<1>5. \/ \E k \in 1..Len(o) : o[k] = i
      \/ \E k \in 1..Len(b) : b[k] = i
      \/ s.pc = "write" /\ i \in s.at..s.len
      \/ InFlight(c) /\ i = Len(history)
  BY <1>2 DEF Covered
<1>6. CASE \E k \in 1..Len(o) : o[k] = i
  BY <1>1, <1>3, <1>6 DEF InTransit
<1>7. CASE \E k \in 1..Len(b) : b[k] = i
  BY <1>1, <1>3, <1>7 DEF InTransit
<1>8. CASE s.pc = "write" /\ i \in s.at..s.len
  BY <1>1, <1>8 DEF InTransit
<1>9. CASE InFlight(c) /\ i = Len(history)
  BY <1>4, <1>9 DEF InTransit
<1> QED BY <1>5, <1>6, <1>7, <1>8, <1>9

LEMMA MissInit == Init => MissInv
<1> SUFFICES ASSUME Init PROVE Calm /\ \A c \in Streams : ~ Served(c)
  BY DEF MissInv
<1>1. /\ agent = Thread("start", EmptySlice, 0)
      /\ stream = [c \in Streams |-> Thread("new", EmptySlice, 0)]
  BY Zenon DEF Init
<1>2. agent.pc = "start" /\ \A c \in Streams : stream[c].pc = "new"
  BY <1>1, ThreadIs
<1> QED BY <1>2 DEF Calm, Served, Updating, Listening

(* The log goroutine: what it finds in the slice it sends to all of.       *)
LEMMA MissAgent ==
    ASSUME OrderInv, TypeInv, MissInv,
           \/ \E kind \in Kind : HandleLine(kind)
           \/ Emit \/ LogEnds \/ BadLine
    PROVE  MissInv'
<1>1. history \in Seq(Kind) /\ Len(history) \in Nat /\ agent \in AgentType
  <2>1. history \in Seq(Kind) /\ agent \in AgentType
    BY DEF OrderInv, TypeInv
  <2> QED BY <2>1
<1>2. ASSUME agent'.pc # "send", UNCHANGED <<sliceVars, stream, disturbed>>,
             ~ disturbed
      PROVE  Calm'
  BY <1>2 DEF MissInv, Calm, sliceVars, Updating, Has
<1>3. ASSUME NEW pc \in {"idle", "stopped", "crashed"}, agent' = Thread(pc, EmptySlice, 0),
             \A c \in Streams : ~ InFlight(c),
             UNCHANGED <<history, sliceVars, stream, out, buf, disturbed>>
      PROVE  MissInv'
  <2> SUFFICES ASSUME ~ disturbed PROVE MissInv'
    BY <1>3 DEF MissInv
  <2>1. agent'.pc = pc /\ agent'.pc # "send"
    BY <1>3, ThreadIs
  <2>2. Calm'
    BY <1>2, <1>3, <2>1
  <2>3. ASSUME NEW c \in Streams, Served(c)'
        PROVE  Covered(Len(history), out[c], buf[c], stream[c], InFlight(c)')
    <3>1. Served(c) /\ ~ InFlight(c)
      BY <1>3, <2>3 DEF Served
    <3>2. Covered(Len(history), out[c], buf[c], stream[c], InFlight(c))
      BY <3>1 DEF MissInv
    <3> QED BY <3>1, <3>2 DEF Covered
  <2> QED BY <1>3, <2>2, <2>3 DEF MissInv
<1>4. CASE FollowLog
  BY <1>3, <1>4 DEF FollowLog, InFlight
<1>5. CASE BadLine
  BY <1>3, <1>5 DEF BadLine, InFlight
<1>6. CASE LogEnds
  BY <1>3, <1>6 DEF LogEnds, InFlight
<1>7. CASE EmitReturn
  <2>1. agent.pc = "send" /\ agent.at > agent.len /\ agent.at \in Nat /\ agent.len \in Nat
    BY <1>1, <1>7 DEF EmitReturn, AgentType
  <2>2. \A c \in Streams : ~ InFlight(c)
    BY <2>1 DEF InFlight, Has
  <2> QED BY <1>3, <1>7, <2>2 DEF EmitReturn
<1>8. ASSUME NEW kind \in Kind, HandleLine(kind) PROVE MissInv'
  <2>1. /\ agent.pc = "idle" /\ history' = Append(history, kind)
        /\ agent' = Thread("range", EmptySlice, 0)
        /\ UNCHANGED <<sliceVars, stream, buf, out, disturbed>>
    BY <1>8 DEF HandleLine
  <2> SUFFICES ASSUME ~ disturbed PROVE MissInv'
    BY <2>1 DEF MissInv
  <2>2. agent'.pc = "range" /\ agent'.pc # "send"
    BY <2>1, ThreadIs
  <2>3. Calm'
    BY <1>2, <2>1, <2>2
  <2>4. PICK n : n = Len(history) /\ n \in Nat /\ Len(history') = n + 1
    BY <1>1, <2>1
  <2>5. ASSUME NEW c \in Streams, Served(c)'
        PROVE  Covered(n + 1, out[c], buf[c], stream[c], InFlight(c)')
    <3>1. Served(c) /\ ~ InFlight(c) /\ InFlight(c)'
      BY <2>1, <2>2, <2>5 DEF Served, InFlight
    <3>2. Covered(n, out[c], buf[c], stream[c], InFlight(c))
      BY <2>4, <3>1 DEF MissInv
    <3>3. \A i \in 1..(n + 1) : i \in 1..n \/ i = n + 1
      BY <2>4
    <3> QED BY <3>1, <3>2, <3>3 DEF Covered
  <2> QED BY <2>1, <2>3, <2>4, <2>5 DEF MissInv
<1>9. CASE EmitRange
  <2>1. /\ agent.pc = "range" /\ agent' = Thread("send", listeners, 1)
        /\ disturbed' = (disturbed \/ \E c \in Streams : stream[c].pc \in {"remove", "store"})
        /\ UNCHANGED <<history, sliceVars, stream, buf, out>>
    BY <1>9 DEF EmitRange
  <2> SUFFICES ASSUME ~ disturbed' PROVE MissInv'
    BY DEF MissInv
  <2>2. ~ disturbed /\ \A c \in Streams : stream[c].pc \notin {"remove", "store"}
    BY <2>1
  <2>3. agent'.pc = "send" /\ agent'.at = 1 /\ agent'.arr = listeners.arr
        /\ agent'.len = listeners.len
    BY <2>1 DEF Thread
  <2>4. listeners.len \in Nat
    BY DEF TypeInv, SliceType, Slice
  <2>5. Calm'
    BY <2>1, <2>2, <2>3, <2>4 DEF MissInv, Calm, sliceVars, Updating, Has
  <2>6. ASSUME NEW c \in Streams, Served(c)'
        PROVE  Covered(Len(history), out[c], buf[c], stream[c], InFlight(c)')
    <3>1. Served(c) /\ stream[c].pc \in Listening
      BY <2>1, <2>6 DEF Served, Listening
    <3>2. Covered(Len(history), out[c], buf[c], stream[c], InFlight(c))
      BY <2>2, <3>1 DEF MissInv
    <3>3. Has(heap, listeners, c, 1)
      BY <2>2, <3>1 DEF MissInv, Calm
    <3>4. InFlight(c)'
      BY <2>1, <2>3, <3>3 DEF InFlight, Has, At, sliceVars
    <3> QED BY <3>2, <3>4 DEF Covered
  <2> QED BY <2>1, <2>5, <2>6 DEF MissInv
<1>10. CASE EmitSend
  <2>1. PICK x, n : x = Target /\ n = Len(history)
    OBVIOUS
  <2>2. /\ agent.pc = "send" /\ agent.at <= agent.len
        /\ buf' = [buf EXCEPT ![x] = Append(@, n)]
        /\ agent' = [agent EXCEPT !.at = @ + 1]
        /\ UNCHANGED <<history, sliceVars, stream, out, disturbed>>
    BY <1>10, <2>1 DEF EmitSend
  <2> SUFFICES ASSUME ~ disturbed PROVE MissInv'
    BY <2>2 DEF MissInv
  <2>3. /\ agent'.pc = "send" /\ agent'.arr = agent.arr /\ agent'.len = agent.len
        /\ agent'.at = agent.at + 1 /\ agent.at \in Nat /\ agent.len \in Nat
    BY <1>1, <2>2 DEF AgentType
  <2>4. Calm'
    BY <2>2, <2>3 DEF MissInv, Calm, sliceVars, Updating, Has
  <2>5. ASSUME NEW c \in Streams, Served(c)'
        PROVE  Covered(n, out[c], buf'[c], stream[c], InFlight(c)')
    <3>1. Served(c)
      BY <2>2, <2>5 DEF Served
    <3>2. Covered(n, out[c], buf[c], stream[c], InFlight(c))
      BY <2>1, <3>1 DEF MissInv
    <3>3. CASE c = x
      <4>1. PICK b : b = buf[c]
        OBVIOUS
      <4>2. b \in Seq(1..n) /\ buf'[c] = Append(b, n)
        BY <2>1, <2>2, <3>3, <4>1 DEF OrderInv, Fine
      <4>3. /\ Len(buf'[c]) = Len(b) + 1 /\ Len(b) \in Nat /\ buf'[c][Len(b) + 1] = n
            /\ \A k \in 1..Len(b) : buf'[c][k] = b[k]
        BY <4>2
      <4>4. Len(b) + 1 \in 1..Len(buf'[c]) /\ \A k \in 1..Len(b) : k \in 1..Len(buf'[c])
        BY <4>3
      <4> QED BY <3>2, <4>1, <4>3, <4>4 DEF Covered
    <3>4. CASE c # x
      <4>1. buf'[c] = buf[c]
        BY <2>2, <3>4 DEF OrderInv
      <4>2. InFlight(c) => InFlight(c)'
        <5> SUFFICES ASSUME NEW i \in agent.at..agent.len, At(heap, agent, i) = c
                     PROVE  InFlight(c)'
          BY <2>2 DEF InFlight, Has
        <5>1. i # agent.at
          BY <2>1, <3>4 DEF Target
        <5>2. i \in agent'.at..agent'.len /\ At(heap, agent', i) = c
          BY <2>3, <5>1 DEF At
        <5> QED BY <2>2, <2>3, <5>2 DEF InFlight, Has, sliceVars
      <4> QED BY <3>2, <4>1, <4>2 DEF Covered
    <3> QED BY <3>3, <3>4
  <2> QED BY <2>1, <2>2, <2>4, <2>5 DEF MissInv
<1> QED BY <1>4, <1>5, <1>6, <1>7, <1>8, <1>9, <1>10 DEF Emit

(* A request's step to t: the slice as it is then is calm, and what is on  *)
(* its way to the others stays so.                                         *)
LEMMA MissThread ==
    ASSUME OrderInv, MissInv, ~ disturbed, NEW c \in Streams, NEW t, NEW p, NEW d,
           stream' = [stream EXCEPT ![c] = t], UNCHANGED agentVars, Calm',
           Puts(out, out', c, p), Puts(buf, buf', c, d),
           \A e \in Streams : InFlight(e) => InFlight(e)',
           t.pc \in {"write", "read"} => Covered(Len(history), p, d, t, InFlight(c))
    PROVE  MissInv'
<1>1. ASSUME NEW e \in Streams, Served(e)'
      PROVE  Covered(Len(history), out'[e], buf'[e], stream'[e], InFlight(e)')
  <2>1. CASE e = c
    <3>1. stream'[e] = t /\ out'[e] = p /\ buf'[e] = d
      BY <2>1 DEF OrderInv, Puts
    <3>2. Covered(Len(history), p, d, t, InFlight(c))
      BY <1>1, <3>1 DEF Served
    <3> QED BY <2>1, <3>1, <3>2 DEF Covered
  <2>2. CASE e # c
    <3>1. stream'[e] = stream[e] /\ out'[e] = out[e] /\ buf'[e] = buf[e]
      BY <2>2 DEF OrderInv, Puts
    <3>2. Covered(Len(history), out[e], buf[e], stream[e], InFlight(e))
      BY <1>1, <3>1 DEF MissInv, Served
    <3> QED BY <3>1, <3>2 DEF Covered
  <2> QED BY <2>1, <2>2
<1> QED BY <1>1 DEF MissInv, agentVars

(* The same, and the slice is left alone.                                  *)
Allowed(c, t) ==
    /\ t.pc \in Listening => stream[c].pc \in Listening
    /\ t.pc \in Updates => \A d \in Streams \ {c} : ~ Updating(d)
    /\ t.pc \in {"append", "store"} => t.arr = listeners.arr /\ t.len = listeners.len
    /\ t.pc \in {"remove", "store"} =>
          /\ t.at \in 1..listeners.len /\ At(heap, listeners, t.at) = c
          /\ agent.pc # "send"

LEMMA MissMoves ==
    ASSUME OrderInv, MissInv, ~ disturbed, NEW c \in Streams, NEW t, NEW p, NEW d,
           stream' = [stream EXCEPT ![c] = t], UNCHANGED <<agentVars, sliceVars>>,
           Allowed(c, t), Puts(out, out', c, p), Puts(buf, buf', c, d),
           t.pc \in {"write", "read"} => Covered(Len(history), p, d, t, InFlight(c))
    PROVE  MissInv'
<1>1. Calm
  BY DEF MissInv
<1>2. UNCHANGED <<heap, listeners, agent>>
  BY DEF agentVars, sliceVars
<1>3. stream'[c] = t /\ \A e \in Streams \ {c} : stream'[e] = stream[e]
  BY DEF OrderInv
<1>4. \A e \in Streams : stream'[e].pc \in Listening => Has(heap, listeners, e, 1)
  BY <1>1, <1>3 DEF Calm, Allowed
<1>5. \A e, f \in Streams : Updating(e)' /\ Updating(f)' => e = f
  BY <1>1, <1>3 DEF Calm, Allowed, Updating, Updates
<1>6. \A e \in Streams : stream'[e].pc \in {"append", "store"} =>
          stream'[e].arr = listeners.arr /\ stream'[e].len = listeners.len
  BY <1>1, <1>3 DEF Calm, Allowed
<1>7. \A e \in Streams : stream'[e].pc \in {"remove", "store"} =>
          /\ stream'[e].at \in 1..listeners.len /\ At(heap, listeners, stream'[e].at) = e
          /\ agent.pc # "send"
  BY <1>1, <1>3 DEF Calm, Allowed
<1>8. Calm'
  BY <1>1, <1>2, <1>4, <1>5, <1>6, <1>7 DEF Calm, Has, At
<1>9. \A e \in Streams : InFlight(e) => InFlight(e)'
  BY <1>2 DEF InFlight, Has, At
<1> QED BY <1>8, <1>9, MissThread

(* Nor is what the client has been sent and what waits for it.             *)
LEMMA MissQuiet ==
    ASSUME OrderInv, MissInv, ~ disturbed, NEW c \in Streams, NEW t,
           stream' = [stream EXCEPT ![c] = t], UNCHANGED <<agentVars, sliceVars, out, buf>>,
           Allowed(c, t),
           t.pc \in {"write", "read"} =>
               Covered(Len(history), out[c], buf[c], t, InFlight(c))
    PROVE  MissInv'
<1>1. PICK p, d : p = out[c] /\ d = buf[c]
  OBVIOUS
<1>2. Puts(out, out', c, p) /\ Puts(buf, buf', c, d)
  BY <1>1 DEF OrderInv, Puts
<1> QED BY <1>1, <1>2, MissMoves

(* The request writes i and goes on at next; d is left in its channel.     *)
LEMMA MissWrites ==
    ASSUME OrderInv, MissInv, ~ disturbed, NEW c \in Streams, NEW i, NEW next, NEW d,
           Served(c), Write(c, i, next), UNCHANGED <<agentVars, sliceVars>>,
           Puts(buf, buf', c, d), next.pc \in {"write", "read"},
           Covered(Len(history), Append(out[c], i), d, next, InFlight(c))
    PROVE  MissInv'
<1> DEFINE e == Thread("cancel", EmptySlice, 0)
           t == IF history[i] = "Done" THEN e ELSE next
           p == Append(out[c], i)
<1>1. stream' = [stream EXCEPT ![c] = t] /\ Puts(out, out', c, p)
  BY DEF Write, OrderInv, Puts
<1>2. e.pc = "cancel"
  BY ThreadIs
<1> HIDE DEF e, p
<1>3. t = next \/ t.pc = "cancel"
  BY <1>2
<1> HIDE DEF t
<1>4. Allowed(c, t)
  BY <1>3 DEF Allowed, Served, Listening, Updates
<1>5. t.pc \in {"write", "read"} => Covered(Len(history), p, d, t, InFlight(c))
  BY <1>3 DEF p
<1> QED BY <1>1, <1>4, <1>5, MissMoves

LEMMA AppendHas ==
    ASSUME NEW S, NEW o \in Seq(S), NEW x
    PROVE  /\ \E k \in 1..Len(Append(o, x)) : Append(o, x)[k] = x
           /\ \A k \in 1..Len(o) : \E j \in 1..Len(Append(o, x)) : Append(o, x)[j] = o[k]
<1> DEFINE p == Append(o, x)
<1>1. /\ Len(p) = Len(o) + 1 /\ Len(o) \in Nat /\ p[Len(o) + 1] = x
      /\ \A k \in 1..Len(o) : p[k] = o[k]
  OBVIOUS
<1>2. Len(o) + 1 \in 1..Len(p) /\ \A k \in 1..Len(o) : k \in 1..Len(p)
  BY <1>1
<1> HIDE DEF p
<1>3. (\E k \in 1..Len(p) : p[k] = x) /\ \A k \in 1..Len(o) : \E j \in 1..Len(p) : p[j] = o[k]
  BY <1>1, <1>2
<1> QED BY <1>3 DEF p

(* append puts the request among the listeners; what a range of the        *)
(* listeners as they were sees is not touched.                             *)
LEMMA MissAppend ==
    ASSUME OrderInv, TypeInv, MissInv, ~ disturbed, NEW c \in Streams, AppendListener(c)
    PROVE  MissInv'
<1> DEFINE s == stream[c]
           new == SliceAppend(heap, s, c, None)
           t == Thread("listed", EmptySlice, 0)
<1>1. /\ s.pc = "append" /\ stream' = [stream EXCEPT ![c] = t]
      /\ heap' = new.heap /\ listeners' = new.slice
      /\ UNCHANGED <<agentVars, out, buf>>
  BY DEF AppendListener
<1>2. Calm
  BY DEF MissInv
<1>3. /\ heap \in Heaps /\ Fits(heap, s) /\ c \in Slot /\ Fits(heap, listeners)
      /\ s.arr = listeners.arr /\ s.len = listeners.len /\ s.len \in Nat
      /\ agent.pc = "send" => Fits(heap, agent) /\ agent.at >= 1
      /\ agent \in AgentType
  <2>1. Held(heap, s) /\ s \in ThreadType /\ heap \in Heaps /\ Fits(heap, listeners)
        /\ (agent.pc = "send" => Fits(heap, agent) /\ agent.at >= 1) /\ agent \in AgentType
    BY DEF TypeInv, SliceType
  <2>2. Fits(heap, s) /\ s.len \in Nat
    BY <1>1, <2>1 DEF Held, ThreadType
  <2>3. s.arr = listeners.arr /\ s.len = listeners.len
    BY <1>1, <1>2 DEF Calm
  <2> QED BY <2>1, <2>2, <2>3 DEF Slot
<1>4. Appended(heap, s, c, heap', listeners')
  BY <1>1, <1>3, AppendSlice
<1>5. t.pc = "listed"
  BY ThreadIs
<1> HIDE DEF s, new, t
<1>6. /\ listeners'.len = s.len + 1 /\ (listeners'.arr = s.arr \/ listeners'.arr = Len(heap) + 1)
      /\ \A i \in 1..s.len : At(heap', listeners', i) = At(heap, s, i)
      /\ At(heap', listeners', s.len + 1) = c
      /\ \A r : Spared(heap, s, r) => \A i \in 1..r.len : At(heap', r, i) = At(heap, r, i)
  BY <1>4 DEF Appended
<1>7. \A i : At(heap, s, i) = At(heap, listeners, i)
  BY <1>3 DEF At
<1>8. /\ \A e \in Streams : Has(heap, listeners, e, 1) => Has(heap', listeners', e, 1)
      /\ Has(heap', listeners', c, 1)
  <2>1. s.len + 1 \in 1..listeners'.len /\ \A i \in 1..s.len : i \in 1..listeners'.len
    BY <1>3, <1>6
  <2> QED BY <1>3, <1>6, <1>7, <2>1 DEF Has
<1>9. stream'[c] = t /\ \A e \in Streams \ {c} : stream'[e] = stream[e] /\ ~ Updating(e)
  <2>1. Updating(c)
    BY <1>1 DEF Updating, s
  <2> QED BY <1>1, <1>2, <2>1 DEF OrderInv, Calm
<1>10. \A e \in Streams : stream'[e].pc \notin Updates
  BY <1>5, <1>9 DEF Updating, Updates
<1>11. agent.pc = "send" => Spared(heap, s, agent)
  BY <1>2, <1>3 DEF Calm, Spared
<1>12. agent' = agent
  BY <1>1 DEF agentVars
<1>13. agent.pc = "send" /\ agent.arr = listeners'.arr => agent.len <= listeners'.len
  <2> SUFFICES ASSUME agent.pc = "send", agent.arr = listeners'.arr
               PROVE  agent.len <= listeners'.len
    OBVIOUS
  <2>1. agent.arr \in 1..Len(heap) /\ Len(heap) \in Nat /\ agent.len \in Nat
    BY <1>3, HeapTypes DEF Fits, AgentType
  <2>2. agent.arr = s.arr
    BY <1>6, <2>1
  <2>3. agent.len <= s.len
    BY <1>11, <2>2 DEF Spared
  <2> QED BY <1>3, <1>6, <2>1, <2>3
<1>14. \A e \in Streams : stream'[e].pc \in Listening => Has(heap', listeners', e, 1)
  BY <1>2, <1>8, <1>9 DEF Calm
<1>15. Calm'
  BY <1>10, <1>12, <1>13, <1>14 DEF Calm, Updating, Updates
<1>16. ASSUME NEW e \in Streams, InFlight(e) PROVE InFlight(e)'
  <2>1. CASE agent.pc = "range"
    BY <1>12, <2>1 DEF InFlight
  <2>2. CASE agent.pc = "send" /\ Has(heap, agent, e, agent.at)
    <3>1. PICK i \in agent.at..agent.len : At(heap, agent, i) = e
      BY <2>2 DEF Has
    <3>2. agent.at \in Nat /\ agent.at >= 1 /\ agent.len \in Nat
      BY <1>3, <2>2 DEF AgentType
    <3>3. i \in 1..agent.len
      BY <3>1, <3>2
    <3>4. At(heap', agent, i) = e
      BY <1>6, <1>11, <2>2, <3>1, <3>3
    <3> QED BY <1>12, <2>2, <3>1, <3>4 DEF InFlight, Has
  <2> QED BY <1>16, <2>1, <2>2 DEF InFlight
<1>17. PICK p, d : p = out[c] /\ d = buf[c]
  OBVIOUS
<1>18. Puts(out, out', c, p) /\ Puts(buf, buf', c, d)
  BY <1>1, <1>17 DEF OrderInv, Puts
<1> QED BY <1>1, <1>5, <1>15, <1>16, <1>18, MissThread

(* RemoveListener removes the request, and only it.                        *)
LEMMA MissRemove ==
    ASSUME OrderInv, TypeInv, MissInv, ~ disturbed, NEW c \in Streams, RemoveListener(c)
    PROVE  MissInv'
<1> DEFINE s == stream[c]
           new == SliceRemove(heap, s, s.at)
           t == Thread("ended", EmptySlice, 0)
<1>1. Calm /\ s.pc = "store"
  BY DEF MissInv, RemoveListener
<1>2. /\ s.arr = listeners.arr /\ s.len = listeners.len /\ agent.pc # "send"
      /\ s.at \in 1..listeners.len /\ At(heap, listeners, s.at) = c
      /\ \A e \in Streams \ {c} : ~ Updating(e)
  <2>1. Updating(c)
    BY <1>1 DEF Updating
  <2> QED BY <1>1, <2>1 DEF Calm
<1>3. heap \in Heaps /\ Fits(heap, s) /\ s.len \in Nat
  <2>1. Held(heap, s) /\ s \in ThreadType /\ heap \in Heaps
    BY DEF TypeInv, SliceType
  <2> QED BY <1>1, <2>1 DEF Held, ThreadType
<1>4. s.at \in 1..s.len /\ s.at <= s.len
  BY <1>2, <1>3
<1>5. /\ stream' = [stream EXCEPT ![c] = t] /\ UNCHANGED <<agentVars, out, buf>>
      /\ heap' = new.heap /\ listeners' = new.slice
  BY <1>2, <1>3, <1>4 DEF RemoveListener
<1>6. Removed(heap, s, s.at, heap', listeners')
  BY <1>3, <1>4, <1>5, RemoveSlice
<1>7. t.pc = "ended"
  BY ThreadIs
<1> HIDE DEF new, t, s
<1>8. ASSUME NEW e \in Streams \ {c}, Has(heap, listeners, e, 1)
      PROVE  Has(heap', listeners', e, 1)
  <2>1. PICK i \in 1..s.len : At(heap, s, i) = e
    BY <1>2, <1>8 DEF Has, At
  <2>2. At(heap, s, s.at) = c
    BY <1>2 DEF At
  <2>3. i # s.at
    BY <1>8, <2>1, <2>2
  <2>4. \E j \in 1..listeners'.len : At(heap', listeners', j) = e
    BY <1>6, <2>1, <2>3 DEF Removed
  <2> QED BY <2>4 DEF Has
<1>9. stream'[c] = t /\ \A e \in Streams \ {c} : stream'[e] = stream[e] /\ ~ Updating(e)
  BY <1>2, <1>5 DEF OrderInv
<1>10. \A e \in Streams : stream'[e].pc \notin Updates
  BY <1>7, <1>9 DEF Updating, Updates
<1>11. \A e \in Streams : stream'[e].pc \in Listening => Has(heap', listeners', e, 1)
  BY <1>1, <1>7, <1>8, <1>9 DEF Calm, Listening
<1>12. agent' = agent
  BY <1>5 DEF agentVars
<1>13. Calm'
  BY <1>2, <1>10, <1>11, <1>12 DEF Calm, Updating, Updates
<1>14. \A e \in Streams : InFlight(e) => InFlight(e)'
  BY <1>2, <1>12 DEF InFlight
<1>15. PICK p, d : p = out[c] /\ d = buf[c]
  OBVIOUS
<1>16. Puts(out, out', c, p) /\ Puts(buf, buf', c, d)
  BY <1>5, <1>15 DEF OrderInv, Puts
<1> QED BY <1>5, <1>7, <1>13, <1>14, <1>16, MissThread

LEMMA MissStream ==
    ASSUME OrderInv, TypeInv, MissInv, NEW c \in Streams,
           Subscribe(c) \/ ClientGone(c) \/ ClientStalls(c) \/ StreamStep(c)
    PROVE  MissInv'
<1> SUFFICES ASSUME ~ disturbed' PROVE MissInv'
  BY DEF MissInv
<1>0. ~ disturbed
  BY DEF Subscribe, ClientGone, ClientStalls, StreamStep, AppendListener, CopyHistory, WriteHistory,
         WriteStatus, Cancel, TakeListeners, RemoveListener
<1>1. Calm /\ stream[c] \in ThreadType /\ Len(history) \in Nat
  <2>1. Calm /\ stream[c] \in ThreadType /\ history \in Seq(Kind)
    BY <1>0 DEF MissInv, TypeInv, OrderInv
  <2> QED BY <2>1
<1>2. CASE Subscribe(c)
  <2> DEFINE t == Thread("append", listeners, 0)
  <2>1. /\ stream' = [stream EXCEPT ![c] = t] /\ UNCHANGED <<agentVars, sliceVars, out, buf>>
        /\ ~ Overlaps(c)
    BY <1>0, <1>2 DEF Subscribe
  <2>2. t.pc = "append" /\ t.arr = listeners.arr /\ t.len = listeners.len
    BY DEF Thread
  <2> HIDE DEF t
  <2>3. Allowed(c, t)
    BY <2>1, <2>2 DEF Allowed, Overlaps, Listening
  <2> QED BY <1>0, <2>1, <2>2, <2>3, MissQuiet
<1>3. CASE ClientGone(c)
  <2> DEFINE t == Thread("gone", EmptySlice, 0)
  <2>1. t.pc = "gone"
    BY ThreadIs
  <2>2. stream' = [stream EXCEPT ![c] = t] /\ UNCHANGED <<agentVars, sliceVars, out, buf>>
    BY <1>3 DEF ClientGone
  <2> HIDE DEF t
  <2>3. Allowed(c, t)
    BY <2>1 DEF Allowed, Updates, Listening
  <2> QED BY <1>0, <2>1, <2>2, <2>3, MissQuiet
<1>11. CASE ClientStalls(c)
  <2> DEFINE t == Thread("stuck", EmptySlice, 0)
  <2>1. t.pc = "stuck"
    BY ThreadIs
  <2>2. /\ stream' = [stream EXCEPT ![c] = t] /\ UNCHANGED <<agentVars, sliceVars, out>>
        /\ buf' = buf \/ buf' = [buf EXCEPT ![c] = Tail(@)]
    BY <1>11 DEF ClientStalls
  <2> HIDE DEF t
  <2>3. Allowed(c, t)
    BY <2>1 DEF Allowed, Updates, Listening
  <2>4. PICK d, p : Puts(buf, buf', c, d) /\ p = out[c] /\ Puts(out, out', c, p)
    BY <2>2 DEF OrderInv, Puts
  <2> QED BY <1>0, <2>1, <2>2, <2>3, <2>4, MissMoves
<1>4. CASE CopyHistory(c)
  <2> DEFINE head == [arr |-> 1, len |-> Len(history)]
             t == Thread("write", head, 1)
  <2>1. /\ stream[c].pc = "listed" /\ stream' = [stream EXCEPT ![c] = t]
        /\ UNCHANGED <<agentVars, sliceVars, out, buf>>
    BY <1>4 DEF CopyHistory
  <2>2. t.pc = "write" /\ t.at = 1 /\ t.len = Len(history)
    BY DEF Thread
  <2> HIDE DEF t
  <2>3. Allowed(c, t)
    BY <2>1, <2>2 DEF Allowed, Updates, Listening
  <2>4. Covered(Len(history), out[c], buf[c], t, InFlight(c))
    BY <2>2 DEF Covered
  <2> QED BY <1>0, <2>1, <2>3, <2>4, MissQuiet
<1>5. CASE WriteHistory(c)
  <2>1. PICK s, o, b : s = stream[c] /\ o = out[c] /\ b = buf[c]
    OBVIOUS
  <2>2. /\ s.pc = "write" /\ UNCHANGED <<agentVars, sliceVars, buf>>
        /\ IF s.at <= s.len THEN Write(c, s.at, [s EXCEPT !.at = @ + 1])
           ELSE stream' = [stream EXCEPT ![c].pc = "read"] /\ UNCHANGED out
    BY <1>5, <2>1 DEF WriteHistory
  <2>3. /\ Served(c) /\ s \in ThreadType /\ Covered(Len(history), o, b, s, InFlight(c))
        /\ o \in Seq(1..Len(history))
    BY <1>0, <1>1, <2>1, <2>2 DEF Served, MissInv, OrderInv, Fine
  <2>4. s.at \in Nat /\ s.len \in Nat
    BY <2>3 DEF ThreadType
  <2>5. CASE s.at <= s.len
    <3> DEFINE t == [s EXCEPT !.at = @ + 1]
               p == Append(o, s.at)
    <3>1. Write(c, s.at, t)
      BY <2>2, <2>5
    <3>2. t.pc = "write" /\ t.at = s.at + 1 /\ t.len = s.len
      BY <2>2, <2>3 DEF ThreadType
    <3>3. (\E k \in 1..Len(p) : p[k] = s.at)
          /\ \A k \in 1..Len(o) : \E j \in 1..Len(p) : p[j] = o[k]
      BY <2>3, AppendHas
    <3>4. \A i \in s.at..s.len : i = s.at \/ i \in (s.at + 1)..s.len
      BY <2>4
    <3> HIDE DEF t, p
    <3>5. Covered(Len(history), p, b, t, InFlight(c))
      BY <2>2, <2>3, <3>2, <3>3, <3>4 DEF Covered
    <3>6. Puts(buf, buf', c, b)
      BY <2>1, <2>2 DEF OrderInv, Puts
    <3> QED BY <1>0, <2>1, <2>2, <2>3, <3>1, <3>2, <3>5, <3>6, MissWrites DEF p
  <2>6. CASE ~ (s.at <= s.len)
    <3> DEFINE t == [s EXCEPT !.pc = "read"]
    <3>1. stream' = [stream EXCEPT ![c].pc = "read"] /\ UNCHANGED out
      BY <2>2, <2>6
    <3>2. stream' = [stream EXCEPT ![c] = t]
      BY <2>1, <3>1
    <3>3. t.pc = "read" /\ s.at..s.len = {}
      BY <2>3, <2>4, <2>6 DEF ThreadType
    <3> HIDE DEF t
    <3>4. Covered(Len(history), o, b, t, InFlight(c))
      BY <2>3, <3>3 DEF Covered
    <3>5. Allowed(c, t)
      BY <2>1, <2>2, <3>3 DEF Allowed, Updates, Listening
    <3> QED BY <1>0, <2>1, <2>2, <3>1, <3>2, <3>4, <3>5, MissQuiet
  <2> QED BY <2>5, <2>6
<1>6. CASE WriteStatus(c)
  <2>1. PICK s, o, b, n : s = stream[c] /\ o = out[c] /\ b = buf[c] /\ n = Len(history)
    OBVIOUS
  <2> DEFINE x == Head(b)
             d == Tail(b)
             p == Append(o, x)
  <2>2. /\ s.pc = "read" /\ b # <<>> /\ Write(c, x, s) /\ UNCHANGED <<agentVars, sliceVars>>
        /\ Puts(buf, buf', c, d)
    BY <1>6, <2>1 DEF WriteStatus, OrderInv, Puts
  <2>3. /\ Served(c) /\ Covered(n, o, b, s, InFlight(c))
        /\ o \in Seq(1..n) /\ b \in Seq(1..n)
    BY <1>0, <2>1, <2>2 DEF Served, MissInv, OrderInv, Fine
  <2>4. \A k \in 1..Len(b) : k = 1 \/ (k - 1 \in 1..Len(d) /\ d[k - 1] = b[k])
    <3>1. Len(b) \in Nat /\ Len(d) = Len(b) - 1 /\ \A k \in 1..Len(d) : d[k] = b[k + 1]
      BY <2>2, <2>3
    <3> HIDE DEF d
    <3>2. \A k \in 1..Len(b) : k # 1 => k - 1 \in 1..Len(d) /\ (k - 1) + 1 = k
      BY <3>1
    <3> QED BY <3>1, <3>2
  <2>5. x = b[1]
    BY <2>2, <2>3
  <2>6. (\E k \in 1..Len(p) : p[k] = x)
        /\ \A k \in 1..Len(o) : \E j \in 1..Len(p) : p[j] = o[k]
    BY <2>3, AppendHas
  <2> HIDE DEF x, d, p
  <2>7. \A k \in 1..Len(b) : \/ \E j \in 1..Len(p) : p[j] = b[k]
                            \/ \E j \in 1..Len(d) : d[j] = b[k]
    BY <2>4, <2>5, <2>6
  <2>8. Covered(n, p, d, s, InFlight(c))
    <3> SUFFICES ASSUME NEW i \in 1..n
                 PROVE  \/ \E k \in 1..Len(p) : p[k] = i
                        \/ \E k \in 1..Len(d) : d[k] = i
                        \/ InFlight(c) /\ i = n
      BY DEF Covered
    <3>1. \/ \E k \in 1..Len(o) : o[k] = i
          \/ \E k \in 1..Len(b) : b[k] = i
          \/ InFlight(c) /\ i = n
      BY <2>2, <2>3 DEF Covered
    <3> QED BY <2>6, <2>7, <3>1
  <2> QED BY <1>0, <2>1, <2>2, <2>3, <2>8, MissWrites DEF p
<1>7. CASE Cancel(c)
  <2>1. PICK places : places = Places(heap, listeners, c, 1)
    OBVIOUS
  <2>2. /\ stream[c].pc = "cancel" /\ UNCHANGED <<agentVars, sliceVars, out, buf>>
        /\ ~ Overlaps(c)
        /\ \/ stream' = [stream EXCEPT ![c] = Thread("ended", EmptySlice, 0)]
           \/ \E i \in places : stream' = [stream EXCEPT ![c] = Thread("remove", EmptySlice, i)]
    BY <1>0, <1>7, <2>1 DEF Cancel
  <2>3. CASE stream' = [stream EXCEPT ![c] = Thread("ended", EmptySlice, 0)]
    <3> DEFINE t == Thread("ended", EmptySlice, 0)
    <3>1. t.pc = "ended" /\ stream' = [stream EXCEPT ![c] = t]
      BY <2>3, ThreadIs
    <3> HIDE DEF t
    <3>2. Allowed(c, t)
      BY <3>1 DEF Allowed, Updates, Listening
    <3> QED BY <1>0, <2>2, <3>1, <3>2, MissQuiet
  <2>4. ASSUME NEW i \in places,
               stream' = [stream EXCEPT ![c] = Thread("remove", EmptySlice, i)]
        PROVE  MissInv'
    <3> DEFINE t == Thread("remove", EmptySlice, i)
    <3>1. t.pc = "remove" /\ t.at = i /\ stream' = [stream EXCEPT ![c] = t]
      BY <2>4, ThreadIs
    <3> HIDE DEF t
    <3>2. i \in 1..listeners.len /\ At(heap, listeners, i) = c
      BY <2>1, <2>4 DEF Places
    <3>3. Allowed(c, t)
      BY <2>2, <3>1, <3>2 DEF Allowed, Overlaps, Listening
    <3> QED BY <1>0, <2>2, <3>1, <3>3, MissQuiet
  <2> QED BY <2>2, <2>3, <2>4
<1>8. CASE TakeListeners(c)
  <2> DEFINE t == Thread("store", listeners, stream[c].at)
  <2>1. /\ stream[c].pc = "remove" /\ stream' = [stream EXCEPT ![c] = t]
        /\ UNCHANGED <<agentVars, sliceVars, out, buf>>
    BY <1>8 DEF TakeListeners, OrderInv
  <2>2. t.pc = "store" /\ t.at = stream[c].at /\ t.arr = listeners.arr /\ t.len = listeners.len
    BY DEF Thread
  <2> HIDE DEF t
  <2>3. \A d \in Streams \ {c} : ~ Updating(d)
    <3>1. Updating(c)
      BY <2>1 DEF Updating
    <3> QED BY <1>1, <3>1 DEF Calm
  <2>4. Allowed(c, t)
    BY <1>1, <2>1, <2>2, <2>3 DEF Allowed, Calm, Listening
  <2> QED BY <1>0, <2>1, <2>2, <2>4, MissQuiet
<1>9. CASE AppendListener(c)
  BY <1>0, <1>9, MissAppend
<1>10. CASE RemoveListener(c)
  BY <1>0, <1>10, MissRemove
<1> QED BY <1>2, <1>3, <1>4, <1>5, <1>6, <1>7, <1>8, <1>9, <1>10, <1>11 DEF StreamStep

LEMMA MissStep == OrderInv /\ TypeInv /\ MissInv /\ [Next]_vars => MissInv'
<1> SUFFICES ASSUME OrderInv, TypeInv, MissInv, [Next]_vars PROVE MissInv'
  OBVIOUS
<1>1. CASE UNCHANGED vars
  BY <1>1 DEF vars, MissInv, Calm, Served, Covered, InFlight, Has, At, sliceVars, Updating
<1>2. CASE Next
  BY <1>2, MissAgent, MissStream DEF Next, Kind
<1> QED BY <1>1, <1>2

(* As long as no update of the slice has overlapped another or, removing,  *)
(* an emitStatus, a request that is served misses no status, be it emitted *)
(* before the request, between the subscription and the copy of the        *)
(* history, or while other requests come and go.                           *)
THEOREM NoStatusMissed == Spec => []NothingMissed
<1>1. Init => OrderInv /\ TypeInv /\ MissInv
  BY OrderInit, TypeInit, MissInit
<1>2. OrderInv /\ TypeInv /\ MissInv /\ [Next]_vars => (OrderInv /\ TypeInv /\ MissInv)'
  BY OrderStep, TypeStep, MissStep
<1>3. OrderInv /\ TypeInv /\ MissInv => NothingMissed
  BY MissInvOK
<1> QED BY <1>1, <1>2, <1>3, PTL DEF Spec
=============================================================================
