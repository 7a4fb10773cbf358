------------------------- MODULE LauncherRpcProofs -------------------------
(***************************************************************************)
(* Theorems about LauncherRpc, for any launchers, calls, width of the ids  *)
(* and bounds.                                                             *)
(***************************************************************************)
EXTENDS LauncherRpc, FiniteSetTheorems, TLAPS

-----------------------------------------------------------------------------
(* Slices: a header is good when its elements are launchers.  No operation *)
(* on one header, however stale, makes another one bad: arrays only grow,  *)
(* and a slot that holds a launcher never becomes free again.              *)
Slot  == Launchers \cup {None}
Heaps == Seq(Seq(Slot))

Good(hp, s) ==
    /\ s.arr \in 1..Len(hp) /\ s.len \in 0..Len(hp[s.arr])
    /\ \A i \in 1..s.len : hp[s.arr][i] \in Launchers

Grows(old, new) == /\ new \in Heaps
                   /\ \A s : Good(old, s) => Good(new, s)

LEMMA HeapTypes ==
    ASSUME NEW hp \in Heaps
    PROVE  /\ Len(hp) \in Nat /\ DOMAIN hp = 1..Len(hp)
           /\ \A a \in 1..Len(hp) :
                 /\ hp[a] \in Seq(Slot) /\ Len(hp[a]) \in Nat
                 /\ DOMAIN hp[a] = 1..Len(hp[a])
                 /\ \A i \in 1..Len(hp[a]) : hp[a][i] \in Slot
BY DEF Heaps

(* Replacing one array by one that has a launcher wherever it had one.     *)
LEMMA Rewrite ==
    ASSUME NEW hp \in Heaps, NEW a \in 1..Len(hp), NEW row \in Seq(Slot),
           Len(row) = Len(hp[a]),
           NEW s, Good(hp, s), \A i \in 1..Len(row) :
              hp[a][i] \in Launchers => row[i] \in Launchers
    PROVE  [hp EXCEPT ![a] = row] \in Heaps /\ Good([hp EXCEPT ![a] = row], s)
<1> DEFINE new == [hp EXCEPT ![a] = row]
<1>1. new \in Heaps /\ Len(new) = Len(hp)
  BY HeapTypes DEF Heaps
<1>2. new[a] = row /\ \A b \in 1..Len(hp) : b # a => new[b] = hp[b]
  BY HeapTypes
<1> HIDE DEF new
<1>3. s.arr \in 1..Len(new) /\ s.len \in 0..Len(new[s.arr])
  BY <1>1, <1>2 DEF Good
<1>4. ASSUME NEW i \in 1..s.len PROVE new[s.arr][i] \in Launchers
  <2>1. hp[s.arr][i] \in Launchers
    BY <1>4 DEF Good
  <2>2. CASE s.arr = a
    <3>1. i \in 1..Len(row)
      BY <1>2, <1>3, <1>4, <2>2, HeapTypes
    <3> QED BY <1>2, <2>1, <2>2, <3>1
  <2>3. CASE s.arr # a
    <3>1. s.arr \in 1..Len(hp)
      BY DEF Good
    <3> QED BY <1>2, <2>1, <2>3, <3>1
  <2> QED BY <2>2, <2>3
<1>5. Good(new, s)
  BY <1>3, <1>4 DEF Good
<1> QED BY <1>1, <1>5 DEF new

(* append(s, x).                                                           *)
LEMMA AppendGood ==
    ASSUME NEW hp \in Heaps, NEW s, Good(hp, s), NEW x \in Launchers
    PROVE  LET new == SliceAppend(hp, s, x, None) IN
           Grows(hp, new.heap) /\ Good(new.heap, new.slice)
<1> DEFINE old == hp[s.arr]
           cap == IF old = <<>> THEN 1 ELSE 2 * Len(old)
           row == [i \in 1..cap |-> CASE i <= s.len -> old[i]
                                      [] i = s.len + 1 -> x
                                      [] OTHER -> None]
<1>1. /\ old \in Seq(Slot) /\ Len(old) \in Nat /\ DOMAIN old = 1..Len(old)
      /\ s.arr \in 1..Len(hp) /\ s.len \in 0..Len(old) /\ Len(hp) \in Nat
      /\ \A i \in 1..s.len : old[i] \in Launchers
      /\ \A i \in 1..Len(old) : old[i] \in Slot
  BY HeapTypes DEF Good
<1>2. CASE s.len < Len(old)
  <2> DEFINE at == s.len + 1
             put == [old EXCEPT ![at] = x]
             nh == [hp EXCEPT ![s.arr] = put]
             sl == [arr |-> s.arr, len |-> at]
  <2>1. SliceAppend(hp, s, x, None) = [heap |-> nh, slice |-> sl]
    <3>1. [hp EXCEPT ![s.arr][s.len + 1] = x] = nh
      OBVIOUS
    <3> QED BY <1>2, <3>1 DEF SliceAppend
  <2>2. at \in 1..Len(old) /\ x \in Slot
    BY <1>1, <1>2 DEF Slot
  <2>3. put \in Seq(Slot) /\ Len(put) = Len(old)
    BY <1>1, <2>2
  <2>4. \A i \in 1..Len(old) : put[i] = (IF i = at THEN x ELSE old[i])
    BY <1>1, <2>2
  <2> HIDE DEF put
  <2>5. \A i \in 1..Len(put) : old[i] \in Launchers => put[i] \in Launchers
    BY <2>3, <2>4
  <2>6. ASSUME NEW t, Good(hp, t) PROVE nh \in Heaps /\ Good(nh, t)
    BY <1>1, <2>3, <2>5, <2>6, Rewrite
  <2>7. Len(nh) = Len(hp) /\ nh[s.arr] = put
    BY <1>1, HeapTypes DEF Heaps
  <2>8. nh \in Heaps
    BY <2>6
  <2> HIDE DEF nh, old
  <2>9. Good(nh, sl)
    <3>1. sl.arr = s.arr /\ sl.len = at
      OBVIOUS
    <3>2. \A i \in 1..at : put[i] \in Launchers
      <4>1. \A i \in 1..at : i \in 1..Len(old) /\ (i = at \/ i \in 1..s.len)
        BY <1>1, <2>2
      <4> QED BY <1>1, <2>4, <4>1
    <3>3. at \in 0..Len(put)
      BY <1>1, <2>2, <2>3
    <3> HIDE DEF sl, at
    <3> QED BY <1>1, <2>7, <3>1, <3>2, <3>3 DEF Good
  <2> HIDE DEF sl
  <2> QED BY <2>1, <2>6, <2>8, <2>9 DEF Grows
<1>3. CASE ~ (s.len < Len(old))
  <2> DEFINE nh == Append(hp, row)
             sl == [arr |-> Len(hp) + 1, len |-> s.len + 1]
  <2>1. SliceAppend(hp, s, x, None) = [heap |-> nh, slice |-> sl]
    BY <1>3 DEF SliceAppend
  <2>2. s.len = Len(old)
    BY <1>1, <1>3
  <2>3. cap \in Nat /\ s.len + 1 <= cap
    <3>1. CASE old = <<>>
      <4>1. Len(old) = 0
        BY <3>1
      <4> QED BY <2>2, <3>1, <4>1
    <3>2. CASE old # <<>>
      <4>1. Len(old) >= 1
        BY <1>1, <3>2
      <4> QED BY <1>1, <2>2, <3>2, <4>1
    <3> QED BY <3>1, <3>2
  <2> HIDE DEF cap
  <2>4. \A i \in 1..cap : row[i] \in Slot /\ (i <= s.len + 1 => row[i] \in Launchers)
    <3> SUFFICES ASSUME NEW i \in 1..cap
                 PROVE  row[i] \in Slot /\ (i <= s.len + 1 => row[i] \in Launchers)
      OBVIOUS
    <3>1. CASE i <= s.len
      <4>1. row[i] = old[i] /\ i \in 1..s.len
        BY <1>1, <2>3, <3>1
      <4> QED BY <1>1, <4>1 DEF Slot
    <3>2. CASE i = s.len + 1
      <4>1. row[i] = x
        BY <1>1, <3>2
      <4> QED BY <4>1 DEF Slot
    <3>3. CASE ~ (i <= s.len) /\ i # s.len + 1
      <4>1. row[i] = None
        BY <3>3
      <4>2. ~ (i <= s.len + 1)
        BY <1>1, <2>3, <3>3
      <4> QED BY <4>1, <4>2 DEF Slot
    <3> QED BY <3>1, <3>2, <3>3
  <2>5. DOMAIN row = 1..cap
    OBVIOUS
  <2> HIDE DEF row
  <2>6. row \in Seq(Slot) /\ Len(row) = cap
    <3>1. row \in [1..cap -> Slot]
      <4>1. row = [i \in 1..cap |-> row[i]]
        BY <2>5 DEF row
      <4> QED BY <2>4, <4>1
    <3> QED BY <2>3, <3>1
  <2>7. /\ nh \in Heaps /\ Len(nh) = Len(hp) + 1 /\ nh[Len(hp) + 1] = row
        /\ \A a \in 1..Len(hp) : nh[a] = hp[a]
    BY <1>1, <2>6, HeapTypes DEF Heaps
  <2> HIDE DEF nh
  <2>8. ASSUME NEW t, Good(hp, t) PROVE Good(nh, t)
    <3>1. t.arr \in 1..Len(hp)
      BY <2>8 DEF Good
    <3>2. t.arr \in 1..Len(nh) /\ nh[t.arr] = hp[t.arr]
      BY <1>1, <2>7, <3>1
    <3> QED BY <2>8, <3>2 DEF Good
  <2>9. Good(nh, sl)
    <3>1. sl.arr = Len(hp) + 1 /\ sl.len = s.len + 1
      OBVIOUS
    <3> HIDE DEF sl, old
    <3>2. \A i \in 1..(s.len + 1) : i \in 1..cap /\ i <= s.len + 1
      BY <1>1, <2>3
    <3>3. sl.arr \in 1..Len(nh) /\ nh[sl.arr] = row
      BY <1>1, <2>7, <3>1
    <3>4. s.len + 1 \in 0..cap
      BY <1>1, <2>3
    <3> QED BY <2>4, <2>6, <3>1, <3>2, <3>3, <3>4 DEF Good
  <2> HIDE DEF sl
  <2> QED BY <2>1, <2>7, <2>8, <2>9 DEF Grows
<1> QED BY <1>2, <1>3

(* append(s[:i], s[i+1:]...).                                              *)
LEMMA RemoveGood ==
    ASSUME NEW hp \in Heaps, NEW s, Good(hp, s), NEW at \in 1..s.len
    PROVE  LET new == SliceRemove(hp, s, at) IN
           Grows(hp, new.heap) /\ Good(new.heap, new.slice)
<1> DEFINE old == hp[s.arr]
           row == [j \in DOMAIN old |->
                      IF j \in at..(s.len - 1) THEN old[j + 1] ELSE old[j]]
           nh == [hp EXCEPT ![s.arr] = row]
           sl == [arr |-> s.arr, len |-> s.len - 1]
<1>1. /\ old \in Seq(Slot) /\ Len(old) \in Nat /\ DOMAIN old = 1..Len(old)
      /\ s.arr \in 1..Len(hp) /\ s.len \in 0..Len(old) /\ Len(hp) \in Nat
      /\ \A i \in 1..s.len : old[i] \in Launchers
      /\ \A i \in 1..Len(old) : old[i] \in Slot
  BY HeapTypes DEF Good
<1>2. SliceRemove(hp, s, at) = [heap |-> nh, slice |-> sl]
  <2>1. [hp EXCEPT ![s.arr] = [j \in DOMAIN @ |->
              IF j \in at..(s.len - 1) THEN @[j + 1] ELSE @[j]]] = nh
    OBVIOUS
  <2> QED BY <2>1 DEF SliceRemove
<1>3. ASSUME NEW j \in 1..Len(old)
      PROVE  row[j] \in Slot /\ (old[j] \in Launchers => row[j] \in Launchers)
  <2>1. CASE j \in at..(s.len - 1)
    <3>1. row[j] = old[j + 1] /\ j + 1 \in 1..s.len
      BY <1>1, <2>1
    <3> QED BY <1>1, <3>1 DEF Slot
  <2>2. CASE j \notin at..(s.len - 1)
    <3>1. row[j] = old[j]
      BY <1>1, <2>2
    <3> QED BY <1>1, <3>1
  <2> QED BY <2>1, <2>2
<1>4. row \in Seq(Slot) /\ Len(row) = Len(old)
  <2>1. row \in [1..Len(old) -> Slot]
    BY <1>1, <1>3
  <2> HIDE DEF row
  <2> QED BY <1>1, <2>1
<1> HIDE DEF row
<1>5. ASSUME NEW t, Good(hp, t) PROVE nh \in Heaps /\ Good(nh, t)
  BY <1>1, <1>3, <1>4, <1>5, Rewrite
<1>6. Good(nh, sl)
  <2>1. Good(nh, s)
    BY <1>5
  <2>2. sl.arr = s.arr /\ sl.len = s.len - 1
    OBVIOUS
  <2> HIDE DEF nh, sl
  <2>3. s.len - 1 \in 0..s.len /\ \A i \in 1..(s.len - 1) : i \in 1..s.len
    BY <1>1
  <2> QED BY <2>1, <2>2, <2>3 DEF Good
<1> HIDE DEF nh, sl
<1> QED BY <1>2, <1>5, <1>6 DEF Grows

-----------------------------------------------------------------------------
(* Types, of all the state.                                                *)
Header == [arr : Nat, len : Nat]
ListenPC == {"off", "append", "read", "deliver", "stuck", "remove", "store", "ended"}
Listening == [pc : ListenPC, arr : Nat, len : Nat, at : Nat \cup Calls \cup {None},
              now : Header, msg : Message]
CallPC == {"idle", "send", "write", "register", "wait", "delete", "done", "failed"}
CallType == [pc : CallPC, to : Launchers \cup {None}, id : Id, got : Message]

NetType ==
    /\ conn \in [Launchers -> {"new", "up", "down"}]
    /\ counter \in [Launchers -> Id]
    /\ requests \in [Launchers -> [Id -> Calls \cup {None}]]
    /\ remote \in [Launchers -> SUBSET Message]
    /\ inbox \in [Launchers -> Seq(Message)]
    /\ asks \in 0..MaxAsks /\ torn \subseteq Calls
    /\ crashed \in {"no", "panic", "map"}

ThreadType == /\ listen \in [Launchers -> Listening]
              /\ call \in [Calls -> CallType]

(* Every header that is still used is good.                                *)
InUse(hp, t) ==
    /\ t.pc \in {"append", "remove", "store"} => Good(hp, t)
    /\ t.pc \in {"remove", "store"} => t.at \in 1..t.len
    /\ t.pc = "store" => Good(hp, t.now) /\ t.at \in 1..t.now.len

SliceType == /\ heap \in Heaps /\ Good(heap, launchers) /\ launchers \in Header
             /\ \A l \in Launchers : InUse(heap, listen[l])

(* A call has a launcher from the increment of its counter on.             *)
ToType == \A p \in Calls : call[p].pc \notin {"idle", "failed"} => call[p].to \in Launchers

AllTypes == NetType /\ ThreadType /\ SliceType /\ ToType

LEMMA AllTypesOK == AllTypes => TypeOK
<1> SUFFICES ASSUME AllTypes PROVE TypeOK
  OBVIOUS
<1>1. \A a \in DOMAIN heap : heap[a] \in Seq(Launchers \cup {None})
  BY HeapTypes DEF AllTypes, SliceType, Slot
<1>2. launchers.arr \in DOMAIN heap /\ launchers.len \in 0..Len(heap[launchers.arr])
  BY HeapTypes DEF AllTypes, SliceType, Good
<1>3. \A l \in Launchers :
         /\ listen[l].pc \in {"off", "append", "read", "deliver", "stuck",
                              "remove", "store", "ended"}
         /\ listen[l].msg \in Message /\ inbox[l] \in Seq(Message)
  BY DEF AllTypes, ThreadType, NetType, Listening, ListenPC
<1> QED BY <1>1, <1>2, <1>3 DEF TypeOK, AllTypes, NetType, ThreadType, CallType, CallPC

LEMMA Small == /\ 0 \in Id /\ NoMessage \in Message /\ EmptySlice \in Header
               /\ \A n \in Nat : n % Ids \in Id
<1>1. 0 \in Id
  BY IdsAssumption DEF Id
<1>2. NoMessage \in Message
  BY <1>1 DEF NoMessage, Message
<1>3. EmptySlice \in Header
  BY DEF EmptySlice, Header
<1>4. \A n \in Nat : n % Ids \in Id
  BY IdsAssumption DEF Id
<1> QED BY <1>1, <1>2, <1>3, <1>4

LEMMA ListenerType ==
    ASSUME NEW pc \in ListenPC, NEW s, s.arr \in Nat, s.len \in Nat,
           NEW at \in Nat \cup Calls \cup {None}
    PROVE  /\ Listener(pc, s, at) \in Listening
           /\ Listener(pc, s, at).pc = pc /\ Listener(pc, s, at).arr = s.arr
           /\ Listener(pc, s, at).len = s.len /\ Listener(pc, s, at).at = at
<1> DEFINE now == EmptySlice
           msg == NoMessage
<1>1. now \in Header /\ msg \in Message
  BY Small
<1>2. Listener(pc, s, at) = [pc |-> pc, arr |-> s.arr, len |-> s.len, at |-> at,
                             now |-> now, msg |-> msg]
  BY DEF Listener
<1> HIDE DEF now, msg
<1> QED BY <1>1, <1>2 DEF Listening

LEMMA EmptyGood == /\ EmptyHeap \in Heaps /\ Good(EmptyHeap, EmptySlice)
                   /\ EmptySlice.arr \in Nat /\ EmptySlice.len \in Nat
<1> DEFINE row == <<>>
<1>1. row \in Seq(Slot) /\ Len(row) = 0
  OBVIOUS
<1>2. EmptyHeap = <<row>>
  BY DEF EmptyHeap
<1> HIDE DEF row
<1>3. <<row>> \in Seq(Seq(Slot)) /\ Len(<<row>>) = 1 /\ <<row>>[1] = row
  BY <1>1
<1>4. EmptySlice.arr = 1 /\ EmptySlice.len = 0
  BY DEF EmptySlice
<1> QED BY <1>1, <1>2, <1>3, <1>4 DEF Heaps, Good

LEMMA TypeInit == Init => AllTypes
<1> SUFFICES ASSUME Init PROVE AllTypes
  OBVIOUS
<1>1. NetType
  BY Small, IdsAssumption DEF Init, NetType
<1>2. Listener("off", EmptySlice, 0) \in Listening /\ Listener("off", EmptySlice, 0).pc = "off"
  BY ListenerType, EmptyGood DEF ListenPC
<1>3. listen \in [Launchers -> Listening] /\ \A l \in Launchers : listen[l].pc = "off"
  BY <1>2 DEF Init
<1>4. call \in [Calls -> CallType] /\ \A p \in Calls : call[p].pc = "idle"
  <2> DEFINE got == NoMessage
             new == [pc |-> "idle", to |-> None, id |-> 0, got |-> got]
  <2>1. got \in Message
    BY Small
  <2> HIDE DEF got
  <2>2. new \in CallType /\ new.pc = "idle"
    BY <2>1, Small DEF CallType, CallPC
  <2> HIDE DEF new
  <2>3. call = [p \in Calls |-> new]
    BY DEF Init, new, got
  <2> QED BY <2>2, <2>3
<1>5. SliceType
  BY <1>3, EmptyGood, Small DEF Init, SliceType, InUse
<1> QED BY <1>1, <1>3, <1>4, <1>5 DEF AllTypes, ThreadType, ToType

(* What a step that touches one listener, or one call, leaves of the types.*)
LEMMA OneListener ==
    ASSUME ThreadType, SliceType, NEW l \in Launchers, NEW t \in Listening,
           listen' = [listen EXCEPT ![l] = t], call' = call,
           Grows(heap, heap'), Good(heap', launchers'), launchers' \in Header,
           InUse(heap', t)
    PROVE  ThreadType' /\ SliceType'
<1>1. ThreadType'
  BY DEF ThreadType
<1>2. ASSUME NEW k \in Launchers PROVE InUse(heap', listen'[k])
  <2>1. CASE k = l
    BY <2>1 DEF ThreadType
  <2>2. CASE k # l
    <3>1. listen'[k] = listen[k] /\ InUse(heap, listen[k])
      BY <2>2 DEF ThreadType, SliceType
    <3> QED BY <3>1 DEF InUse, Grows
  <2> QED BY <2>1, <2>2
<1> QED BY <1>1, <1>2 DEF SliceType, Grows

LEMMA SameHeap == SliceType => Grows(heap, heap) /\ Good(heap, launchers)
BY DEF SliceType, Grows

LEMMA Threads ==
    ASSUME AllTypes, NEW l \in Launchers
    PROVE  /\ listen[l] \in Listening /\ listen[l].arr \in Nat /\ listen[l].len \in Nat
           /\ listen[l].msg \in Message /\ listen[l].now \in Header
           /\ launchers \in Header /\ launchers.arr \in Nat /\ launchers.len \in Nat
           /\ inbox[l] \in Seq(Message) /\ remote[l] \subseteq Message
           /\ InUse(heap, listen[l]) /\ heap \in Heaps
BY DEF AllTypes, ThreadType, NetType, SliceType, Listening, Header

LEMMA StepSearch ==
    ASSUME AllTypes, NEW l \in Launchers, NEW s, NEW from \in Nat, from >= 1,
           Good(heap', s), s.arr \in Nat, s.len \in Nat, Search(l, heap', s, from),
           call' = call, Grows(heap, heap'), Good(heap', launchers'), launchers' \in Header
    PROVE  ThreadType' /\ SliceType'
<1>1. CASE listen' = [listen EXCEPT ![l] = Listener("ended", EmptySlice, 0)]
  <2> DEFINE t == Listener("ended", EmptySlice, 0)
  <2>1. t \in Listening /\ t.pc = "ended"
    BY ListenerType, EmptyGood DEF ListenPC
  <2>2. InUse(heap', t)
    BY <2>1 DEF InUse
  <2> HIDE DEF t
  <2> QED BY <1>1, <2>1, <2>2, OneListener DEF t, AllTypes
<1>2. ASSUME NEW i \in Places(heap', s, l, from),
             listen' = [listen EXCEPT ![l] = Listener("remove", s, i)]
      PROVE  ThreadType' /\ SliceType'
  <2> DEFINE t == Listener("remove", s, i)
  <2>1. i \in Nat /\ i \in 1..s.len
    BY <1>2 DEF Places
  <2>2. /\ t \in Listening /\ t.pc = "remove" /\ t.arr = s.arr /\ t.len = s.len
        /\ t.at = i
    BY <2>1, ListenerType DEF ListenPC
  <2> HIDE DEF t
  <2>3. InUse(heap', t)
    BY <2>1, <2>2 DEF InUse, Good
  <2> QED BY <1>2, <2>2, <2>3, OneListener DEF t, AllTypes
<1> QED BY <1>1, <1>2 DEF Search

LEMMA SameSlices ==
    ASSUME SliceType, UNCHANGED <<heap, launchers, listen>> PROVE SliceType'
BY DEF SliceType, InUse, Good

(* The process ends.                                                       *)
LEMMA TypeEnds ==
    ASSUME AllTypes, NEW how \in {"panic", "map"}, Ends(how) PROVE AllTypes'
<1> DEFINE t == Listener("ended", EmptySlice, 0)
<1>1. t \in Listening /\ t.pc = "ended"
  BY ListenerType, EmptyGood DEF ListenPC
<1>2. InUse(heap', t)
  BY <1>1 DEF InUse
<1>3. listen' = [l \in Launchers |-> t]
  BY DEF Ends
<1> HIDE DEF t
<1>4. ThreadType' /\ ToType'
  BY <1>1, <1>3 DEF Ends, AllTypes, ThreadType, ToType
<1>5. SliceType'
  BY <1>2, <1>3, EmptyGood, Small DEF Ends, SliceType
<1>6. NetType'
  <2> DEFINE none == [i \in Id |-> None]
             empty == <<>>
  <2>1. none \in [Id -> Calls \cup {None}] /\ empty \in Seq(Message)
    OBVIOUS
  <2>2. requests' = [l \in Launchers |-> none] /\ inbox' = [l \in Launchers |-> empty]
    BY DEF Ends
  <2> HIDE DEF none, empty
  <2> QED BY <2>1, <2>2, Small DEF Ends, AllTypes, NetType
<1> QED BY <1>4, <1>5, <1>6 DEF AllTypes

LEMMA TypeNet ==
    ASSUME AllTypes, NEW l \in Launchers, Answer(l) \/ Ask(l) \/ Disconnect(l)
    PROVE  AllTypes'
<1>1. UNCHANGED <<heap, launchers, listen, call>>
  BY DEF Answer, Ask, Disconnect, sliceVars
<1>2. SliceType' /\ ThreadType' /\ ToType'
  BY <1>1, SameSlices DEF AllTypes, ThreadType, ToType
<1>3. NetType'
  <2>1. CASE Answer(l)
    <3>1. PICK m \in remote[l] : /\ remote' = [remote EXCEPT ![l] = @ \ {m}]
                                 /\ inbox' = [inbox EXCEPT ![l] = Append(@, m)]
      BY <2>1 DEF Answer
    <3>2. m \in Message /\ inbox[l] \in Seq(Message)
      BY Threads
    <3> DEFINE box == Append(inbox[l], m)
               rest == remote[l] \ {m}
    <3>3. box \in Seq(Message) /\ rest \in SUBSET Message
      BY <3>2, Threads
    <3>4. remote' = [remote EXCEPT ![l] = rest] /\ inbox' = [inbox EXCEPT ![l] = box]
      BY <3>1
    <3> HIDE DEF box, rest
    <3> QED BY <2>1, <3>3, <3>4 DEF Answer, Alive, AllTypes, NetType
  <2>2. CASE Ask(l)
    <3> DEFINE m == [kind |-> "request", id |-> asks', for |-> None]
               box == Append(inbox[l], m)
    <3>1. asks' \in Id /\ asks' \in 0..MaxAsks
      BY <2>2, IdsAssumption DEF Ask, AllTypes, NetType, Id
    <3>2. m \in Message
      BY <3>1 DEF Message
    <3> HIDE DEF m
    <3>3. box \in Seq(Message)
      BY <3>2, Threads
    <3>4. inbox' = [inbox EXCEPT ![l] = box]
      BY <2>2 DEF Ask, m
    <3> HIDE DEF box
    <3> QED BY <2>2, <3>1, <3>3, <3>4 DEF Ask, Alive, AllTypes, NetType
  <2>3. CASE Disconnect(l)
    BY <2>3 DEF Disconnect, Alive, AllTypes, NetType
  <2> QED BY <2>1, <2>2, <2>3
<1> QED BY <1>2, <1>3 DEF AllTypes

LEMMA TypeListen ==
    ASSUME AllTypes, NEW l \in Launchers, Attach(l) \/ ListenStep(l)
    PROVE  AllTypes'
<1>1. CASE Attach(l)
  <2> DEFINE t == Listener("append", launchers, 0)
  <2>1. /\ t \in Listening /\ t.pc = "append" /\ t.arr = launchers.arr
        /\ t.len = launchers.len
    BY ListenerType, Threads DEF ListenPC
  <2> HIDE DEF t
  <2>2. InUse(heap, t)
    BY <2>1 DEF InUse, Good, AllTypes, SliceType
  <2>3. /\ UNCHANGED <<heap, launchers, call, counter, requests, remote, inbox, asks, torn,
                       crashed>>
        /\ listen' = [listen EXCEPT ![l] = t] /\ conn' = [conn EXCEPT ![l] = "up"]
    BY <1>1 DEF Attach, Alive, sliceVars, netVars, t
  <2>4. ThreadType' /\ SliceType'
    BY <2>1, <2>2, <2>3, SameHeap, OneListener, Threads DEF AllTypes
  <2>5. NetType' /\ ToType'
    BY <2>3 DEF AllTypes, NetType, ToType
  <2> QED BY <2>4, <2>5 DEF AllTypes
<1>2. CASE AppendLauncher(l)
  <2> DEFINE new == SliceAppend(heap, listen[l], l, None)
             t == Listener("read", EmptySlice, 0)
  <2>1. Good(heap, listen[l])
    BY <1>2, Threads DEF AppendLauncher, InUse
  <2>2. Grows(heap, new.heap) /\ Good(new.heap, new.slice)
    BY <2>1, AppendGood, Threads
  <2>3. new.slice \in Header
    <3>1. listen[l].len + 1 \in Nat /\ listen[l].arr \in Nat /\ Len(heap) + 1 \in Nat
      BY Threads, HeapTypes
    <3>2. \/ new.slice = [arr |-> listen[l].arr, len |-> listen[l].len + 1]
          \/ new.slice = [arr |-> Len(heap) + 1, len |-> listen[l].len + 1]
      BY DEF SliceAppend
    <3> HIDE DEF new
    <3> QED BY <3>1, <3>2 DEF Header
  <2>4. /\ heap' = new.heap /\ launchers' = new.slice
        /\ listen' = [listen EXCEPT ![l] = t]
        /\ UNCHANGED <<conn, counter, requests, call, remote, inbox, asks, torn, crashed>>
    BY <1>2 DEF AppendLauncher, Alive, netVars
  <2> HIDE DEF new
  <2>5. t \in Listening /\ t.pc = "read"
    BY ListenerType, EmptyGood DEF ListenPC
  <2> HIDE DEF t
  <2>6. InUse(heap', t)
    BY <2>5 DEF InUse
  <2>7. ThreadType' /\ SliceType'
    BY <2>2, <2>3, <2>4, <2>5, <2>6, OneListener DEF AllTypes
  <2>8. NetType' /\ ToType'
    BY <2>4 DEF AllTypes, NetType, ToType
  <2> QED BY <2>7, <2>8 DEF AllTypes
<1>3. CASE ListenRead(l)
  <2> DEFINE m == Head(inbox[l])
             to == requests[l][m.id]
             pc == IF to = None THEN "stuck" ELSE "deliver"
             t == [listen[l] EXCEPT !.pc = pc, !.msg = m, !.at = to]
             box == Tail(inbox[l])
  <2>1. m \in Message /\ box \in Seq(Message)
    BY <1>3, Threads DEF ListenRead
  <2>2. m.id \in Id
    BY <2>1 DEF Message
  <2>3. to \in Calls \cup {None}
    BY <2>2 DEF AllTypes, NetType
  <2>4. /\ listen' = [listen EXCEPT ![l] = t] /\ inbox' = [inbox EXCEPT ![l] = box]
        /\ UNCHANGED <<heap, launchers, conn, counter, requests, call, remote, asks,
                       torn, crashed>>
    BY <1>3 DEF ListenRead, Alive, sliceVars
  <2>5. pc \in {"stuck", "deliver"}
    OBVIOUS
  <2> HIDE DEF m, to, pc, box
  <2>6. t \in Listening /\ t.pc = pc
    BY <2>1, <2>3, <2>5, Threads DEF Listening, ListenPC
  <2> HIDE DEF t
  <2>7. InUse(heap, t)
    BY <2>5, <2>6 DEF InUse
  <2>8. ThreadType' /\ SliceType'
    BY <2>4, <2>6, <2>7, SameHeap, OneListener, Threads DEF AllTypes
  <2>9. NetType' /\ ToType'
    BY <2>1, <2>4 DEF AllTypes, NetType, ToType
  <2> QED BY <2>8, <2>9 DEF AllTypes
<1>4. CASE ListenDeliver(l)
  <2> DEFINE p == listen[l].at
             got == listen[l].msg
             x == [call[p] EXCEPT !.pc = "delete", !.got = got]
             t == Listener("read", EmptySlice, 0)
  <2>1. CASE Ends("panic")
    BY <2>1, TypeEnds
  <2>2. CASE ~ Ends("panic")
    <3>1. /\ call[p].pc = "wait" /\ call' = [call EXCEPT ![p] = x]
          /\ listen' = [listen EXCEPT ![l] = t]
          /\ UNCHANGED <<heap, launchers, conn, counter, requests, remote, inbox, asks,
                         torn, crashed>>
      BY <1>4, <2>2 DEF ListenDeliver, Alive, sliceVars, netVars
    <3>2. got \in Message
      BY Threads
    <3>3. t \in Listening /\ t.pc = "read"
      BY ListenerType, EmptyGood DEF ListenPC
    <3> HIDE DEF t, got
    <3>4. InUse(heap, t)
      BY <3>3 DEF InUse
    <3>5. call' \in [Calls -> CallType] /\ ToType'
      <4>1. CASE p \in Calls
        <5>1. call[p] \in CallType
          BY <4>1 DEF AllTypes, ThreadType
        <5>2. x \in CallType /\ x.to = call[p].to
          BY <3>2, <5>1 DEF CallType, CallPC
        <5> HIDE DEF x
        <5>3. call[p].to \in Launchers
          BY <3>1, <4>1 DEF AllTypes, ToType
        <5> QED BY <3>1, <4>1, <5>2, <5>3 DEF AllTypes, ThreadType, ToType
      <4>2. CASE p \notin Calls
        <5>1. call' = call
          BY <3>1, <4>2 DEF AllTypes, ThreadType
        <5> QED BY <5>1 DEF AllTypes, ThreadType, ToType
      <4> QED BY <4>1, <4>2
    <3>6. listen' \in [Launchers -> Listening] /\ \A k \in Launchers : InUse(heap, listen'[k])
      BY <3>1, <3>3, <3>4 DEF AllTypes, ThreadType, SliceType
    <3>7. SliceType'
      BY <3>1, <3>6 DEF AllTypes, SliceType
    <3>8. NetType'
      BY <3>1 DEF AllTypes, NetType
    <3> QED BY <3>5, <3>6, <3>7, <3>8 DEF AllTypes, ThreadType
  <2> QED BY <2>1, <2>2
<1>5. CASE ListenFails(l)
  <2>1. /\ Search(l, heap, launchers, 1)
        /\ UNCHANGED <<heap, launchers, conn, counter, requests, call, remote, inbox, asks,
                       torn, crashed>>
    BY <1>5 DEF ListenFails, Alive, sliceVars, netVars
  <2>2. Search(l, heap', launchers, 1)
    BY <2>1
  <2>3. ThreadType' /\ SliceType'
    BY <2>1, <2>2, SameHeap, StepSearch, Threads DEF AllTypes
  <2>4. NetType' /\ ToType'
    BY <2>1 DEF AllTypes, NetType, ToType
  <2> QED BY <2>3, <2>4 DEF AllTypes
<1>6. CASE ListenRemove(l)
  <2>1. CASE Ends("panic")
    BY <2>1, TypeEnds
  <2>2. CASE ~ Ends("panic")
    <3> DEFINE t == [listen[l] EXCEPT !.pc = "store", !.now = launchers]
    <3>1. listen[l].pc = "remove" /\ listen[l].at <= launchers.len /\ Takes(l)
      BY <1>6, <2>2 DEF ListenRemove
    <3>2. /\ listen' = [listen EXCEPT ![l] = t]
          /\ UNCHANGED <<heap, launchers, conn, counter, requests, call, remote, inbox, asks,
                         torn, crashed>>
      <4>1. listen' = [listen EXCEPT ![l].pc = "store", ![l].now = launchers]
        BY <3>1 DEF Takes
      <4>2. listen' = [listen EXCEPT ![l] = t]
        BY <4>1 DEF AllTypes, ThreadType
      <4> QED BY <3>1, <4>2 DEF Takes, Alive, sliceVars, netVars
    <3>3. /\ t \in Listening /\ t.pc = "store" /\ t.arr = listen[l].arr
          /\ t.len = listen[l].len /\ t.at = listen[l].at /\ t.now = launchers
      BY Threads DEF Listening, ListenPC
    <3> HIDE DEF t
    <3>4. Good(heap, listen[l]) /\ listen[l].at \in 1..listen[l].len
      BY <3>1, Threads DEF InUse
    <3>5. listen[l].at \in 1..launchers.len
      BY <3>1, <3>4, Threads
    <3>6. InUse(heap, t)
      BY <3>3, <3>4, <3>5 DEF InUse, Good, AllTypes, SliceType
    <3>7. ThreadType' /\ SliceType'
      BY <3>2, <3>3, <3>6, SameHeap, OneListener, Threads DEF AllTypes
    <3>8. NetType' /\ ToType'
      BY <3>2 DEF AllTypes, NetType, ToType
    <3> QED BY <3>7, <3>8 DEF AllTypes
  <2> QED BY <2>1, <2>2
<1>7. CASE ListenStore(l)
  <2> DEFINE s == listen[l].now
             at == listen[l].at
             new == SliceRemove(heap, s, at)
  <2>1. /\ Good(heap, s) /\ at \in 1..s.len /\ Good(heap, listen[l])
        /\ at \in 1..listen[l].len /\ s \in Header
    BY <1>7, Threads DEF ListenStore, InUse
  <2>2. Grows(heap, new.heap) /\ Good(new.heap, new.slice)
    BY <2>1, RemoveGood, Threads
  <2>3. new.slice \in Header
    <3>1. new.slice = [arr |-> s.arr, len |-> s.len - 1]
      BY DEF SliceRemove
    <3>2. s.arr \in Nat /\ s.len - 1 \in Nat
      BY <2>1 DEF Header
    <3> HIDE DEF new, s
    <3> QED BY <3>1, <3>2 DEF Header
  <2>4. /\ heap' = new.heap /\ launchers' = new.slice
        /\ Search(l, new.heap, listen[l], at + 1)
        /\ UNCHANGED <<conn, counter, requests, call, remote, inbox, asks, torn, crashed>>
    BY <1>7 DEF ListenStore, Alive, netVars
  <2> HIDE DEF new, s
  <2>5. Search(l, heap', listen[l], at + 1)
    BY <2>4
  <2>6. Good(heap', listen[l]) /\ at + 1 \in Nat /\ at + 1 >= 1
    BY <2>1, <2>2, <2>4 DEF Grows
  <2> HIDE DEF at
  <2>7. ThreadType' /\ SliceType'
    BY <2>2, <2>3, <2>4, <2>5, <2>6, StepSearch, Threads
  <2>8. NetType' /\ ToType'
    BY <2>4 DEF AllTypes, NetType, ToType
  <2> QED BY <2>7, <2>8 DEF AllTypes
<1> QED BY <1>1, <1>2, <1>3, <1>4, <1>5, <1>6, <1>7 DEF ListenStep

LEMMA OneCall ==
    ASSUME AllTypes, NEW p \in Calls, NEW x \in CallType,
           call' = [call EXCEPT ![p] = x], UNCHANGED <<heap, launchers, listen>>,
           x.pc \notin {"idle", "failed"} => x.to \in Launchers, NetType'
    PROVE  AllTypes'
<1>1. SliceType'
  BY SameSlices DEF AllTypes
<1>2. ThreadType' /\ ToType'
  BY DEF AllTypes, ThreadType, ToType
<1> QED BY <1>1, <1>2 DEF AllTypes

LEMMA CallFacts ==
    ASSUME AllTypes, NEW p \in Calls
    PROVE  /\ call[p] \in CallType /\ call[p].id \in Id /\ call[p].to \in Launchers \cup {None}
           /\ call[p].pc \notin {"idle", "failed"} => call[p].to \in Launchers
BY DEF AllTypes, ThreadType, ToType, CallType

LEMMA TypeGoes ==
    ASSUME AllTypes, NEW p \in Calls, NEW from \in CallPC, NEW to \in CallPC,
           from \notin {"idle", "failed"} \/ to = "failed", Goes(p, from, to),
           UNCHANGED <<heap, launchers, listen>>, NetType'
    PROVE  AllTypes'
<1> DEFINE x == [call[p] EXCEPT !.pc = to]
<1>1. call[p].pc = from /\ call' = [call EXCEPT ![p] = x]
  <2>1. call' = [call EXCEPT ![p].pc = to]
    BY DEF Goes
  <2>2. call' = [call EXCEPT ![p] = x]
    BY <2>1 DEF AllTypes, ThreadType
  <2> QED BY <2>2 DEF Goes
<1>2. x \in CallType /\ x.pc = to /\ x.to = call[p].to
  BY CallFacts DEF CallType
<1>3. x.pc \notin {"idle", "failed"} => x.to \in Launchers
  BY <1>1, <1>2, CallFacts
<1> HIDE DEF x
<1> QED BY <1>1, <1>2, <1>3, OneCall

LEMMA RequestType ==
    ASSUME AllTypes, NEW p \in Calls
    PROVE  /\ RequestOf(p) \in Message /\ RequestOf(p).kind = "response"
           /\ RequestOf(p).id = call[p].id /\ RequestOf(p).for = p
<1> DEFINE id == call[p].id
<1>1. id \in Id
  BY CallFacts
<1>2. RequestOf(p) = [kind |-> "response", id |-> id, for |-> p]
  BY DEF RequestOf
<1> HIDE DEF id
<1>3. [kind |-> "response", id |-> id, for |-> p] \in Message
  BY <1>1 DEF Message
<1> QED BY <1>2, <1>3 DEF id

LEMMA TypeArrives ==
    ASSUME AllTypes, NEW l \in Launchers \cup {None}, NEW q \in Calls, Arrives(l, q)
    PROVE  remote' \in [Launchers -> SUBSET Message]
<1> DEFINE m == RequestOf(q)
<1>1. m \in Message
  BY RequestType
<1>2. remote' = IF conn[l] = "up" THEN [remote EXCEPT ![l] = @ \cup {m}] ELSE remote
  BY DEF Arrives
<1> HIDE DEF m
<1> QED BY <1>1, <1>2 DEF AllTypes, NetType

LEMMA TypeCall ==
    ASSUME AllTypes, NEW p \in Calls, Pick(p) \/ CallStep(p)
    PROVE  AllTypes'
<1>1. CASE Pick(p)
  <2>0. /\ UNCHANGED <<heap, launchers, listen, conn, requests, remote, inbox, asks, torn,
                       crashed>>
        /\ call[p].pc = "idle"
    BY <1>1 DEF Pick, Alive, sliceVars, netVars
  <2>1. CASE launchers.len = 0
    <3>1. Goes(p, "idle", "failed") /\ UNCHANGED counter
      BY <1>1, <2>1 DEF Pick
    <3>2. NetType'
      BY <2>0, <3>1 DEF AllTypes, NetType
    <3> QED BY <2>0, <3>1, <3>2, TypeGoes DEF CallPC
  <2>2. CASE launchers.len # 0
    <3> DEFINE l == At(heap, launchers, 1)
               x == [call[p] EXCEPT !.pc = "send", !.to = l]
               n == (counter[l] + 1) % Ids
    <3>1. l \in Launchers
      <4>1. 1 \in 1..launchers.len
        BY <2>2, Small DEF AllTypes, SliceType, Header
      <4> QED BY <4>1 DEF AllTypes, SliceType, Good, At
    <3>2. call' = [call EXCEPT ![p] = x] /\ counter' = [counter EXCEPT ![l] = n]
      <4>1. /\ call' = [call EXCEPT ![p].pc = "send", ![p].to = l]
            /\ counter' = [counter EXCEPT ![l] = (@ + 1) % Ids]
        BY <1>1, <2>2 DEF Pick
      <4> HIDE DEF l
      <4>2. call' = [call EXCEPT ![p] = x]
        BY <4>1 DEF AllTypes, ThreadType
      <4> QED BY <4>1, <4>2
    <3> HIDE DEF l
    <3>3. x \in CallType /\ x.to \in Launchers
      BY <3>1, CallFacts DEF CallType, CallPC
    <3>4. n \in Id
      <4>1. counter[l] \in Id
        BY <3>1 DEF AllTypes, NetType
      <4>2. counter[l] + 1 \in Nat
        BY <4>1, IdsAssumption DEF Id
      <4> QED BY <4>2, Small
    <3> HIDE DEF n, x
    <3>5. NetType'
      BY <2>0, <3>2, <3>4 DEF AllTypes, NetType
    <3> QED BY <2>0, <3>2, <3>3, <3>5, OneCall
  <2> QED BY <2>1, <2>2
<1>2. CASE Send(p)
  <2> DEFINE l == call[p].to
             id == counter[l]
             x == [call[p] EXCEPT !.pc = "write", !.id = id]
  <2>1. /\ UNCHANGED <<heap, launchers, listen, conn, counter, requests, remote, inbox, asks,
                       crashed>>
        /\ call[p].pc = "send" /\ call' = [call EXCEPT ![p].pc = "write", ![p].id = id]
        /\ torn' = IF Writing(l) = {} THEN torn ELSE torn \cup Writing(l) \cup {p}
    BY <1>2 DEF Send, Alive, sliceVars
  <2>2. l \in Launchers /\ id \in Id
    BY <2>1, CallFacts DEF AllTypes, NetType
  <2>3. torn' \subseteq Calls
    <3>1. Writing(l) \subseteq Calls
      BY DEF Writing
    <3> QED BY <2>1, <3>1 DEF AllTypes, NetType
  <2>4. NetType'
    BY <2>1, <2>3 DEF AllTypes, NetType
  <2> HIDE DEF id
  <2>5. x \in CallType /\ x.to = l
    BY <2>2, CallFacts DEF CallType, CallPC
  <2>6. call' = [call EXCEPT ![p] = x]
    BY <2>1 DEF AllTypes, ThreadType
  <2> HIDE DEF x
  <2> QED BY <2>1, <2>2, <2>4, <2>5, <2>6, OneCall
<1>3. CASE Write(p)
  <2>1. /\ UNCHANGED <<heap, launchers, listen, conn, counter, requests, inbox, asks, torn,
                       crashed>>
        /\ Goes(p, "write", "register") \/ Goes(p, "write", "failed")
        /\ \/ UNCHANGED remote
           \/ \E q \in Calls : Arrives(call[p].to, q)
    BY <1>3 DEF Write, Alive, sliceVars, AllTypes, NetType
  <2>2. remote' \in [Launchers -> SUBSET Message]
    <3>1. CASE UNCHANGED remote
      BY <3>1 DEF AllTypes, NetType
    <3>2. CASE \E q \in Calls : Arrives(call[p].to, q)
      BY <3>2, TypeArrives, CallFacts
    <3> QED BY <2>1, <3>1, <3>2
  <2>3. NetType'
    BY <2>1, <2>2 DEF AllTypes, NetType
  <2> QED BY <2>1, <2>3, TypeGoes DEF CallPC
<1>4. ASSUME NEW from \in {"register", "delete"}, NEW to \in {"wait", "done"},
             NEW y \in Calls \cup {None}, Goes(p, from, to),
             requests' = [requests EXCEPT ![call[p].to][call[p].id] = y],
             UNCHANGED <<heap, launchers, conn, listen, counter, netVars>>, Alive
      PROVE  AllTypes'
  <2>1. requests' \in [Launchers -> [Id -> Calls \cup {None}]]
    BY <1>4, CallFacts DEF AllTypes, NetType
  <2>2. NetType'
    BY <1>4, <2>1 DEF AllTypes, NetType, netVars, Alive
  <2> QED BY <1>4, <2>2, TypeGoes DEF CallPC
<1>5. CASE Register(p)
  BY <1>4, <1>5 DEF Register, sliceVars
<1>6. CASE Delete(p)
  BY <1>4, <1>6 DEF Delete, sliceVars
<1> QED BY <1>1, <1>2, <1>3, <1>5, <1>6 DEF CallStep

LEMMA TypeStep == AllTypes /\ [Next]_vars => AllTypes'
<1> SUFFICES ASSUME AllTypes, [Next]_vars PROVE AllTypes'
  OBVIOUS
<1>1. CASE UNCHANGED vars
  <2>1. UNCHANGED <<heap, launchers, listen, call, conn, counter, requests, remote, inbox,
                    asks, torn, crashed>>
    BY <1>1 DEF vars
  <2> QED BY <2>1, SameSlices DEF AllTypes, ThreadType, ToType, NetType
<1>2. ASSUME NEW l \in Launchers, MapRace(l) PROVE AllTypes'
  BY <1>2, TypeEnds DEF MapRace
<1>3. CASE Next
  BY <1>2, <1>3, TypeNet, TypeListen, TypeCall DEF Next
<1> QED BY <1>1, <1>3

(* Every index, id and slice the code uses is in range, however its steps  *)
(* fall: no header of a slice, even a stale one, comes to a slot that no   *)
(* launcher has been stored in, and every call past Pick has a launcher.   *)
THEOREM TypeCorrect == Spec => []TypeOK
<1>1. Init => AllTypes
  BY TypeInit
<1>2. AllTypes /\ [Next]_vars => AllTypes'
  BY TypeStep
<1>3. AllTypes => TypeOK
  BY AllTypesOK
<1> QED BY <1>1, <1>2, <1>3, PTL DEF Spec
-----------------------------------------------------------------------------
(* Where an answer may be, and whose it is.  What a call has asked, of     *)
(* whom and under which id, never changes once it is sent.                 *)
Holds(q, l, i)  == q \in Calls /\ Sent(q) /\ call[q].to = l /\ call[q].id = i
AnswerTo(l, m)  == m.kind = "response" => Holds(m.for, l, m.id)
Answers(q, l, m) == Holds(q, l, m.id) /\ AnswerTo(l, m)
Box(s) == {s[i] : i \in 1..Len(s)}

Flying == \A l \in Launchers, m \in Message :
              m \in remote[l] \/ m \in Box(inbox[l]) => AnswerTo(l, m)
Mapped == \A l \in Launchers, i \in Id, q \in Calls :
              requests[l][i] = q => Holds(q, l, i)
Handed == \A l \in Launchers : listen[l].pc = "deliver" =>
              /\ listen[l].at \in Calls
              /\ \A q \in Calls, m \in Message :
                    q = listen[l].at /\ m = listen[l].msg => Answers(q, l, m)
Gotten == \A p \in Calls, l \in Launchers, m \in Message :
              call[p].pc \in {"delete", "done"} /\ call[p].to = l /\ call[p].got = m
              => Answers(p, l, m)
TornSent == \A q \in torn : q \in Calls /\ Sent(q)

AnswerInv == Flying /\ Mapped /\ Handed /\ Gotten /\ TornSent

Keeps == \A q \in Calls : Sent(q) => /\ Sent(q)' /\ call'[q].to = call[q].to
                                     /\ call'[q].id = call[q].id

LEMMA Boxes ==
    ASSUME NEW s \in Seq(Message), NEW m \in Message
    PROVE  /\ Box(Append(s, m)) = Box(s) \cup {m}
           /\ s # <<>> => Head(s) \in Box(s) /\ Box(Tail(s)) \subseteq Box(s)
<1>1. Box(Append(s, m)) = Box(s) \cup {m}
  <2>1. /\ Len(s) \in Nat /\ Len(Append(s, m)) = Len(s) + 1
        /\ Append(s, m)[Len(s) + 1] = m
        /\ \A i \in 1..Len(s) : Append(s, m)[i] = s[i]
    OBVIOUS
  <2> DEFINE n == Len(s)
             t == Append(s, m)
  <2>2. n \in Nat /\ Len(t) = n + 1 /\ t[n + 1] = m /\ \A i \in 1..n : t[i] = s[i]
    BY <2>1
  <2> HIDE DEF n, t
  <2>3. \A i \in 1..(n + 1) : i \in 1..n \/ i = n + 1
    BY <2>2
  <2>4. \A i \in 1..n : i \in 1..(n + 1)
    BY <2>2
  <2>5. n + 1 \in 1..(n + 1)
    BY <2>2
  <2>6. Box(t) = {t[i] : i \in 1..(n + 1)} /\ Box(s) = {s[i] : i \in 1..n}
    BY <2>2 DEF Box, n
  <2>7. Box(t) = Box(s) \cup {m}
    BY <2>2, <2>3, <2>4, <2>5, <2>6
  <2> QED BY <2>7 DEF t
<1>2. ASSUME s # <<>>
      PROVE  Head(s) \in Box(s) /\ Box(Tail(s)) \subseteq Box(s)
  <2>1. /\ Len(s) \in Nat /\ Len(s) >= 1 /\ Head(s) = s[1] /\ Len(Tail(s)) = Len(s) - 1
        /\ \A i \in 1..(Len(s) - 1) : Tail(s)[i] = s[i + 1]
    BY <1>2
  <2>2. 1 \in 1..Len(s) /\ \A i \in 1..(Len(s) - 1) : i + 1 \in 1..Len(s)
    BY <2>1
  <2> QED BY <2>1, <2>2 DEF Box
<1> QED BY <1>1, <1>2

LEMMA Stay ==
    ASSUME Keeps, NEW l, NEW m
    PROVE  /\ \A q, i : Holds(q, l, i) => Holds(q, l, i)'
           /\ AnswerTo(l, m) => AnswerTo(l, m)'
           /\ \A q : Answers(q, l, m) => Answers(q, l, m)'
<1>1. \A q, i : Holds(q, l, i) => Holds(q, l, i)'
  BY DEF Keeps, Holds
<1>2. AnswerTo(l, m) => AnswerTo(l, m)'
  <2>1. Holds(m.for, l, m.id) => Holds(m.for, l, m.id)'
    BY <1>1
  <2> QED BY <2>1 DEF AnswerTo
<1>3. \A q : Answers(q, l, m) => Answers(q, l, m)'
  BY <1>1, <1>2 DEF Answers
<1> QED BY <1>1, <1>2, <1>3

(* One call moves on and keeps, once it is sent, whom it asks what.        *)
LEMMA OneKeeps ==
    ASSUME AllTypes, NEW p \in Calls, NEW x,
           call' = [call EXCEPT ![p] = x],
           Sent(p) => x.pc \notin {"idle", "send"} /\ x.to = call[p].to /\ x.id = call[p].id
    PROVE  Keeps
<1>1. call' [p] = x /\ \A q \in Calls : q # p => call'[q] = call[q]
  BY DEF AllTypes, ThreadType
<1>2. ASSUME NEW q \in Calls, Sent(q)
      PROVE  Sent(q)' /\ call'[q].to = call[q].to /\ call'[q].id = call[q].id
  <2>1. CASE q = p
    BY <1>1, <1>2, <2>1 DEF Sent
  <2>2. CASE q # p
    BY <1>1, <1>2, <2>2 DEF Sent
  <2> QED BY <2>1, <2>2
<1> QED BY <1>2 DEF Keeps

LEMMA SameKeeps == call' = call => Keeps
BY DEF Keeps, Sent
LEMMA OneGoes ==
    ASSUME AllTypes, NEW p \in Calls, NEW from, NEW to, Goes(p, from, to)
    PROVE  /\ call' = [call EXCEPT ![p] = [call[p] EXCEPT !.pc = to]]
           /\ call[p].pc = from
           /\ call'[p].pc = to /\ call'[p].to = call[p].to /\ call'[p].id = call[p].id
           /\ call'[p].got = call[p].got
           /\ \A q \in Calls : q # p => call'[q] = call[q]
           /\ from \notin {"idle", "send"} /\ to \notin {"idle", "send"} => Keeps
<1> DEFINE x == [call[p] EXCEPT !.pc = to]
<1>1. call[p] \in CallType
  BY CallFacts
<1>2. x.pc = to /\ x.to = call[p].to /\ x.id = call[p].id /\ x.got = call[p].got
  BY <1>1 DEF CallType
<1>3. call' = [call EXCEPT ![p].pc = to] /\ call[p].pc = from
  BY DEF Goes
<1>4. call' = [call EXCEPT ![p] = x]
  BY <1>3 DEF AllTypes, ThreadType
<1> HIDE DEF x
<1>5. call'[p] = x /\ \A q \in Calls : q # p => call'[q] = call[q]
  BY <1>4 DEF AllTypes, ThreadType
<1>6. from \notin {"idle", "send"} /\ to \notin {"idle", "send"} => Keeps
  BY <1>2, <1>3, <1>4, OneKeeps
<1>7. /\ call' = [call EXCEPT ![p] = x] /\ call[p].pc = from
      /\ call'[p].pc = to /\ call'[p].to = call[p].to /\ call'[p].id = call[p].id
      /\ call'[p].got = call[p].got
  BY <1>2, <1>3, <1>4, <1>5
<1> QED BY <1>5, <1>6, <1>7 DEF x

(* The launcher, and the sockets.                                          *)
LEMMA AnswerNet ==
    ASSUME AllTypes, AnswerInv, NEW l \in Launchers, Answer(l) \/ Ask(l) \/ Disconnect(l)
    PROVE  AnswerInv'
<1>1. UNCHANGED <<listen, call, requests, torn>>
  BY DEF Answer, Ask, Disconnect
<1>2. Keeps
  BY <1>1, SameKeeps
<1>3. Mapped' /\ Handed' /\ Gotten' /\ TornSent'
  <2>1. Mapped'
    BY <1>1, <1>2, Stay DEF AnswerInv, Mapped
  <2>2. Handed'
    BY <1>1, <1>2, Stay DEF AnswerInv, Handed
  <2>3. Gotten'
    BY <1>1, <1>2, Stay DEF AnswerInv, Gotten
  <2>4. TornSent'
    BY <1>1 DEF AnswerInv, TornSent, Sent
  <2> QED BY <2>1, <2>2, <2>3, <2>4
<1>4. ASSUME NEW k \in Launchers, NEW m \in Message, m \in remote'[k] \/ m \in Box(inbox'[k])
      PROVE  AnswerTo(k, m)
  <2>1. CASE Answer(l)
    <3>1. PICK x \in remote[l] : /\ remote' = [remote EXCEPT ![l] = @ \ {x}]
                                 /\ inbox' = [inbox EXCEPT ![l] = Append(@, x)]
      BY <2>1 DEF Answer
    <3>2. x \in Message /\ inbox[l] \in Seq(Message)
      BY Threads
    <3>3. /\ remote'[k] \subseteq remote[k]
          /\ k # l => inbox'[k] = inbox[k]
          /\ k = l => inbox'[k] = Append(inbox[k], x)
      BY <3>1 DEF AllTypes, NetType
    <3>4. m \in remote[k] \/ m \in Box(inbox[k]) \/ (k = l /\ m = x)
      <4>1. CASE k = l
        <5>1. Box(inbox'[k]) = Box(inbox[k]) \cup {x}
          BY <3>2, <3>3, <4>1, Boxes, Threads
        <5> QED BY <1>4, <3>3, <4>1, <5>1
      <4>2. CASE k # l
        BY <1>4, <3>3, <4>2
      <4> QED BY <4>1, <4>2
    <3>5. m \in remote[k] \/ m \in Box(inbox[k])
      BY <3>4
    <3> QED BY <3>5 DEF AnswerInv, Flying
  <2>2. CASE Ask(l)
    <3> DEFINE x == [kind |-> "request", id |-> asks', for |-> None]
    <3>1. inbox' = [inbox EXCEPT ![l] = Append(@, x)] /\ remote' = remote
      BY <2>2 DEF Ask
    <3>2. asks' \in Id
      BY <2>2, IdsAssumption DEF Ask, AllTypes, NetType, Id
    <3>3. x \in Message /\ x.kind = "request"
      BY <3>2 DEF Message
    <3> HIDE DEF x
    <3>4. (k # l => inbox'[k] = inbox[k]) /\ (k = l => inbox'[k] = Append(inbox[k], x))
      BY <3>1 DEF AllTypes, NetType
    <3>5. m \in remote[k] \/ m \in Box(inbox[k]) \/ m = x
      <4>1. CASE k = l
        BY <1>4, <3>1, <3>3, <3>4, <4>1, Boxes, Threads
      <4>2. CASE k # l
        BY <1>4, <3>1, <3>4, <4>2
      <4> QED BY <4>1, <4>2
    <3> QED BY <3>3, <3>5 DEF AnswerInv, Flying, AnswerTo
  <2>3. CASE Disconnect(l)
    <3>1. inbox' = inbox /\ remote'[k] \subseteq remote[k]
      BY <2>3 DEF Disconnect, AllTypes, NetType
    <3>2. m \in remote[k] \/ m \in Box(inbox[k])
      BY <1>4, <3>1
    <3> QED BY <3>2 DEF AnswerInv, Flying
  <2> QED BY <2>1, <2>2, <2>3
<1>5. Flying'
  <2>1. ASSUME NEW k \in Launchers, NEW m \in Message,
               m \in remote'[k] \/ m \in Box(inbox'[k])
        PROVE  AnswerTo(k, m)'
    BY <1>2, <1>4, <2>1, Stay
  <2>2. \A k \in Launchers : Box(inbox[k])' = Box(inbox'[k])
    BY DEF Box
  <2> QED BY <2>1, <2>2 DEF Flying
<1> QED BY <1>3, <1>5 DEF AnswerInv

(* The parts of the invariant a step leaves alone.                         *)
LEMMA FlyingStays ==
    ASSUME Keeps, Flying, UNCHANGED <<remote, inbox>> PROVE Flying'
<1>1. ASSUME NEW k \in Launchers, NEW m \in Message, m \in remote[k] \/ m \in Box(inbox[k])
      PROVE  AnswerTo(k, m)'
  <2>1. AnswerTo(k, m)
    BY <1>1 DEF Flying
  <2> QED BY <2>1, Stay
<1>2. \A k \in Launchers : Box(inbox[k])' = Box(inbox[k]) /\ remote'[k] = remote[k]
  BY DEF Box
<1> QED BY <1>1, <1>2 DEF Flying

LEMMA OthersStay ==
    ASSUME Keeps
    PROVE  /\ Mapped /\ UNCHANGED requests => Mapped'
           /\ Gotten /\ UNCHANGED call => Gotten'
           /\ Handed /\ UNCHANGED listen => Handed'
           /\ TornSent /\ UNCHANGED torn => TornSent'
<1>1. ASSUME Mapped, UNCHANGED requests PROVE Mapped'
  BY <1>1, Stay DEF Mapped
<1>2. ASSUME Gotten, UNCHANGED call PROVE Gotten'
  BY <1>2, Stay DEF Gotten
<1>3. ASSUME Handed, UNCHANGED listen PROVE Handed'
  BY <1>3, Stay DEF Handed
<1>4. ASSUME TornSent, UNCHANGED torn PROVE TornSent'
  BY <1>4 DEF TornSent, Keeps
<1> QED BY <1>1, <1>2, <1>3, <1>4

LEMMA HandedStays ==
    ASSUME AllTypes, Keeps, Handed, NEW l \in Launchers, NEW t,
           listen' = [listen EXCEPT ![l] = t], t.pc # "deliver"
    PROVE  Handed'
<1>1. ASSUME NEW k \in Launchers, listen'[k].pc = "deliver"
      PROVE  /\ listen'[k].at \in Calls
             /\ \A q \in Calls, m \in Message :
                   q = listen'[k].at /\ m = listen'[k].msg => Answers(q, k, m)'
  <2>1. k # l
    BY <1>1 DEF AllTypes, ThreadType
  <2>2. listen'[k] = listen[k]
    BY <2>1 DEF AllTypes, ThreadType
  <2>3. listen[k].pc = "deliver"
    BY <1>1, <2>2
  <2>4. /\ listen[k].at \in Calls
        /\ \A q \in Calls, m \in Message :
              q = listen[k].at /\ m = listen[k].msg => Answers(q, k, m)
    BY <2>3 DEF Handed
  <2> QED BY <2>2, <2>4, Stay
<1> QED BY <1>1 DEF Handed

LEMMA AnswerEnds ==
    ASSUME AllTypes, AnswerInv, NEW how, Ends(how) PROVE AnswerInv'
<1>1. Keeps
  BY SameKeeps DEF Ends
<1>2. Gotten' /\ TornSent'
  BY <1>1, OthersStay DEF Ends, AnswerInv
<1>3. Mapped'
  <2>1. \A l \in Launchers, i \in Id : requests'[l][i] = None
    BY DEF Ends
  <2> QED BY <2>1, NoneAssumption DEF Mapped
<1>4. Handed'
  <2>1. Listener("ended", EmptySlice, 0).pc = "ended"
    BY ListenerType, EmptyGood DEF ListenPC
  <2>2. \A l \in Launchers : listen'[l].pc = "ended"
    BY <2>1 DEF Ends
  <2> QED BY <2>2 DEF Handed
<1>5. Flying'
  <2> DEFINE empty == <<>>
  <2>1. Len(empty) = 0
    OBVIOUS
  <2>2. \A l \in Launchers : inbox'[l] = empty /\ remote'[l] = {}
    BY DEF Ends
  <2> HIDE DEF empty
  <2>3. \A l \in Launchers : Box(inbox[l])' = {}
    BY <2>1, <2>2 DEF Box
  <2> QED BY <2>2, <2>3 DEF Flying
<1> QED BY <1>2, <1>3, <1>4, <1>5 DEF AnswerInv

LEMMA AnswerListen ==
    ASSUME AllTypes, AnswerInv, NEW l \in Launchers, Attach(l) \/ ListenStep(l)
    PROVE  AnswerInv'
<1>1. ASSUME NEW t, listen' = [listen EXCEPT ![l] = t], t.pc # "deliver",
             UNCHANGED <<requests, call, remote, inbox, torn>>
      PROVE  AnswerInv'
  <2>1. Keeps
    BY <1>1, SameKeeps
  <2> QED BY <1>1, <2>1, FlyingStays, OthersStay, HandedStays DEF AnswerInv
<1>2. CASE Attach(l)
  <2> DEFINE t == Listener("append", launchers, 0)
  <2>1. t.pc = "append"
    BY DEF Listener
  <2>2. listen' = [listen EXCEPT ![l] = t] /\ UNCHANGED <<requests, call, remote, inbox, torn>>
    BY <1>2 DEF Attach, netVars
  <2> HIDE DEF t
  <2> QED BY <1>1, <2>1, <2>2
<1>3. CASE AppendLauncher(l)
  <2> DEFINE t == Listener("read", EmptySlice, 0)
  <2>1. t.pc = "read"
    BY DEF Listener
  <2>2. listen' = [listen EXCEPT ![l] = t] /\ UNCHANGED <<requests, call, remote, inbox, torn>>
    BY <1>3 DEF AppendLauncher, netVars
  <2> HIDE DEF t
  <2> QED BY <1>1, <2>1, <2>2
<1>4. ASSUME NEW hp, NEW s, NEW from, Search(l, hp, s, from),
             UNCHANGED <<requests, call, remote, inbox, torn>>
      PROVE  AnswerInv'
  <2>1. PICK t : listen' = [listen EXCEPT ![l] = t] /\ t.pc # "deliver"
    <3>1. CASE listen' = [listen EXCEPT ![l] = Listener("ended", EmptySlice, 0)]
      <4>1. Listener("ended", EmptySlice, 0).pc # "deliver"
        BY DEF Listener
      <4> QED BY <3>1, <4>1
    <3>2. ASSUME NEW i, listen' = [listen EXCEPT ![l] = Listener("remove", s, i)]
          PROVE  \E t : listen' = [listen EXCEPT ![l] = t] /\ t.pc # "deliver"
      <4>1. Listener("remove", s, i).pc # "deliver"
        BY DEF Listener
      <4> QED BY <3>2, <4>1
    <3> QED BY <1>4, <3>1, <3>2 DEF Search
  <2> QED BY <1>1, <1>4, <2>1
<1>5. CASE ListenRead(l)
  <2>0. PICK x, to : x = Head(inbox[l]) /\ to = requests[l][x.id]
    OBVIOUS
  <2> DEFINE pc == IF to = None THEN "stuck" ELSE "deliver"
             t == [listen[l] EXCEPT !.pc = pc, !.msg = x, !.at = to]
             box == Tail(inbox[l])
  <2>1. x \in Message /\ x \in Box(inbox[l]) /\ Box(box) \subseteq Box(inbox[l])
    BY <1>5, <2>0, Threads, Boxes DEF ListenRead
  <2>2. x.id \in Id
    BY <2>1 DEF Message
  <2>3. to \in Calls \cup {None} /\ (pc = "deliver" => to \in Calls)
    BY <2>0, <2>2 DEF AllTypes, NetType
  <2>4. /\ listen' = [listen EXCEPT ![l] = t] /\ inbox' = [inbox EXCEPT ![l] = box]
        /\ UNCHANGED <<requests, call, remote, torn>>
    BY <1>5, <2>0 DEF ListenRead
  <2>5. pc = "deliver" => Answers(to, l, x)
    <3>1. AnswerTo(l, x)
      BY <2>1 DEF AnswerInv, Flying
    <3>2. \A q \in Calls : to = q => Holds(q, l, x.id)
      BY <2>0, <2>2 DEF AnswerInv, Mapped
    <3> QED BY <2>3, <3>1, <3>2 DEF Answers
  <2>6. Keeps
    BY <2>4, SameKeeps
  <2>7. Mapped' /\ Gotten' /\ TornSent'
    BY <2>4, <2>6, OthersStay DEF AnswerInv
  <2> HIDE DEF pc, box
  <2>8. t.pc = pc /\ t.msg = x /\ t.at = to
    BY Threads DEF Listening
  <2> HIDE DEF t
  <2>9. Handed'
    <3>1. CASE pc # "deliver"
      BY <2>4, <2>6, <2>8, <3>1, HandedStays DEF AnswerInv
    <3>2. CASE pc = "deliver"
      <4>1. ASSUME NEW k \in Launchers, listen'[k].pc = "deliver"
            PROVE  /\ listen'[k].at \in Calls
                   /\ \A q \in Calls, m \in Message :
                         q = listen'[k].at /\ m = listen'[k].msg => Answers(q, k, m)'
        <5>1. CASE k = l
          <6>1. listen'[k] = t
            BY <2>4, <5>1 DEF AllTypes, ThreadType
          <6>2. Answers(to, l, x)'
            BY <2>5, <2>6, <3>2, Stay
          <6> QED BY <2>3, <2>8, <3>2, <5>1, <6>1, <6>2
        <5>2. CASE k # l
          <6>1. listen'[k] = listen[k]
            BY <2>4, <5>2 DEF AllTypes, ThreadType
          <6>2. /\ listen[k].at \in Calls
                /\ \A q \in Calls, m \in Message :
                      q = listen[k].at /\ m = listen[k].msg => Answers(q, k, m)
            BY <4>1, <6>1 DEF AnswerInv, Handed
          <6> QED BY <2>6, <6>1, <6>2, Stay
        <5> QED BY <5>1, <5>2
      <4> QED BY <4>1 DEF Handed
    <3> QED BY <3>1, <3>2
  <2>10. Flying'
    <3>1. ASSUME NEW k \in Launchers, NEW m \in Message,
                 m \in remote'[k] \/ m \in Box(inbox'[k])
          PROVE  AnswerTo(k, m)'
      <4>1. inbox'[k] = IF k = l THEN box ELSE inbox[k]
        BY <2>4 DEF AllTypes, NetType
      <4>2. Box(inbox'[k]) \subseteq Box(inbox[k])
        <5>1. CASE k = l
          BY <2>1, <4>1, <5>1
        <5>2. CASE k # l
          BY <4>1, <5>2
        <5> QED BY <5>1, <5>2
      <4>3. AnswerTo(k, m)
        BY <2>4, <3>1, <4>2 DEF AnswerInv, Flying
      <4> QED BY <2>6, <4>3, Stay
    <3>2. \A k \in Launchers : Box(inbox[k])' = Box(inbox'[k])
      BY DEF Box
    <3> QED BY <3>1, <3>2 DEF Flying
  <2> QED BY <2>7, <2>9, <2>10 DEF AnswerInv
<1>6. CASE ListenFails(l)
  BY <1>4, <1>6 DEF ListenFails, netVars
<1>7. CASE ListenRemove(l)
  <2>1. CASE Ends("panic")
    BY <2>1, AnswerEnds
  <2>2. CASE ~ Ends("panic")
    <3> DEFINE t == [listen[l] EXCEPT !.pc = "store", !.now = launchers]
    <3>1. Takes(l)
      BY <1>7, <2>2 DEF ListenRemove
    <3>2. listen' = [listen EXCEPT ![l].pc = "store", ![l].now = launchers]
      BY <3>1 DEF Takes
    <3>3. listen' = [listen EXCEPT ![l] = t]
      BY <3>2 DEF AllTypes, ThreadType
    <3>4. t.pc # "deliver"
      BY Threads DEF Listening
    <3> HIDE DEF t
    <3>5. UNCHANGED <<requests, call, remote, inbox, torn>>
      BY <3>1 DEF Takes, netVars
    <3> QED BY <1>1, <3>3, <3>4, <3>5
  <2> QED BY <2>1, <2>2
<1>8. CASE ListenStore(l)
  <2> DEFINE new == SliceRemove(heap, listen[l].now, listen[l].at)
  <2>1. /\ Search(l, new.heap, listen[l], listen[l].at + 1)
        /\ UNCHANGED <<requests, call, remote, inbox, torn>>
    BY <1>8 DEF ListenStore, netVars
  <2> HIDE DEF new
  <2> QED BY <1>4, <2>1
<1>9. CASE ListenDeliver(l)
  <2>1. CASE Ends("panic")
    BY <2>1, AnswerEnds
  <2>2. CASE ~ Ends("panic")
    <3>0. PICK p, got : p = listen[l].at /\ got = listen[l].msg
      OBVIOUS
    <3> DEFINE x == [call[p] EXCEPT !.pc = "delete", !.got = got]
               t == Listener("read", EmptySlice, 0)
    <3>1. /\ call[p].pc = "wait" /\ call' = [call EXCEPT ![p] = x]
          /\ listen' = [listen EXCEPT ![l] = t]
          /\ UNCHANGED <<requests, remote, inbox, torn>>
      BY <1>9, <2>2, <3>0 DEF ListenDeliver, netVars
    <3>2. p \in Calls /\ got \in Message /\ Answers(p, l, got)
      BY <1>9, <3>0, Threads DEF ListenDeliver, AnswerInv, Handed
    <3>3. t.pc = "read"
      BY DEF Listener
    <3>4. call[p] \in CallType
      BY <3>2, CallFacts
    <3> HIDE DEF t
    <3>5. x.pc = "delete" /\ x.to = call[p].to /\ x.id = call[p].id /\ x.got = got
      BY <3>4 DEF CallType
    <3> HIDE DEF x
    <3>6. Keeps
      BY <3>1, <3>2, <3>5, OneKeeps
    <3>7. Flying' /\ Mapped' /\ Handed' /\ TornSent'
      BY <3>1, <3>3, <3>6, FlyingStays, OthersStay, HandedStays DEF AnswerInv
    <3>8. call'[p] = x /\ \A q \in Calls : q # p => call'[q] = call[q]
      BY <3>1, <3>2 DEF AllTypes, ThreadType
    <3>9. ASSUME NEW q \in Calls, NEW k \in Launchers, NEW m \in Message,
                 call'[q].pc \in {"delete", "done"}, call'[q].to = k, call'[q].got = m
          PROVE  Answers(q, k, m)'
      <4>1. CASE q = p
        <5>1. call[p].to = l
          BY <3>2 DEF Answers, Holds
        <5>2. k = l /\ m = got
          BY <3>5, <3>8, <3>9, <4>1, <5>1
        <5>3. Answers(p, l, got)'
          BY <3>2, <3>6, Stay
        <5> QED BY <4>1, <5>2, <5>3
      <4>2. CASE q # p
        <5>1. call'[q] = call[q]
          BY <3>8, <4>2
        <5>2. Answers(q, k, m)
          BY <3>9, <5>1 DEF AnswerInv, Gotten
        <5> QED BY <3>6, <5>2, Stay
      <4> QED BY <4>1, <4>2
    <3>10. Gotten'
      BY <3>9 DEF Gotten
    <3> QED BY <3>7, <3>10 DEF AnswerInv
  <2> QED BY <2>1, <2>2
<1> QED BY <1>2, <1>3, <1>5, <1>6, <1>7, <1>8, <1>9 DEF ListenStep

(* A call takes a step and is not at an answer before it and after it.     *)
LEMMA GottenStays ==
    ASSUME Keeps, Gotten, NEW p \in Calls, \A q \in Calls : q # p => call'[q] = call[q],
           call'[p].pc \notin {"delete", "done"}
    PROVE  Gotten'
<1>1. ASSUME NEW q \in Calls, NEW k \in Launchers, NEW m \in Message,
             call'[q].pc \in {"delete", "done"}, call'[q].to = k, call'[q].got = m
      PROVE  Answers(q, k, m)'
  <2>1. call'[q] = call[q]
    BY <1>1
  <2>2. Answers(q, k, m)
    BY <1>1, <2>1 DEF Gotten
  <2> QED BY <2>2, Stay
<1> QED BY <1>1 DEF Gotten

LEMMA MappedSets ==
    ASSUME AllTypes, Keeps, Mapped, NEW p \in Calls, NEW l \in Launchers, NEW i \in Id,
           NEW y \in Calls \cup {None}, requests' = [requests EXCEPT ![l][i] = y],
           y \in Calls => Holds(y, l, i)
    PROVE  Mapped'
<1>1. ASSUME NEW k \in Launchers, NEW j \in Id, NEW q \in Calls, requests'[k][j] = q
      PROVE  Holds(q, k, j)'
  <2>1. \/ k = l /\ j = i /\ q = y
        \/ requests[k][j] = q
    BY <1>1 DEF AllTypes, NetType
  <2>2. Holds(q, k, j)
    BY <2>1 DEF Mapped
  <2> QED BY <2>2, Stay
<1> QED BY <1>1 DEF Mapped

LEMMA FlyingArrives ==
    ASSUME AllTypes, AnswerInv, Keeps, NEW l \in Launchers, NEW q \in Calls, Sent(q),
           call[q].to = l, Arrives(l, q), UNCHANGED inbox
    PROVE  Flying'
<1>0. PICK x : x = RequestOf(q)
  OBVIOUS
<1>1. x \in Message /\ x.id = call[q].id /\ x.for = q
  BY <1>0, RequestType
<1>2. AnswerTo(l, x)
  BY <1>1 DEF AnswerTo, Holds
<1>3. remote' = IF conn[l] = "up" THEN [remote EXCEPT ![l] = @ \cup {x}] ELSE remote
  BY <1>0 DEF Arrives
<1>4. ASSUME NEW k \in Launchers, NEW m \in Message, m \in remote'[k] \/ m \in Box(inbox[k])
      PROVE  AnswerTo(k, m)'
  <2>1. m \in remote[k] \/ m \in Box(inbox[k]) \/ (k = l /\ m = x)
    BY <1>3, <1>4 DEF AllTypes, NetType
  <2>2. AnswerTo(k, m)
    BY <1>2, <2>1 DEF AnswerInv, Flying
  <2> QED BY <2>2, Stay
<1>5. \A k \in Launchers : Box(inbox[k])' = Box(inbox[k])
  BY DEF Box
<1> QED BY <1>4, <1>5 DEF Flying

LEMMA SentWhere ==
    ASSUME AllTypes, NEW p \in Calls, call[p].pc \notin {"idle", "send", "failed"}
    PROVE  call[p].to \in Launchers /\ call[p].id \in Id /\ Sent(p)
BY CallFacts, NoneAssumption DEF Sent

LEMMA AnswerCall ==
    ASSUME AllTypes, AnswerInv, NEW p \in Calls, Pick(p) \/ CallStep(p)
    PROVE  AnswerInv'
<1>1. ASSUME NEW x, call' = [call EXCEPT ![p] = x], call[p].pc \in {"idle", "send"},
             x.pc \notin {"delete", "done"},
             UNCHANGED <<listen, requests, remote, inbox>>,
             \A q \in torn' : q \in torn \/ (q \in Calls /\ Sent(q)')
      PROVE  AnswerInv'
  <2>1. ~ Sent(p)
    BY <1>1 DEF Sent
  <2>2. Keeps
    BY <1>1, <2>1, OneKeeps
  <2>3. call'[p] = x /\ \A q \in Calls : q # p => call'[q] = call[q]
    BY <1>1 DEF AllTypes, ThreadType
  <2>4. Gotten'
    BY <1>1, <2>2, <2>3, GottenStays DEF AnswerInv
  <2>5. TornSent'
    BY <1>1, <2>2 DEF AnswerInv, TornSent, Keeps
  <2> QED BY <1>1, <2>2, <2>4, <2>5, FlyingStays, OthersStay DEF AnswerInv
<1>2. CASE Pick(p)
  <2>0. /\ UNCHANGED <<listen, requests, remote, inbox, torn>> /\ call[p].pc = "idle"
    BY <1>2 DEF Pick, netVars
  <2>1. CASE launchers.len = 0
    <3> DEFINE x == [call[p] EXCEPT !.pc = "failed"]
    <3>1. Goes(p, "idle", "failed")
      BY <1>2, <2>1 DEF Pick
    <3>2. call' = [call EXCEPT ![p] = x]
      BY <3>1, OneGoes
    <3>3. x.pc = "failed"
      BY CallFacts DEF CallType
    <3> HIDE DEF x
    <3> QED BY <1>1, <2>0, <3>2, <3>3
  <2>2. CASE launchers.len # 0
    <3>0. PICK l : l = At(heap, launchers, 1)
      OBVIOUS
    <3> DEFINE x == [call[p] EXCEPT !.pc = "send", !.to = l]
    <3>1. call' = [call EXCEPT ![p].pc = "send", ![p].to = l]
      BY <1>2, <2>2, <3>0 DEF Pick
    <3>2. call' = [call EXCEPT ![p] = x]
      BY <3>1 DEF AllTypes, ThreadType
    <3>3. x.pc = "send"
      BY CallFacts DEF CallType
    <3> HIDE DEF x
    <3> QED BY <1>1, <2>0, <3>2, <3>3
  <2> QED BY <2>1, <2>2
<1>3. CASE Send(p)
  <2>0. PICK l, id : l = call[p].to /\ id = counter[l]
    OBVIOUS
  <2> DEFINE x == [call[p] EXCEPT !.pc = "write", !.id = id]
  <2>1. /\ UNCHANGED <<listen, requests, remote, inbox>> /\ call[p].pc = "send"
        /\ call' = [call EXCEPT ![p].pc = "write", ![p].id = id]
        /\ torn' = IF Writing(l) = {} THEN torn ELSE torn \cup Writing(l) \cup {p}
    BY <1>3, <2>0 DEF Send
  <2>2. call' = [call EXCEPT ![p] = x]
    BY <2>1 DEF AllTypes, ThreadType
  <2>3. x.pc = "write" /\ x.to = l /\ l \in Launchers
    BY <2>0, <2>1, CallFacts DEF CallType
  <2> HIDE DEF x
  <2>4. call'[p] = x /\ \A q \in Calls : q # p => call'[q] = call[q]
    BY <2>2 DEF AllTypes, ThreadType
  <2>5. ASSUME NEW q \in torn' PROVE q \in torn \/ (q \in Calls /\ Sent(q)')
    <3>1. CASE q = p
      <4>1. Sent(p)'
        BY <2>3, <2>4, NoneAssumption DEF Sent
      <4> QED BY <3>1, <4>1
    <3>2. CASE q # p /\ q \notin torn
      <4>1. q \in Writing(l)
        BY <2>1, <2>5, <3>2
      <4>2. q \in Calls /\ call[q].pc = "write" /\ call[q].to = l
        BY <4>1 DEF Writing
      <4>3. Sent(q)'
        BY <2>3, <2>4, <3>2, <4>2, NoneAssumption DEF Sent
      <4> QED BY <4>2, <4>3
    <3> QED BY <3>1, <3>2
  <2> QED BY <1>1, <2>1, <2>2, <2>3, <2>5
<1>4. CASE Write(p)
  <2>0. /\ UNCHANGED <<listen, requests, inbox, torn>>
        /\ Goes(p, "write", "register") \/ Goes(p, "write", "failed")
    BY <1>4 DEF Write
  <2>1. /\ Keeps /\ call[p].pc = "write" /\ \A q \in Calls : q # p => call'[q] = call[q]
        /\ call'[p].pc \in {"register", "failed"}
    BY <2>0, OneGoes
  <2>2. Gotten'
    BY <2>1, GottenStays DEF AnswerInv
  <2>3. Flying'
    <3>1. call[p].to \in Launchers /\ Sent(p)
      BY <2>1, SentWhere
    <3>2. CASE UNCHANGED remote
      BY <2>0, <2>1, <3>2, FlyingStays DEF AnswerInv
    <3>3. CASE Arrives(call[p].to, p)
      BY <2>0, <2>1, <3>1, <3>3, FlyingArrives
    <3>4. ASSUME NEW q \in torn, call[q].to = call[p].to, Arrives(call[p].to, q)
          PROVE  Flying'
      <4>1. q \in Calls /\ Sent(q)
        BY <3>4 DEF AnswerInv, TornSent
      <4> QED BY <2>0, <2>1, <3>1, <3>4, <4>1, FlyingArrives
    <3> QED BY <1>4, <3>2, <3>3, <3>4 DEF Write
  <2> QED BY <2>0, <2>1, <2>2, <2>3, OthersStay DEF AnswerInv
<1>5. CASE Register(p)
  <2>1. /\ Goes(p, "register", "wait")
        /\ requests' = [requests EXCEPT ![call[p].to][call[p].id] = p]
        /\ UNCHANGED <<listen, remote, inbox, torn>>
    BY <1>5 DEF Register, netVars
  <2>2. /\ Keeps /\ call[p].pc = "register" /\ \A q \in Calls : q # p => call'[q] = call[q]
        /\ call'[p].pc = "wait"
    BY <2>1, OneGoes
  <2>3. call[p].to \in Launchers /\ call[p].id \in Id /\ Sent(p)
    BY <2>2, SentWhere
  <2>4. Holds(p, call[p].to, call[p].id)
    BY <2>3 DEF Holds
  <2>5. Mapped'
    BY <2>1, <2>2, <2>3, <2>4, MappedSets DEF AnswerInv
  <2>6. Gotten'
    BY <2>2, GottenStays DEF AnswerInv
  <2> QED BY <2>1, <2>2, <2>5, <2>6, FlyingStays, OthersStay DEF AnswerInv
<1>6. CASE Delete(p)
  <2>1. /\ Goes(p, "delete", "done")
        /\ requests' = [requests EXCEPT ![call[p].to][call[p].id] = None]
        /\ UNCHANGED <<listen, remote, inbox, torn>>
    BY <1>6 DEF Delete, netVars
  <2>2. /\ Keeps /\ call[p].pc = "delete" /\ \A q \in Calls : q # p => call'[q] = call[q]
        /\ call'[p].to = call[p].to /\ call'[p].got = call[p].got
    BY <2>1, OneGoes
  <2>3. call[p].to \in Launchers /\ call[p].id \in Id
    BY <2>2, SentWhere
  <2>4. Mapped'
    BY <2>1, <2>2, <2>3, NoneAssumption, MappedSets DEF AnswerInv
  <2>5. ASSUME NEW q \in Calls, NEW k \in Launchers, NEW m \in Message,
               call'[q].pc \in {"delete", "done"}, call'[q].to = k, call'[q].got = m
        PROVE  Answers(q, k, m)'
    <3>1. call[q].pc \in {"delete", "done"} /\ call[q].to = k /\ call[q].got = m
      BY <2>2, <2>5
    <3>2. Answers(q, k, m)
      BY <3>1 DEF AnswerInv, Gotten
    <3> QED BY <2>2, <3>2, Stay
  <2>6. Gotten'
    BY <2>5 DEF Gotten
  <2> QED BY <2>1, <2>2, <2>4, <2>6, FlyingStays, OthersStay DEF AnswerInv
<1> QED BY <1>2, <1>3, <1>4, <1>5, <1>6 DEF CallStep

LEMMA AnswerInit == Init => AnswerInv
<1> SUFFICES ASSUME Init PROVE AnswerInv
  OBVIOUS
<1>1. Flying
  <2> DEFINE empty == <<>>
  <2>1. Len(empty) = 0
    OBVIOUS
  <2>2. \A l \in Launchers : inbox[l] = empty /\ remote[l] = {}
    BY DEF Init
  <2> HIDE DEF empty
  <2>3. \A l \in Launchers : Box(inbox[l]) = {}
    BY <2>1, <2>2 DEF Box
  <2> QED BY <2>2, <2>3 DEF Flying
<1>2. Mapped
  BY NoneAssumption DEF Init, Mapped
<1>3. Handed
  <2>1. Listener("off", EmptySlice, 0).pc = "off"
    BY DEF Listener
  <2> QED BY <2>1 DEF Init, Handed
<1>4. Gotten /\ TornSent
  BY DEF Init, Gotten, TornSent
<1> QED BY <1>1, <1>2, <1>3, <1>4 DEF AnswerInv

LEMMA AnswerStep == AllTypes /\ AnswerInv /\ [Next]_vars => AnswerInv'
<1> SUFFICES ASSUME AllTypes, AnswerInv, [Next]_vars PROVE AnswerInv'
  OBVIOUS
<1>1. CASE UNCHANGED vars
  <2>1. UNCHANGED <<listen, call, requests, remote, inbox, torn>>
    BY <1>1 DEF vars, netVars
  <2> QED BY <2>1, SameKeeps, FlyingStays, OthersStay DEF AnswerInv
<1>2. ASSUME NEW l \in Launchers, MapRace(l) PROVE AnswerInv'
  BY <1>2, AnswerEnds DEF MapRace
<1>3. CASE Next
  BY <1>2, <1>3, AnswerNet, AnswerListen, AnswerCall DEF Next
<1> QED BY <1>1, <1>3

LEMMA AnswerInvOK == AllTypes /\ AnswerInv => OwnAnswer
<1> SUFFICES ASSUME AllTypes, AnswerInv, NEW p \in Calls,
                    call[p].pc \in {"delete", "done"}, call[p].got.kind = "response",
                    ~ SharesId(p)
             PROVE  call[p].got.for = p
  BY DEF OwnAnswer
<1>0. PICK l, m : l = call[p].to /\ m = call[p].got
  OBVIOUS
<1>1. l \in Launchers /\ Sent(p) /\ m \in Message
  BY <1>0, SentWhere, CallFacts DEF CallType
<1>2. Answers(p, l, m)
  BY <1>0, <1>1 DEF AnswerInv, Gotten
<1>3. /\ m.for \in Calls /\ Sent(m.for) /\ call[m.for].to = l
      /\ call[m.for].id = m.id /\ call[p].id = m.id
  BY <1>0, <1>2 DEF Answers, AnswerTo, Holds
<1> QED BY <1>0, <1>1, <1>3 DEF SharesId

(* A call that has got a launcher's response has got the one to its own    *)
(* request, unless another call of the launcher has taken the same id: no  *)
(* order of writes, answers, departures and launchers' own requests, and   *)
(* no overlapped write, hands it another's.                                *)
THEOREM OwnAnswers == Spec => []OwnAnswer
<1>1. Init => AllTypes /\ AnswerInv
  BY TypeInit, AnswerInit
<1>2. AllTypes /\ AnswerInv /\ [Next]_vars => (AllTypes /\ AnswerInv)'
  BY TypeStep, AnswerStep
<1>3. AllTypes /\ AnswerInv => OwnAnswer
  BY AnswerInvOK
<1> QED BY <1>1, <1>2, <1>3, PTL DEF Spec

-----------------------------------------------------------------------------
(* What a call that shares no id, whose write met no other, of a launcher  *)
(* that asks nothing, has on its way: r is what the launcher has not       *)
(* answered, s its inbox, t its listener, c the call p.                    *)
OutNone(r, p) == \A m \in r : m.for # p
OutOne(r, p)  == \A m, n \in r : m.for = p /\ n.for = p => m = n
InNone(s, p)  == \A i \in 1..Len(s) : s[i].for # p
InOne(s, p)   == \A i, j \in 1..Len(s) : s[i].for = p /\ s[j].for = p => i = j
Hand(t, p)    == t.pc = "deliver" /\ t.msg.for = p

Once(r, s, t, p) == /\ OutOne(r, p) /\ InOne(s, p)
                    /\ OutNone(r, p) \/ InNone(s, p)
                    /\ Hand(t, p) => OutNone(r, p) /\ InNone(s, p)
Nothing(r, s, t, p) == OutNone(r, p) /\ InNone(s, p) /\ ~ Hand(t, p)
Waits(c, l) == c.pc \in {"register", "wait"} /\ c.to = l
Single(r, s, t, c, l, p) == Once(r, s, t, p) /\ (Waits(c, l) \/ Nothing(r, s, t, p))

Clean(p) == asks = 0 /\ p \notin torn /\ ~ SharesId(p)
OnceInv  == \A l \in Launchers, p \in Calls :
                Clean(p) => Single(remote[l], inbox[l], listen[l], call[p], l, p)

(* Every message is an answer, unless a launcher asks.                     *)
Plain(s) == \A i \in 1..Len(s) : s[i].kind = "response"
NoAsk == asks = 0 => \A l \in Launchers :
             /\ \A m \in remote[l] : m.kind = "response"
             /\ Plain(inbox[l])
             /\ listen[l].pc = "deliver" => listen[l].msg.kind = "response"

(* A write that another has overlapped was not its launcher's only one.    *)
TornTwo == \A q \in torn : \E r \in Calls \ {q} : Sent(r) /\ call[r].to = call[q].to

SoleInv == OnceInv /\ NoAsk /\ TornTwo

LEMMA AppendIn ==
    ASSUME NEW s \in Seq(Message), NEW m \in Message, NEW p
    PROVE  LET t == Append(s, m) IN
           /\ m.for # p /\ InNone(s, p) => InNone(t, p)
           /\ m.for # p /\ InOne(s, p) => InOne(t, p)
           /\ m.for = p /\ InNone(s, p) => InOne(t, p)
           /\ m.kind = "response" /\ Plain(s) => Plain(t)
<1> DEFINE t == Append(s, m)
<1>1. /\ Len(s) \in Nat /\ Len(t) = Len(s) + 1 /\ t[Len(s) + 1] = m
      /\ \A i \in 1..Len(s) : t[i] = s[i]
  OBVIOUS
<1> HIDE DEF t
<1>2. \A i \in 1..Len(t) : i \in 1..Len(s) \/ i = Len(s) + 1
  BY <1>1
<1>3. m.for # p /\ InNone(s, p) => InNone(t, p)
  BY <1>1, <1>2 DEF InNone
<1>4. m.for # p /\ InOne(s, p) => InOne(t, p)
  BY <1>1, <1>2 DEF InOne
<1>5. m.for = p /\ InNone(s, p) => InOne(t, p)
  BY <1>1, <1>2 DEF InOne, InNone
<1>6. m.kind = "response" /\ Plain(s) => Plain(t)
  BY <1>1, <1>2 DEF Plain
<1> QED BY <1>3, <1>4, <1>5, <1>6 DEF t

LEMMA TailIn ==
    ASSUME NEW s \in Seq(Message), s # <<>>, NEW p
    PROVE  /\ InNone(s, p) => Head(s).for # p /\ InNone(Tail(s), p)
           /\ InOne(s, p) => InOne(Tail(s), p)
           /\ InOne(s, p) /\ Head(s).for = p => InNone(Tail(s), p)
           /\ Plain(s) => Head(s).kind = "response" /\ Plain(Tail(s))
<1> DEFINE t == Tail(s)
<1>1. /\ Len(s) \in Nat /\ Len(s) >= 1 /\ Head(s) = s[1] /\ Len(t) = Len(s) - 1
      /\ \A i \in 1..(Len(s) - 1) : t[i] = s[i + 1]
  OBVIOUS
<1> HIDE DEF t
<1>2. /\ 1 \in 1..Len(s)
      /\ \A i \in 1..Len(t) : i + 1 \in 1..Len(s) /\ i + 1 # 1 /\ t[i] = s[i + 1]
      /\ \A i, j \in 1..Len(t) : i + 1 = j + 1 => i = j
  BY <1>1
<1>3. InNone(s, p) => Head(s).for # p /\ InNone(t, p)
  BY <1>1, <1>2 DEF InNone
<1>4. InOne(s, p) => InOne(t, p)
  <2> SUFFICES ASSUME InOne(s, p), NEW i \in 1..Len(t), NEW j \in 1..Len(t),
                      t[i].for = p, t[j].for = p
               PROVE  i = j
    BY DEF InOne
  <2>1. i + 1 \in 1..Len(s) /\ j + 1 \in 1..Len(s) /\ t[i] = s[i + 1] /\ t[j] = s[j + 1]
    BY <1>2
  <2>2. i + 1 = j + 1
    BY <2>1 DEF InOne
  <2> QED BY <1>2, <2>2
<1>5. InOne(s, p) /\ Head(s).for = p => InNone(t, p)
  BY <1>1, <1>2 DEF InOne, InNone
<1>6. Plain(s) => Head(s).kind = "response" /\ Plain(t)
  BY <1>1, <1>2 DEF Plain
<1> QED BY <1>3, <1>4, <1>5, <1>6 DEF t

(* A call that is clean after a step was so before it.                     *)
Grown == Keeps /\ torn \subseteq torn' /\ (asks' = 0 => asks = 0)

LEMMA CleanStays ==
    ASSUME Grown, NEW p \in Calls, Clean(p)' PROVE Clean(p)
<1>1. asks' = 0 /\ p \notin torn' /\ ~ SharesId(p)'
  BY DEF Clean
<1>2. SharesId(p) => SharesId(p)'
  <2> SUFFICES ASSUME NEW q \in Calls \ {p}, Sent(p), Sent(q), call[q].to = call[p].to,
                      call[q].id = call[p].id
               PROVE  SharesId(p)'
    BY DEF SharesId
  <2>1. /\ Sent(p)' /\ Sent(q)' /\ call'[p].to = call[p].to /\ call'[q].to = call[q].to
        /\ call'[p].id = call[p].id /\ call'[q].id = call[q].id
    BY DEF Grown, Keeps
  <2> QED BY <2>1 DEF SharesId
<1> QED BY <1>1, <1>2 DEF Clean, Grown

LEMMA OnceStep ==
    ASSUME OnceInv, Grown,
           \A l \in Launchers, p \in Calls :
              /\ Clean(p) /\ Clean(p)'
              /\ Single(remote[l], inbox[l], listen[l], call[p], l, p)
              => Single(remote'[l], inbox'[l], listen'[l], call'[p], l, p)
    PROVE  OnceInv'
<1>1. ASSUME NEW l \in Launchers, NEW p \in Calls, Clean(p)'
      PROVE  Single(remote[l], inbox[l], listen[l], call[p], l, p)'
  <2>1. Clean(p)
    BY <1>1, CleanStays
  <2>2. Single(remote'[l], inbox'[l], listen'[l], call'[p], l, p)
    BY <1>1, <2>1 DEF OnceInv
  <2> QED BY <2>2 DEF Single, Once, Nothing, Waits, OutOne, OutNone, InOne, InNone, Hand
<1> QED BY <1>1 DEF OnceInv

LEMMA TornStays ==
    ASSUME AnswerInv, TornTwo, Keeps, UNCHANGED torn PROVE TornTwo'
<1>1. ASSUME NEW q \in torn
      PROVE  \E r \in Calls \ {q} : Sent(r)' /\ call'[r].to = call'[q].to
  <2>1. q \in Calls /\ Sent(q)
    BY DEF AnswerInv, TornSent
  <2>2. PICK r \in Calls \ {q} : Sent(r) /\ call[r].to = call[q].to
    BY DEF TornTwo
  <2> QED BY <2>1, <2>2 DEF Keeps
<1> QED BY <1>1 DEF TornTwo

(* A step of a listener, to t, that takes no message.                      *)
LEMMA SoleListens ==
    ASSUME AllTypes, AnswerInv, SoleInv, NEW l \in Launchers, NEW t,
           listen' = [listen EXCEPT ![l] = t], t.pc # "deliver",
           UNCHANGED <<call, remote, inbox, asks, torn>>
    PROVE  SoleInv'
<1>1. Grown
  BY SameKeeps DEF Grown
<1>2. \A k \in Launchers : listen'[k] = listen[k] \/ listen'[k].pc # "deliver"
  BY DEF AllTypes, ThreadType
<1>3. OnceInv'
  <2>1. ASSUME NEW k \in Launchers, NEW p \in Calls,
               Single(remote[k], inbox[k], listen[k], call[p], k, p)
        PROVE  Single(remote'[k], inbox'[k], listen'[k], call'[p], k, p)
    BY <1>2, <2>1 DEF Single, Once, Nothing, Hand
  <2> QED BY <1>1, <2>1, OnceStep DEF SoleInv
<1>4. NoAsk'
  BY <1>2 DEF SoleInv, NoAsk, Plain
<1>5. TornTwo'
  BY <1>1, TornStays DEF SoleInv, Grown
<1> QED BY <1>3, <1>4, <1>5 DEF SoleInv

LEMMA SoleEnds ==
    ASSUME AllTypes, AnswerInv, SoleInv, NEW how, Ends(how) PROVE SoleInv'
<1> DEFINE empty == <<>>
<1>1. Len(empty) = 0
  OBVIOUS
<1>2. Listener("ended", EmptySlice, 0).pc = "ended"
  BY DEF Listener
<1>3. /\ \A l \in Launchers : listen'[l].pc = "ended" /\ inbox'[l] = empty /\ remote'[l] = {}
      /\ UNCHANGED <<call, asks, torn>>
  BY <1>2 DEF Ends
<1> HIDE DEF empty
<1>4. Grown
  BY <1>3, SameKeeps DEF Grown
<1>5. \A l \in Launchers, p \in Calls :
          Single(remote'[l], inbox'[l], listen'[l], call'[p], l, p)
  BY <1>1, <1>3 DEF Single, Once, Nothing, OutOne, OutNone, InOne, InNone, Hand
<1>6. OnceInv'
  BY <1>4, <1>5, OnceStep DEF SoleInv
<1>7. NoAsk'
  BY <1>1, <1>3 DEF NoAsk, Plain
<1>8. TornTwo'
  BY <1>3, <1>4, TornStays DEF SoleInv, Grown
<1> QED BY <1>6, <1>7, <1>8 DEF SoleInv

(* The launcher.                                                           *)
LEMMA SoleNet ==
    ASSUME AllTypes, AnswerInv, SoleInv, NEW l \in Launchers,
           Answer(l) \/ Ask(l) \/ Disconnect(l)
    PROVE  SoleInv'
<1>1. UNCHANGED <<listen, call, torn>> /\ Keeps
  BY SameKeeps DEF Answer, Ask, Disconnect
<1>2. TornTwo'
  BY <1>1, TornStays DEF SoleInv
<1>3. CASE Answer(l)
  <2>1. PICK x \in remote[l] : /\ remote' = [remote EXCEPT ![l] = @ \ {x}]
                               /\ inbox' = [inbox EXCEPT ![l] = Append(@, x)]
                               /\ asks' = asks
    BY <1>3 DEF Answer
  <2>2. x \in Message /\ inbox[l] \in Seq(Message)
    BY Threads
  <2>3. /\ remote'[l] = remote[l] \ {x} /\ inbox'[l] = Append(inbox[l], x)
        /\ \A k \in Launchers : k # l => remote'[k] = remote[k] /\ inbox'[k] = inbox[k]
    BY <2>1 DEF AllTypes, NetType
  <2>4. ASSUME NEW k \in Launchers, NEW p \in Calls,
               Single(remote[k], inbox[k], listen[k], call[p], k, p)
        PROVE  Single(remote'[k], inbox'[k], listen'[k], call'[p], k, p)
    <3>1. CASE k # l
      BY <1>1, <2>3, <2>4, <3>1
    <3>2. CASE k = l
      <4>0. PICK r, s, s1, t, c : /\ r = remote[l] /\ s = inbox[l] /\ t = listen[l]
                                  /\ c = call[p] /\ s1 = Append(s, x)
        OBVIOUS
      <4>1. Once(r, s, t, p) /\ (Waits(c, l) \/ Nothing(r, s, t, p)) /\ x \in r
        BY <2>4, <3>2, <4>0 DEF Single
      <4>2. OutOne(r \ {x}, p) /\ (OutNone(r, p) => OutNone(r \ {x}, p))
        BY <4>1 DEF Once, OutOne, OutNone
      <4>3. CASE x.for = p
        <5>1. ~ OutNone(r, p) /\ OutNone(r \ {x}, p)
          BY <4>1, <4>3 DEF Once, OutOne, OutNone
        <5>2. InNone(s, p) /\ ~ Hand(t, p)
          BY <4>1, <5>1 DEF Once
        <5>3. InOne(s1, p)
          BY <2>2, <4>0, <4>3, <5>2, AppendIn
        <5>4. Single(r \ {x}, s1, t, c, l, p)
          BY <4>1, <4>2, <5>1, <5>2, <5>3 DEF Single, Once, Nothing
        <5> QED BY <1>1, <2>3, <3>2, <4>0, <5>4
      <4>4. CASE x.for # p
        <5>1. (InNone(s, p) => InNone(s1, p)) /\ (InOne(s, p) => InOne(s1, p))
          BY <2>2, <4>0, <4>4, AppendIn
        <5>2. Single(r \ {x}, s1, t, c, l, p)
          BY <4>1, <4>2, <5>1 DEF Single, Once, Nothing
        <5> QED BY <1>1, <2>3, <3>2, <4>0, <5>2
      <4> QED BY <4>3, <4>4
    <3> QED BY <3>1, <3>2
  <2>5. OnceInv'
    BY <1>1, <2>1, <2>4, OnceStep DEF SoleInv, Grown
  <2>6. NoAsk'
    <3> SUFFICES ASSUME asks = 0, NEW k \in Launchers
                 PROVE  /\ \A m \in remote'[k] : m.kind = "response"
                        /\ Plain(inbox'[k])
                        /\ listen[k].pc = "deliver" => listen[k].msg.kind = "response"
      BY <1>1, <2>1 DEF NoAsk, Plain
    <3>1. /\ \A m \in remote[k] : m.kind = "response"
          /\ Plain(inbox[k])
          /\ listen[k].pc = "deliver" => listen[k].msg.kind = "response"
      BY DEF SoleInv, NoAsk
    <3>2. CASE k # l
      BY <2>3, <3>1, <3>2
    <3>3. CASE k = l
      BY <2>2, <2>3, <3>1, <3>3, AppendIn
    <3> QED BY <3>2, <3>3
  <2> QED BY <1>2, <2>5, <2>6 DEF SoleInv
<1>4. CASE Ask(l)
  <2>1. asks' # 0 /\ asks' = asks + 1
    BY <1>4 DEF Ask, AllTypes, NetType
  <2> QED BY <1>2, <2>1 DEF SoleInv, OnceInv, NoAsk, Clean
<1>5. CASE Disconnect(l)
  <2>1. inbox' = inbox /\ asks' = asks /\ \A k \in Launchers : remote'[k] \subseteq remote[k]
    BY <1>5 DEF Disconnect, AllTypes, NetType
  <2>2. ASSUME NEW k \in Launchers, NEW p \in Calls,
               Single(remote[k], inbox[k], listen[k], call[p], k, p)
        PROVE  Single(remote'[k], inbox'[k], listen'[k], call'[p], k, p)
    <3>1. /\ OutOne(remote[k], p) => OutOne(remote'[k], p)
          /\ OutNone(remote[k], p) => OutNone(remote'[k], p)
      BY <2>1 DEF OutOne, OutNone
    <3> QED BY <1>1, <2>1, <2>2, <3>1 DEF Single, Once, Nothing
  <2>3. OnceInv'
    BY <1>1, <2>1, <2>2, OnceStep DEF SoleInv, Grown
  <2>4. NoAsk'
    BY <1>1, <2>1 DEF SoleInv, NoAsk, Plain
  <2> QED BY <1>2, <2>3, <2>4 DEF SoleInv
<1> QED BY <1>3, <1>4, <1>5

(* What is handed to a clean call is the answer to its own request.        *)
LEMMA OwnHand ==
    ASSUME AllTypes, AnswerInv, SoleInv, NEW l \in Launchers, listen[l].pc = "deliver",
           NEW p, p = listen[l].at, Clean(p)
    PROVE  p \in Calls /\ call[p].to = l /\ Hand(listen[l], p)
<1>1. PICK m : m = listen[l].msg
  OBVIOUS
<1>2. m \in Message /\ p \in Calls /\ Answers(p, l, m)
  BY <1>1, Threads DEF AnswerInv, Handed
<1>3. m.kind = "response"
  BY <1>1 DEF SoleInv, NoAsk, Clean
<1>4. Holds(p, l, m.id) /\ Holds(m.for, l, m.id)
  BY <1>2, <1>3 DEF Answers, AnswerTo
<1>5. m.for = p
  BY <1>4 DEF Holds, Clean, SharesId
<1> QED BY <1>1, <1>2, <1>4, <1>5 DEF Holds, Hand

LEMMA SoleListen ==
    ASSUME AllTypes, AnswerInv, SoleInv, NEW l \in Launchers, Attach(l) \/ ListenStep(l)
    PROVE  SoleInv'
<1>1. ASSUME NEW pc, NEW s, NEW at, pc # "deliver",
             listen' = [listen EXCEPT ![l] = Listener(pc, s, at)],
             UNCHANGED <<call, remote, inbox, asks, torn>>
      PROVE  SoleInv'
  <2>1. Listener(pc, s, at).pc # "deliver"
    BY <1>1 DEF Listener
  <2> QED BY <1>1, <2>1, SoleListens
<1>2. CASE Attach(l)
  BY <1>1, <1>2 DEF Attach, netVars
<1>3. CASE AppendLauncher(l)
  BY <1>1, <1>3 DEF AppendLauncher, netVars
<1>4. ASSUME NEW hp, NEW s, NEW from, Search(l, hp, s, from),
             UNCHANGED <<call, remote, inbox, asks, torn>>
      PROVE  SoleInv'
  BY <1>1, <1>4 DEF Search
<1>5. CASE ListenFails(l)
  BY <1>4, <1>5 DEF ListenFails, netVars
<1>6. CASE ListenStore(l)
  BY <1>4, <1>6 DEF ListenStore, netVars
<1>7. CASE ListenRemove(l)
  <2>1. CASE Ends("panic")
    BY <2>1, SoleEnds
  <2>2. CASE Takes(l)
    <3> DEFINE t == [listen[l] EXCEPT !.pc = "store", !.now = launchers]
    <3>1. listen' = [listen EXCEPT ![l].pc = "store", ![l].now = launchers]
      BY <2>2 DEF Takes
    <3>2. listen' = [listen EXCEPT ![l] = t]
      BY <3>1 DEF AllTypes, ThreadType
    <3>3. t.pc # "deliver"
      BY Threads DEF Listening
    <3> HIDE DEF t
    <3>4. UNCHANGED <<call, remote, inbox, asks, torn>>
      BY <2>2 DEF Takes, netVars
    <3> QED BY <3>2, <3>3, <3>4, SoleListens
  <2> QED BY <1>7, <2>1, <2>2 DEF ListenRemove
<1>8. CASE ListenRead(l)
  <2>0. PICK x, to, s, pc : /\ x = Head(inbox[l]) /\ to = requests[l][x.id] /\ s = inbox[l]
                            /\ pc = IF to = None THEN "stuck" ELSE "deliver"
    OBVIOUS
  <2> DEFINE t == [listen[l] EXCEPT !.pc = pc, !.msg = x, !.at = to]
             rest == Tail(s)
  <2>1. /\ listen[l].pc = "read" /\ s # <<>>
        /\ listen' = [listen EXCEPT ![l] = t] /\ inbox' = [inbox EXCEPT ![l] = rest]
        /\ UNCHANGED <<call, remote, asks, torn>>
    BY <1>8, <2>0 DEF ListenRead
  <2>2. t.pc = pc /\ t.msg = x
    BY Threads DEF Listening
  <2> HIDE DEF t
  <2>3. s \in Seq(Message)
    BY <2>0, Threads
  <2>4. /\ listen'[l] = t /\ inbox'[l] = rest
        /\ \A k \in Launchers : k # l => listen'[k] = listen[k] /\ inbox'[k] = inbox[k]
    BY <2>1 DEF AllTypes, ThreadType, NetType
  <2> HIDE DEF rest
  <2>5. Grown
    BY <2>1, SameKeeps DEF Grown
  <2>6. ASSUME NEW k \in Launchers, NEW p \in Calls,
               Single(remote[k], inbox[k], listen[k], call[p], k, p)
        PROVE  Single(remote'[k], inbox'[k], listen'[k], call'[p], k, p)
    <3>1. CASE k # l
      BY <2>1, <2>4, <2>6, <3>1
    <3>2. CASE k = l
      <4>0. PICK r, c : r = remote[l] /\ c = call[p]
        OBVIOUS
      <4>1. /\ OutOne(r, p) /\ InOne(s, p) /\ (OutNone(r, p) \/ InNone(s, p))
            /\ Waits(c, l) \/ (OutNone(r, p) /\ InNone(s, p))
        BY <2>0, <2>6, <3>2, <4>0 DEF Single, Once, Nothing
      <4>2. InOne(rest, p)
        BY <2>1, <2>3, <4>1, TailIn DEF rest
      <4>3. CASE x.for = p
        <5>1. InNone(rest, p) /\ ~ InNone(s, p)
          BY <2>0, <2>1, <2>3, <4>1, <4>3, TailIn DEF rest
        <5>2. Single(r, rest, t, c, l, p)
          BY <4>1, <4>2, <5>1 DEF Single, Once, Nothing
        <5> QED BY <2>1, <2>4, <3>2, <4>0, <5>2
      <4>4. CASE x.for # p
        <5>1. ~ Hand(t, p) /\ (InNone(s, p) => InNone(rest, p))
          BY <2>1, <2>2, <2>3, <4>4, TailIn DEF rest, Hand
        <5>2. Single(r, rest, t, c, l, p)
          BY <4>1, <4>2, <5>1 DEF Single, Once, Nothing
        <5> QED BY <2>1, <2>4, <3>2, <4>0, <5>2
      <4> QED BY <4>3, <4>4
    <3> QED BY <3>1, <3>2
  <2>7. OnceInv'
    BY <2>5, <2>6, OnceStep DEF SoleInv
  <2>8. NoAsk'
    <3> SUFFICES ASSUME asks = 0, NEW k \in Launchers
                 PROVE  /\ \A m \in remote[k] : m.kind = "response"
                        /\ Plain(inbox'[k])
                        /\ listen'[k].pc = "deliver" => listen'[k].msg.kind = "response"
      BY <2>1 DEF NoAsk, Plain
    <3>1. /\ \A m \in remote[k] : m.kind = "response"
          /\ Plain(inbox[k])
          /\ listen[k].pc = "deliver" => listen[k].msg.kind = "response"
      BY DEF SoleInv, NoAsk
    <3>2. CASE k # l
      BY <2>4, <3>1, <3>2
    <3>3. CASE k = l
      <4>1. Plain(rest) /\ x.kind = "response"
        BY <2>0, <2>1, <2>3, <3>1, <3>3, TailIn DEF rest
      <4> QED BY <2>2, <2>4, <3>1, <3>3, <4>1
    <3> QED BY <3>2, <3>3
  <2>9. TornTwo'
    BY <2>1, <2>5, TornStays DEF SoleInv, Grown
  <2> QED BY <2>7, <2>8, <2>9 DEF SoleInv
<1>9. CASE ListenDeliver(l)
  <2>1. CASE Ends("panic")
    BY <2>1, SoleEnds
  <2>2. CASE ~ Ends("panic")
    <3>0. PICK q, got : q = listen[l].at /\ got = listen[l].msg
      OBVIOUS
    <3> DEFINE x == [call[q] EXCEPT !.pc = "delete", !.got = got]
               t == Listener("read", EmptySlice, 0)
    <3>1. /\ listen[l].pc = "deliver" /\ call[q].pc = "wait"
          /\ call' = [call EXCEPT ![q] = x] /\ listen' = [listen EXCEPT ![l] = t]
          /\ UNCHANGED <<remote, inbox, asks, torn>>
      BY <1>9, <2>2, <3>0 DEF ListenDeliver, netVars
    <3>2. q \in Calls
      BY <3>0, <3>1 DEF AnswerInv, Handed
    <3>3. t.pc = "read"
      BY DEF Listener
    <3>4. call[q] \in CallType
      BY <3>2, CallFacts
    <3> HIDE DEF t
    <3>5. x.pc = "delete" /\ x.to = call[q].to /\ x.id = call[q].id
      BY <3>4 DEF CallType
    <3> HIDE DEF x
    <3>6. Grown
      BY <3>1, <3>2, <3>5, OneKeeps DEF Grown
    <3>7. /\ \A p \in Calls : p # q => call'[p] = call[p]
          /\ listen'[l] = t /\ \A k \in Launchers : k # l => listen'[k] = listen[k]
      BY <3>1 DEF AllTypes, ThreadType
    <3>8. ASSUME NEW k \in Launchers, NEW p \in Calls, Clean(p),
                 Single(remote[k], inbox[k], listen[k], call[p], k, p)
          PROVE  Single(remote'[k], inbox'[k], listen'[k], call'[p], k, p)
      <4>1. Hand(listen'[k], p) => Hand(listen[k], p)
        BY <3>3, <3>7 DEF Hand
      <4>2. CASE p # q
        BY <3>1, <3>7, <3>8, <4>1, <4>2 DEF Single, Once, Nothing
      <4>3. CASE p = q
        <5>1. call[p].to = l /\ Hand(listen[l], p)
          BY <3>0, <3>1, <3>8, <4>3, OwnHand
        <5>2. Nothing(remote[k], inbox[k], listen'[k], p)
          <6>1. CASE k = l
            BY <3>3, <3>7, <3>8, <5>1, <6>1 DEF Single, Once, Nothing, Hand
          <6>2. CASE k # l
            BY <3>7, <3>8, <5>1, <6>2 DEF Single, Waits
          <6> QED BY <6>1, <6>2
        <5>3. Once(remote[k], inbox[k], listen'[k], p)
          BY <3>8, <5>2 DEF Single, Once, Nothing
        <5> QED BY <3>1, <5>2, <5>3 DEF Single
      <4> QED BY <4>2, <4>3
    <3>9. OnceInv'
      BY <3>6, <3>8, OnceStep DEF SoleInv
    <3>10. NoAsk'
      BY <3>1, <3>3, <3>7 DEF SoleInv, NoAsk, Plain
    <3>11. TornTwo'
      BY <3>1, <3>6, TornStays DEF SoleInv, Grown
    <3> QED BY <3>9, <3>10, <3>11 DEF SoleInv
  <2> QED BY <2>1, <2>2
<1> QED BY <1>2, <1>3, <1>5, <1>6, <1>7, <1>8, <1>9 DEF ListenStep

(* A call's step that puts nothing on its way.                             *)
LEMMA SoleCalls ==
    ASSUME AllTypes, AnswerInv, SoleInv, NEW p \in Calls,
           \A q \in Calls : q # p => call'[q] = call[q], Keeps,
           \A l \in Launchers : Waits(call[p], l) => Waits(call'[p], l),
           UNCHANGED <<listen, remote, inbox, asks>>, torn \subseteq torn', TornTwo'
    PROVE  SoleInv'
<1>1. Grown
  BY DEF Grown
<1>2. ASSUME NEW l \in Launchers, NEW q \in Calls,
             Single(remote[l], inbox[l], listen[l], call[q], l, q)
      PROVE  Single(remote'[l], inbox'[l], listen'[l], call'[q], l, q)
  <2>1. CASE q = p
    BY <1>2, <2>1 DEF Single
  <2>2. CASE q # p
    BY <1>2, <2>2
  <2> QED BY <2>1, <2>2
<1>3. OnceInv'
  BY <1>1, <1>2, OnceStep DEF SoleInv
<1>4. NoAsk'
  BY DEF SoleInv, NoAsk, Plain
<1> QED BY <1>3, <1>4 DEF SoleInv

LEMMA SoleWrite ==
    ASSUME AllTypes, AnswerInv, SoleInv, NEW p \in Calls, Write(p)
    PROVE  SoleInv'
<1>0. PICK l : l = call[p].to
  OBVIOUS
<1>1. /\ UNCHANGED <<listen, inbox, asks, torn>> /\ call[p].pc = "write"
      /\ Goes(p, "write", "register") \/ Goes(p, "write", "failed")
      /\ p \notin torn => Goes(p, "write", "register")
  BY DEF Write, Goes
<1>2. /\ Keeps /\ \A q \in Calls : q # p => call'[q] = call[q]
      /\ call'[p].to = l /\ (p \notin torn => call'[p].pc = "register")
  BY <1>0, <1>1, OneGoes
<1>3. Grown
  BY <1>1, <1>2 DEF Grown
<1>4. TornTwo'
  BY <1>1, <1>2, TornStays DEF SoleInv
<1>5. PICK x, q : /\ x \in Message /\ x.kind = "response" /\ x.for = q
                  /\ q \in torn \/ (q = p /\ p \notin torn)
                  /\ \/ UNCHANGED remote
                     \/ remote' = [remote EXCEPT ![l] = @ \cup {x}]
  <2>1. CASE p \notin torn
    <3>1. Arrives(l, p)
      BY <1>0, <2>1 DEF Write
    <3>2. /\ RequestOf(p) \in Message /\ RequestOf(p).kind = "response"
          /\ RequestOf(p).for = p
      BY RequestType
    <3> QED BY <2>1, <3>1, <3>2 DEF Arrives
  <2>2. CASE p \in torn /\ UNCHANGED remote
    <3>1. /\ RequestOf(p) \in Message /\ RequestOf(p).kind = "response"
          /\ RequestOf(p).for = p
      BY RequestType
    <3> QED BY <2>2, <3>1
  <2>3. ASSUME NEW q \in torn, Arrives(l, q)
        PROVE  \E x, r : /\ x \in Message /\ x.kind = "response" /\ x.for = r
                         /\ r \in torn \/ (r = p /\ p \notin torn)
                         /\ \/ UNCHANGED remote
                            \/ remote' = [remote EXCEPT ![l] = @ \cup {x}]
    <3>1. q \in Calls
      BY <2>3 DEF AnswerInv, TornSent
    <3>2. /\ RequestOf(q) \in Message /\ RequestOf(q).kind = "response"
          /\ RequestOf(q).for = q
      BY <3>1, RequestType
    <3> QED BY <2>3, <3>2 DEF Arrives
  <2> QED BY <1>0, <2>1, <2>2, <2>3 DEF Write
<1>6. \A k \in Launchers : remote'[k] = remote[k] \/ (k = l /\ remote'[k] = remote[k] \cup {x})
  BY <1>5 DEF AllTypes, NetType
<1>7. ASSUME NEW k \in Launchers, NEW r \in Calls, Clean(r),
             Single(remote[k], inbox[k], listen[k], call[r], k, r)
      PROVE  Single(remote'[k], inbox'[k], listen'[k], call'[r], k, r)
  <2>1. r \notin torn
    BY <1>7 DEF Clean
  <2>2. CASE r # p
    <3>1. x.for # r
      BY <1>5, <2>1, <2>2
    <3>2. /\ OutOne(remote[k], r) => OutOne(remote'[k], r)
          /\ OutNone(remote[k], r) => OutNone(remote'[k], r)
      BY <1>6, <3>1 DEF OutOne, OutNone
    <3> QED BY <1>1, <1>2, <1>7, <2>2, <3>2 DEF Single, Once, Nothing
  <2>3. CASE r = p
    <3>1. Nothing(remote[k], inbox[k], listen[k], r) /\ InOne(inbox[k], r)
      BY <1>1, <1>7, <2>3 DEF Single, Waits, Once
    <3>2. call'[r].pc = "register" /\ call'[r].to = l
      BY <1>2, <2>1, <2>3
    <3>3. CASE remote'[k] = remote[k]
      <4>1. Nothing(remote'[k], inbox'[k], listen'[k], r)
        BY <1>1, <3>1, <3>3
      <4> QED BY <1>1, <3>1, <4>1 DEF Single, Once, Nothing, OutOne, OutNone
    <3>4. CASE k = l /\ remote'[k] = remote[k] \cup {x}
      <4>1. OutOne(remote'[k], r)
        BY <3>1, <3>4 DEF Nothing, OutOne, OutNone
      <4> QED BY <1>1, <3>1, <3>2, <3>4, <4>1 DEF Single, Once, Nothing, Waits
    <3> QED BY <1>6, <3>3, <3>4
  <2> QED BY <2>2, <2>3
<1>8. OnceInv'
  BY <1>3, <1>7, OnceStep DEF SoleInv
<1>9. NoAsk'
  <2>1. asks = 0 => \A k \in Launchers : \A m \in remote'[k] : m.kind = "response"
    BY <1>5, <1>6 DEF SoleInv, NoAsk
  <2> QED BY <1>1, <2>1 DEF SoleInv, NoAsk, Plain
<1> QED BY <1>4, <1>8, <1>9 DEF SoleInv

LEMMA SoleCall ==
    ASSUME AllTypes, AnswerInv, SoleInv, NEW p \in Calls, Pick(p) \/ CallStep(p)
    PROVE  SoleInv'
<1>1. ASSUME NEW from, NEW to, Goes(p, from, to), Keeps, to = "wait" \/ from # "register",
             from # "wait", UNCHANGED <<listen, remote, inbox, asks, torn>>
      PROVE  SoleInv'
  <2>1. /\ call[p].pc = from /\ call'[p].pc = to /\ call'[p].to = call[p].to
        /\ \A q \in Calls : q # p => call'[q] = call[q]
    BY <1>1, OneGoes
  <2>2. \A l \in Launchers : Waits(call[p], l) => Waits(call'[p], l)
    BY <1>1, <2>1 DEF Waits
  <2>3. TornTwo'
    BY <1>1, TornStays DEF SoleInv
  <2> QED BY <1>1, <2>1, <2>2, <2>3, SoleCalls
<1>2. CASE Pick(p)
  <2>0. /\ UNCHANGED <<listen, remote, inbox, asks, torn>> /\ call[p].pc = "idle"
    BY <1>2 DEF Pick, netVars
  <2>1. CASE launchers.len = 0
    <3> DEFINE x == [call[p] EXCEPT !.pc = "failed"]
    <3>1. Goes(p, "idle", "failed")
      BY <1>2, <2>1 DEF Pick
    <3>2. call' = [call EXCEPT ![p] = x]
      BY <3>1, OneGoes
    <3> HIDE DEF x
    <3>3. Keeps
      BY <2>0, <3>2, OneKeeps DEF Sent
    <3> QED BY <1>1, <2>0, <3>1, <3>3
  <2>2. CASE launchers.len # 0
    <3>0. PICK l : l = At(heap, launchers, 1)
      OBVIOUS
    <3> DEFINE x == [call[p] EXCEPT !.pc = "send", !.to = l]
    <3>1. call' = [call EXCEPT ![p].pc = "send", ![p].to = l]
      BY <1>2, <2>2, <3>0 DEF Pick
    <3>2. call' = [call EXCEPT ![p] = x]
      BY <3>1 DEF AllTypes, ThreadType
    <3> HIDE DEF x
    <3>3. Keeps
      BY <2>0, <3>2, OneKeeps DEF Sent
    <3>4. \A q \in Calls : q # p => call'[q] = call[q]
      BY <3>2 DEF AllTypes, ThreadType
    <3>5. \A k \in Launchers : ~ Waits(call[p], k)
      BY <2>0 DEF Waits
    <3>6. TornTwo'
      BY <2>0, <3>3, TornStays DEF SoleInv
    <3> QED BY <2>0, <3>3, <3>4, <3>5, <3>6, SoleCalls
  <2> QED BY <2>1, <2>2
<1>3. CASE Send(p)
  <2>0. PICK l, id : l = call[p].to /\ id = counter[l]
    OBVIOUS
  <2> DEFINE x == [call[p] EXCEPT !.pc = "write", !.id = id]
  <2>1. /\ UNCHANGED <<listen, remote, inbox, asks>> /\ call[p].pc = "send"
        /\ call' = [call EXCEPT ![p].pc = "write", ![p].id = id]
        /\ torn' = IF Writing(l) = {} THEN torn ELSE torn \cup Writing(l) \cup {p}
    BY <1>3, <2>0 DEF Send
  <2>2. call' = [call EXCEPT ![p] = x]
    BY <2>1 DEF AllTypes, ThreadType
  <2>3. x.pc = "write" /\ x.to = l /\ l \in Launchers
    BY <2>0, <2>1, CallFacts DEF CallType
  <2> HIDE DEF x
  <2>4. Keeps
    BY <2>1, <2>2, OneKeeps DEF Sent
  <2>5. call'[p] = x /\ \A q \in Calls : q # p => call'[q] = call[q]
    BY <2>2 DEF AllTypes, ThreadType
  <2>6. Sent(p)' /\ call'[p].to = l /\ l # None
    BY <2>3, <2>5, NoneAssumption DEF Sent
  <2>7. \A w \in Writing(l) : w \in Calls \ {p} /\ call'[w].to = l /\ Sent(w)'
    BY <2>1, <2>5, <2>6 DEF Writing, Sent
  <2>8. ASSUME NEW q \in torn' PROVE \E r \in Calls \ {q} : Sent(r)' /\ call'[r].to = call'[q].to
    <3>1. CASE q \in torn
      <4>1. q \in Calls /\ Sent(q)
        BY <3>1 DEF AnswerInv, TornSent
      <4>2. PICK r \in Calls \ {q} : Sent(r) /\ call[r].to = call[q].to
        BY <3>1 DEF SoleInv, TornTwo
      <4> QED BY <2>4, <4>1, <4>2 DEF Keeps
    <3>2. CASE q \in Writing(l)
      BY <2>6, <2>7, <3>2
    <3>3. CASE q \notin torn /\ q \notin Writing(l)
      <4>1. q = p /\ Writing(l) # {}
        BY <2>1, <2>8, <3>3
      <4>2. PICK w : w \in Writing(l)
        BY <4>1
      <4> QED BY <2>6, <2>7, <4>1, <4>2
    <3> QED BY <3>1, <3>2, <3>3
  <2>9. TornTwo'
    BY <2>8 DEF TornTwo
  <2>10. torn \subseteq torn' /\ \A k \in Launchers : ~ Waits(call[p], k)
    BY <2>1 DEF Waits
  <2> QED BY <2>1, <2>4, <2>5, <2>9, <2>10, SoleCalls
<1>4. CASE Write(p)
  BY <1>4, SoleWrite
<1>5. CASE Register(p)
  <2>1. Goes(p, "register", "wait") /\ UNCHANGED <<listen, remote, inbox, asks, torn>>
    BY <1>5 DEF Register, netVars
  <2>2. Keeps
    BY <2>1, OneGoes
  <2> QED BY <1>1, <2>1, <2>2
<1>6. CASE Delete(p)
  <2>1. Goes(p, "delete", "done") /\ UNCHANGED <<listen, remote, inbox, asks, torn>>
    BY <1>6 DEF Delete, netVars
  <2>2. Keeps
    BY <2>1, OneGoes
  <2> QED BY <1>1, <2>1, <2>2
<1> QED BY <1>2, <1>3, <1>4, <1>5, <1>6 DEF CallStep

LEMMA SoleInit == Init => SoleInv
<1> SUFFICES ASSUME Init PROVE SoleInv
  OBVIOUS
<1> DEFINE empty == <<>>
<1>1. Len(empty) = 0
  OBVIOUS
<1>2. Listener("off", EmptySlice, 0).pc = "off"
  BY DEF Listener
<1>3. /\ \A l \in Launchers : listen[l].pc = "off" /\ inbox[l] = empty /\ remote[l] = {}
      /\ torn = {}
  BY <1>2 DEF Init
<1> HIDE DEF empty
<1> QED BY <1>1, <1>3 DEF SoleInv, OnceInv, NoAsk, TornTwo, Plain, Single, Once, Nothing,
                          OutOne, OutNone, InOne, InNone, Hand

LEMMA SoleStep == AllTypes /\ AnswerInv /\ SoleInv /\ [Next]_vars => SoleInv'
<1> SUFFICES ASSUME AllTypes, AnswerInv, SoleInv, [Next]_vars PROVE SoleInv'
  OBVIOUS
<1>1. CASE UNCHANGED vars
  <2>1. UNCHANGED <<listen, call, remote, inbox, asks, torn>>
    BY <1>1 DEF vars, netVars
  <2> QED BY <2>1 DEF SoleInv, OnceInv, NoAsk, TornTwo, Plain, Single, Once, Nothing,
                      OutOne, OutNone, InOne, InNone, Hand, Waits, Clean, SharesId, Sent
<1>2. ASSUME NEW l \in Launchers, MapRace(l) PROVE SoleInv'
  BY <1>2, SoleEnds DEF MapRace
<1>3. CASE Next
  BY <1>2, <1>3, SoleNet, SoleListen, SoleCall DEF Next
<1> QED BY <1>1, <1>3

-----------------------------------------------------------------------------
(* What append and append(s[:i], s[i+1:]...) leave where, and that they    *)
(* put nobody in a slot but the launcher appended.                         *)
Found(hp, x) == \E a \in 1..Len(hp) : \E i \in 1..Len(hp[a]) : hp[a][i] = x

LEMMA AppendPlaces ==
    ASSUME NEW hp \in Heaps, NEW s, Good(hp, s), NEW x \in Launchers
    PROVE  LET new == SliceAppend(hp, s, x, None) IN
           /\ new.slice.len = s.len + 1
           /\ At(new.heap, new.slice, s.len + 1) = x
           /\ \A i \in 1..s.len : At(new.heap, new.slice, i) = At(hp, s, i)
           /\ \A y \in Launchers : Found(new.heap, y) => y = x \/ Found(hp, y)
<1> DEFINE old == hp[s.arr]
           at == s.len + 1
           cap == IF old = <<>> THEN 1 ELSE 2 * Len(old)
           row == [i \in 1..cap |-> CASE i <= s.len -> old[i]
                                      [] i = s.len + 1 -> x
                                      [] OTHER -> None]
<1>1. /\ old \in Seq(Slot) /\ Len(old) \in Nat /\ DOMAIN old = 1..Len(old)
      /\ s.arr \in 1..Len(hp) /\ s.len \in 0..Len(old) /\ Len(hp) \in Nat
  BY HeapTypes DEF Good
<1>2. CASE s.len < Len(old)
  <2> DEFINE put == [old EXCEPT ![at] = x]
             nh == [hp EXCEPT ![s.arr] = put]
             sl == [arr |-> s.arr, len |-> at]
  <2>1. SliceAppend(hp, s, x, None) = [heap |-> nh, slice |-> sl]
    <3>1. [hp EXCEPT ![s.arr][s.len + 1] = x] = nh
      OBVIOUS
    <3> QED BY <1>2, <3>1 DEF SliceAppend
  <2>2. at \in 1..Len(old) /\ x \in Slot /\ \A i \in 1..s.len : i \in 1..Len(old) /\ i # at
    BY <1>1, <1>2 DEF Slot
  <2>3. put \in Seq(Slot) /\ Len(put) = Len(old)
    BY <1>1, <2>2
  <2>4. \A i \in 1..Len(old) : put[i] = (IF i = at THEN x ELSE old[i])
    BY <1>1, <2>2
  <2> HIDE DEF put
  <2>5. /\ Len(nh) = Len(hp) /\ nh[s.arr] = put
        /\ \A a \in 1..Len(hp) : a # s.arr => nh[a] = hp[a]
    BY <1>1, HeapTypes DEF Heaps
  <2>6. sl.arr = s.arr /\ sl.len = at
    OBVIOUS
  <2> HIDE DEF nh, sl, at
  <2>7. At(nh, sl, at) = x /\ \A i \in 1..s.len : At(nh, sl, i) = At(hp, s, i)
    BY <2>2, <2>4, <2>5, <2>6 DEF At
  <2>8. ASSUME NEW y \in Launchers, Found(nh, y) PROVE y = x \/ Found(hp, y)
    <3>1. PICK a \in 1..Len(nh) : \E i \in 1..Len(nh[a]) : nh[a][i] = y
      BY <2>8 DEF Found
    <3>2. PICK i \in 1..Len(nh[a]) : nh[a][i] = y
      BY <3>1
    <3>3. CASE a = s.arr
      <4>1. i \in 1..Len(old) /\ put[i] = y
        BY <2>3, <2>5, <3>2, <3>3
      <4> QED BY <1>1, <2>4, <4>1 DEF Found
    <3>4. CASE a # s.arr
      <4>1. a \in 1..Len(hp) /\ nh[a] = hp[a]
        BY <2>5, <3>4
      <4> QED BY <3>2, <4>1 DEF Found
    <3> QED BY <3>3, <3>4
  <2> QED BY <2>1, <2>6, <2>7, <2>8 DEF at
<1>3. CASE ~ (s.len < Len(old))
  <2> DEFINE nh == Append(hp, row)
             sl == [arr |-> Len(hp) + 1, len |-> at]
  <2>1. SliceAppend(hp, s, x, None) = [heap |-> nh, slice |-> sl]
    BY <1>3 DEF SliceAppend
  <2>2. s.len = Len(old)
    BY <1>1, <1>3
  <2>3. cap \in Nat /\ at <= cap /\ at \in Nat
    <3>1. CASE old = <<>>
      <4>1. Len(old) = 0
        BY <3>1
      <4> QED BY <2>2, <3>1, <4>1
    <3>2. CASE old # <<>>
      <4>1. Len(old) >= 1
        BY <1>1, <3>2
      <4> QED BY <1>1, <2>2, <3>2, <4>1
    <3> QED BY <3>1, <3>2
  <2> HIDE DEF cap
  <2>4. \A i \in 1..cap : /\ i <= s.len => row[i] = old[i]
                          /\ i = at => row[i] = x
                          /\ i <= s.len \/ i = at \/ row[i] = None
    BY <1>1
  <2>5. row \in [1..cap -> Slot] /\ DOMAIN row = 1..cap
    <3>1. row = [i \in 1..cap |-> row[i]]
      OBVIOUS
    <3>2. \A i \in 1..cap : i <= s.len => old[i] \in Slot
      BY <1>1, <2>2, <2>3, HeapTypes
    <3> HIDE DEF row
    <3>3. \A i \in 1..cap : row[i] \in Slot
      BY <2>4, <3>2 DEF Slot
    <3> QED BY <3>1, <3>3
  <2> HIDE DEF row
  <2>6. row \in Seq(Slot) /\ Len(row) = cap
    BY <2>3, <2>5
  <2>7. /\ Len(nh) = Len(hp) + 1 /\ nh[Len(hp) + 1] = row
        /\ \A a \in 1..Len(hp) : nh[a] = hp[a]
    BY <1>1, <2>6, HeapTypes DEF Heaps
  <2>8. sl.arr = Len(hp) + 1 /\ sl.len = at
    OBVIOUS
  <2> HIDE DEF nh, sl
  <2>9. At(nh, sl, at) = x /\ \A i \in 1..s.len : At(nh, sl, i) = At(hp, s, i)
    <3>1. at \in 1..cap /\ \A i \in 1..s.len : i \in 1..cap /\ i <= s.len
      BY <1>1, <2>3
    <3> QED BY <2>4, <2>7, <2>8, <3>1 DEF At
  <2>10. ASSUME NEW y \in Launchers, Found(nh, y) PROVE y = x \/ Found(hp, y)
    <3>1. PICK a \in 1..Len(nh) : \E i \in 1..Len(nh[a]) : nh[a][i] = y
      BY <2>10 DEF Found
    <3>2. PICK i \in 1..Len(nh[a]) : nh[a][i] = y
      BY <3>1
    <3>3. CASE a = Len(hp) + 1
      <4>1. i \in 1..cap /\ row[i] = y
        BY <2>6, <2>7, <3>2, <3>3
      <4>2. i <= s.len \/ i = at
        BY <2>4, <4>1, NoneAssumption
      <4>3. CASE i <= s.len
        <5>1. i \in 1..Len(old) /\ old[i] = y
          BY <1>1, <2>2, <2>3, <2>4, <4>1, <4>3
        <5> QED BY <1>1, <5>1 DEF Found
      <4>4. CASE i = at
        BY <2>4, <4>1, <4>4
      <4> QED BY <4>2, <4>3, <4>4
    <3>4. CASE a # Len(hp) + 1
      <4>1. a \in 1..Len(hp) /\ nh[a] = hp[a]
        BY <1>1, <2>7, <3>4
      <4> QED BY <3>2, <4>1 DEF Found
    <3> QED BY <3>3, <3>4
  <2> HIDE DEF at
  <2> QED BY <2>1, <2>8, <2>9, <2>10 DEF at
<1> QED BY <1>2, <1>3

LEMMA RemovePlaces ==
    ASSUME NEW hp \in Heaps, NEW s, Good(hp, s), NEW at \in 1..s.len
    PROVE  LET new == SliceRemove(hp, s, at) IN
           /\ new.slice.len = s.len - 1
           /\ At(new.heap, s, s.len) = At(hp, s, s.len)
           /\ \A y : Found(new.heap, y) => Found(hp, y)
<1> DEFINE old == hp[s.arr]
           n == s.len - 1
           row == [j \in DOMAIN old |-> IF j \in at..n THEN old[j + 1] ELSE old[j]]
           nh == [hp EXCEPT ![s.arr] = row]
           sl == [arr |-> s.arr, len |-> n]
<1>1. /\ s.arr \in 1..Len(hp) /\ s.len \in 1..Len(old) /\ Len(old) \in Nat
      /\ old \in Seq(Slot) /\ DOMAIN old = 1..Len(old) /\ Len(hp) \in Nat
      /\ \A i \in 1..Len(old) : old[i] \in Slot
  <2>1. s.arr \in 1..Len(hp) /\ s.len \in 0..Len(old)
    BY DEF Good
  <2> QED BY <2>1, HeapTypes
<1>2. /\ n \in 0..Len(old) /\ n + 1 = s.len /\ n < s.len
      /\ \A j \in at..n : j + 1 \in 1..Len(old)
  BY <1>1
<1>3. SliceRemove(hp, s, at) = [heap |-> nh, slice |-> sl]
  BY DEF SliceRemove
<1>4. \A j \in 1..Len(old) : row[j] = IF j \in at..n THEN old[j + 1] ELSE old[j]
  BY <1>1
<1>5. row \in [1..Len(old) -> Slot]
  <2>1. row = [j \in 1..Len(old) |-> row[j]]
    BY <1>1
  <2> HIDE DEF row
  <2>2. \A j \in 1..Len(old) : row[j] \in Slot
    BY <1>1, <1>2, <1>4
  <2> QED BY <2>1, <2>2
<1> HIDE DEF row
<1>6. row \in Seq(Slot) /\ Len(row) = Len(old)
  BY <1>1, <1>5
<1>7. sl.len = n
  OBVIOUS
<1>8. /\ nh[s.arr] = row /\ Len(nh) = Len(hp)
      /\ \A a \in 1..Len(hp) : a # s.arr => nh[a] = hp[a]
  BY <1>1, <1>6, HeapTypes DEF Heaps
<1> HIDE DEF nh, sl, n
<1>9. At(nh, s, s.len) = At(hp, s, s.len)
  <2>1. s.len \in 1..Len(old) /\ s.len \notin at..n
    BY <1>1, <1>2
  <2> QED BY <1>4, <1>8, <2>1 DEF At
<1>10. ASSUME NEW y, Found(nh, y) PROVE Found(hp, y)
  <2>1. PICK a \in 1..Len(nh) : \E i \in 1..Len(nh[a]) : nh[a][i] = y
    BY <1>10 DEF Found
  <2>2. PICK i \in 1..Len(nh[a]) : nh[a][i] = y
    BY <2>1
  <2>3. CASE a = s.arr
    <3>1. i \in 1..Len(old) /\ row[i] = y
      BY <1>6, <1>8, <2>2, <2>3
    <3>2. \E j \in 1..Len(old) : old[j] = y
      BY <1>2, <1>4, <3>1
    <3> QED BY <1>1, <3>2 DEF Found
  <2>4. CASE a # s.arr
    <3>1. a \in 1..Len(hp) /\ nh[a] = hp[a]
      BY <1>8, <2>4
    <3> QED BY <2>2, <3>1 DEF Found
  <2> QED BY <2>3, <2>4
<1> QED BY <1>3, <1>7, <1>9, <1>10 DEF n

-----------------------------------------------------------------------------
(* While at most two launchers have come and at most one has gone, no      *)
(* listener removes at a place behind the end of launchers.  App is who    *)
(* has been appended; s is the slice launchers, t the listener of k.       *)
App == {l \in Launchers : listen[l].pc \notin {"off", "append"}}
Removing(t) == t.pc \in {"remove", "store"}

Few     == \A a, b, c \in Launchers :
               conn[a] # "new" /\ conn[b] # "new" /\ conn[c] # "new"
               => a = b \/ b = c \/ a = c
OneDown == \A k, l \in Launchers : conn[k] = "down" /\ conn[l] = "down" => k = l

Short(n, app) == n <= 1 \/ (n = 2 /\ \E a, b \in app : a # b)
Fine(hp, s, app) == /\ Short(s.len, app)
                    /\ s.len = 2 => At(hp, s, 1) # At(hp, s, 2)
Sure(hp, s, t, k, app) ==
    /\ t.pc \in {"append", "remove", "store"} => Short(t.len, app)
    /\ t.pc = "store" => Short(t.now.len, app)
    /\ Removing(t) => t.at <= s.len
    /\ Removing(t) /\ t.len = 2 => t.arr = s.arr /\ s.len = 2 /\ At(hp, s, t.at) = k
    /\ t.pc = "store" /\ t.len = 2 => t.now = s
Tied(t, c) == /\ t.pc # "off" => c # "new"
              /\ Removing(t) => c = "down"

CameInv  == IsFiniteSet({l \in Launchers : conn[l] # "new"})
TiedInv  == \A l \in Launchers : Tied(listen[l], conn[l])
SlotInv  == \A x \in Launchers : Found(heap, x) => x \in App
PlaceInv == /\ Fine(heap, launchers, App)
            /\ \A k \in Launchers : Sure(heap, launchers, listen[k], k, App)

SlipInv == /\ CameInv
           /\ crashed = "no" => /\ TiedInv /\ SlotInv
                                /\ Few /\ OneDown => PlaceInv

LEMMA ShortGrows ==
    ASSUME NEW app, NEW more, app \subseteq more
    PROVE  /\ \A n : Short(n, app) => Short(n, more)
           /\ \A hp, s : Fine(hp, s, app) => Fine(hp, s, more)
           /\ \A hp, s, t, k : Sure(hp, s, t, k, app) => Sure(hp, s, t, k, more)
<1>1. \A n : Short(n, app) => Short(n, more)
  BY DEF Short
<1>2. \A hp, s : Fine(hp, s, app) => Fine(hp, s, more)
  BY <1>1 DEF Fine
<1>3. \A hp, s, t, k : Sure(hp, s, t, k, app) => Sure(hp, s, t, k, more)
  BY <1>1 DEF Sure
<1> QED BY <1>1, <1>2, <1>3

(* Nothing that follows looks at is touched.                               *)
LEMMA SlipRest ==
    ASSUME SlipInv, UNCHANGED <<heap, launchers, listen, conn, crashed>>
    PROVE  SlipInv'
<1>1. App' = App /\ (Few' <=> Few) /\ (OneDown' <=> OneDown)
  BY DEF App, Few, OneDown
<1>2. CameInv'
  BY DEF SlipInv, CameInv
<1>3. TiedInv => TiedInv'
  BY DEF TiedInv, Tied, Removing
<1>4. SlotInv => SlotInv'
  BY <1>1 DEF SlotInv, Found
<1>5. PlaceInv => PlaceInv'
  BY <1>1 DEF PlaceInv, Fine, Sure, Short, Removing, At
<1> QED BY <1>1, <1>2, <1>3, <1>4, <1>5 DEF SlipInv

(* One listener moves on to t, and its connection to c; others come and go *)
(* no more than before.                                                    *)
Onward(l, t, c) ==
    /\ listen' = [listen EXCEPT ![l] = t] /\ conn' = [conn EXCEPT ![l] = c]
    /\ conn[l] # "new" => c # "new"
    /\ conn[l] = "down" => c = "down"
    /\ l \in App => t.pc \notin {"off", "append"}
    /\ Tied(t, c)

LEMMA OnwardFacts ==
    ASSUME AllTypes, CameInv, NEW l \in Launchers, NEW t, NEW c, Onward(l, t, c)
    PROVE  /\ listen'[l] = t /\ conn'[l] = c
           /\ \A k \in Launchers : k # l => listen'[k] = listen[k] /\ conn'[k] = conn[k]
           /\ App \subseteq App' /\ App' \subseteq App \cup {l}
           /\ CameInv'
           /\ TiedInv => TiedInv'
           /\ (Few' => Few) /\ (OneDown' => OneDown)
<1>1. /\ listen'[l] = t /\ conn'[l] = c
      /\ \A k \in Launchers : k # l => listen'[k] = listen[k] /\ conn'[k] = conn[k]
  BY DEF Onward, AllTypes, ThreadType, NetType
<1>2. App \subseteq App' /\ App' \subseteq App \cup {l}
  <2>1. App' = {k \in Launchers : listen'[k].pc \notin {"off", "append"}}
    BY DEF App
  <2> QED BY <1>1, <2>1 DEF App, Onward
<1>3. CameInv'
  <2> DEFINE old == {k \in Launchers : conn[k] # "new"}
             new == {k \in Launchers : conn'[k] # "new"}
  <2>1. new = old \/ new = old \cup {l}
    BY <1>1 DEF Onward
  <2>2. IsFiniteSet(old)
    BY DEF CameInv
  <2> HIDE DEF old
  <2>3. IsFiniteSet(new)
    BY <2>1, <2>2, FS_AddElement
  <2> QED BY <2>3 DEF CameInv
<1>4. TiedInv => TiedInv'
  <2>1. TiedInv => \A k \in Launchers : Tied(listen'[k], conn'[k])
    BY <1>1 DEF TiedInv, Onward
  <2> QED BY <2>1 DEF TiedInv, Tied, Removing
<1>5. \A k \in Launchers : /\ conn[k] # "new" => conn'[k] # "new"
                           /\ conn[k] = "down" => conn'[k] = "down"
  BY <1>1 DEF Onward
<1>6. (Few' => Few) /\ (OneDown' => OneDown)
  BY <1>5 DEF Few, OneDown
<1> QED BY <1>1, <1>2, <1>3, <1>4, <1>6

LEMMA SlipOnward ==
    ASSUME AllTypes, SlipInv, NEW l \in Launchers, NEW t, NEW c, Onward(l, t, c),
           UNCHANGED <<heap, launchers>>, crashed = "no",
           Few /\ OneDown /\ PlaceInv => Sure(heap, launchers, t, l, App)
    PROVE  SlipInv'
<1>0. CameInv /\ TiedInv /\ SlotInv /\ (Few /\ OneDown => PlaceInv)
  BY DEF SlipInv
<1>1. /\ listen'[l] = t
      /\ \A k \in Launchers : k # l => listen'[k] = listen[k]
      /\ App \subseteq App'
      /\ CameInv' /\ TiedInv' /\ (Few' => Few) /\ (OneDown' => OneDown)
  BY <1>0, OnwardFacts
<1>2. SlotInv'
  BY <1>0, <1>1 DEF SlotInv, Found
<1>3. ASSUME Few', OneDown' PROVE PlaceInv'
  <2>1. PlaceInv
    BY <1>0, <1>1, <1>3
  <2>2. \A k \in Launchers : Sure(heap, launchers, listen'[k], k, App)
    BY <1>0, <1>1, <1>3, <2>1 DEF PlaceInv
  <2>3. \A k \in Launchers : Sure(heap', launchers', listen'[k], k, App')
    BY <1>1, <2>2, ShortGrows
  <2>4. Fine(heap', launchers', App')
    BY <1>1, <2>1, ShortGrows DEF PlaceInv
  <2> QED BY <2>3, <2>4 DEF PlaceInv, Fine, Sure, Short, Removing, At
<1> QED BY <1>1, <1>2, <1>3 DEF SlipInv

LEMMA SlipEnds ==
    ASSUME SlipInv, NEW how \in {"panic", "map"}, Ends(how) PROVE SlipInv'
<1>1. crashed' # "no" /\ conn' = conn
  BY DEF Ends
<1>2. CameInv'
  BY <1>1 DEF SlipInv, CameInv
<1> QED BY <1>1, <1>2 DEF SlipInv

(* A step of a listener to a place where it removes nothing.               *)
LEMMA SlipPlain ==
    ASSUME AllTypes, SlipInv, NEW l \in Launchers, NEW t,
           listen' = [listen EXCEPT ![l] = t], listen[l].pc # "off",
           t.pc \notin {"off", "append", "remove", "store"},
           UNCHANGED <<heap, launchers, conn>>, crashed = "no"
    PROVE  SlipInv'
<1>1. PICK c : c = conn[l]
  OBVIOUS
<1>2. conn' = [conn EXCEPT ![l] = c]
  BY <1>1 DEF AllTypes, NetType
<1>3. Onward(l, t, c)
  <2>1. Tied(t, c)
    BY <1>1 DEF SlipInv, TiedInv, Tied, Removing
  <2> QED BY <1>1, <1>2, <2>1 DEF Onward
<1>4. Sure(heap, launchers, t, l, App)
  BY DEF Sure, Removing
<1> QED BY <1>3, <1>4, SlipOnward

(* Search in a slice that is launchers.                                    *)
LEMMA SlipFails ==
    ASSUME AllTypes, SlipInv, NEW l \in Launchers, ListenFails(l) PROVE SlipInv'
<1>1. /\ listen[l].pc = "read" /\ conn[l] = "down" /\ Search(l, heap, launchers, 1)
      /\ UNCHANGED <<heap, launchers, conn>> /\ crashed = "no"
  BY DEF ListenFails, sliceVars, Alive
<1>2. CASE listen' = [listen EXCEPT ![l] = Listener("ended", EmptySlice, 0)]
  <2> DEFINE t == Listener("ended", EmptySlice, 0)
  <2>1. t.pc = "ended"
    BY DEF Listener
  <2> HIDE DEF t
  <2>2. listen' = [listen EXCEPT ![l] = t]
    BY <1>2 DEF t
  <2> QED BY <1>1, <2>1, <2>2, SlipPlain
<1>3. ASSUME NEW i \in Places(heap, launchers, l, 1),
             listen' = [listen EXCEPT ![l] = Listener("remove", launchers, i)]
      PROVE  SlipInv'
  <2> DEFINE t == Listener("remove", launchers, i)
             c == "down"
  <2>1. i \in 1..launchers.len /\ At(heap, launchers, i) = l /\ launchers.len \in Nat
    BY Threads DEF Places
  <2>2. t.pc = "remove" /\ t.arr = launchers.arr /\ t.len = launchers.len /\ t.at = i
    BY DEF Listener
  <2> HIDE DEF t
  <2>3. Onward(l, t, c)
    <3>1. Tied(t, c)
      BY <2>2 DEF Tied, Removing
    <3>2. conn' = [conn EXCEPT ![l] = c]
      BY <1>1 DEF AllTypes, NetType
    <3> QED BY <1>3, <2>2, <3>1, <3>2 DEF Onward, t
  <2> HIDE DEF c
  <2>4. ASSUME PlaceInv PROVE Sure(heap, launchers, t, l, App)
    <3>1. Short(t.len, App) /\ t.at <= launchers.len
      BY <2>1, <2>2, <2>4 DEF PlaceInv, Fine
    <3>2. t.len = 2 => /\ t.arr = launchers.arr /\ launchers.len = 2
                       /\ At(heap, launchers, t.at) = l
      BY <2>1, <2>2
    <3> QED BY <2>2, <3>1, <3>2 DEF Sure
  <2> QED BY <1>1, <2>3, <2>4, SlipOnward
<1> QED BY <1>1, <1>2, <1>3 DEF Search

LEMMA SlipTakes ==
    ASSUME AllTypes, SlipInv, NEW l \in Launchers, listen[l].pc = "remove",
           listen[l].at <= launchers.len, Takes(l)
    PROVE  SlipInv'
<1> DEFINE t == [listen[l] EXCEPT !.pc = "store", !.now = launchers]
<1>0. PICK c : c = conn[l]
  OBVIOUS
<1>1. /\ listen' = [listen EXCEPT ![l].pc = "store", ![l].now = launchers]
      /\ UNCHANGED <<heap, launchers, conn>> /\ crashed = "no"
  BY DEF Takes, sliceVars, Alive
<1>2. listen' = [listen EXCEPT ![l] = t] /\ conn' = [conn EXCEPT ![l] = c]
  BY <1>0, <1>1 DEF AllTypes, ThreadType, NetType
<1>3. /\ t.pc = "store" /\ t.now = launchers /\ t.arr = listen[l].arr
      /\ t.len = listen[l].len /\ t.at = listen[l].at
  BY Threads DEF Listening
<1> HIDE DEF t
<1>4. Onward(l, t, c)
  <2>1. c = "down" /\ Tied(t, c)
    BY <1>0, <1>1 DEF SlipInv, TiedInv, Tied, Removing
  <2> QED BY <1>0, <1>2, <1>3, <2>1 DEF Onward
<1>5. ASSUME PlaceInv PROVE Sure(heap, launchers, t, l, App)
  <2>1. Sure(heap, launchers, listen[l], l, App) /\ Short(launchers.len, App)
    BY <1>5 DEF PlaceInv, Fine
  <2> QED BY <1>3, <2>1 DEF Sure, Removing
<1> QED BY <1>1, <1>4, <1>5, SlipOnward

LEMMA SlipAttach ==
    ASSUME AllTypes, SlipInv, NEW l \in Launchers, Attach(l) PROVE SlipInv'
<1> DEFINE t == Listener("append", launchers, 0)
           c == "up"
<1>1. /\ conn[l] = "new" /\ conn' = [conn EXCEPT ![l] = c]
      /\ listen' = [listen EXCEPT ![l] = t] /\ UNCHANGED <<heap, launchers>>
      /\ crashed = "no"
  BY DEF Attach, sliceVars, Alive
<1>2. t.pc = "append" /\ t.len = launchers.len
  BY DEF Listener
<1> HIDE DEF t
<1>3. Tied(t, c)
  BY <1>2 DEF Tied, Removing
<1>4. l \notin App
  BY <1>1 DEF SlipInv, TiedInv, Tied, App
<1>5. c # "new"
  OBVIOUS
<1> HIDE DEF c
<1>6. Onward(l, t, c)
  BY <1>1, <1>3, <1>4, <1>5 DEF Onward
<1>7. PlaceInv => Sure(heap, launchers, t, l, App)
  BY <1>2 DEF PlaceInv, Fine, Sure, Removing
<1> QED BY <1>1, <1>6, <1>7, SlipOnward

(* The one step that makes a slice longer.  Of two launchers that have     *)
(* come this one is not appended yet, so no slice is longer than one.      *)
LEMMA SlipAppend ==
    ASSUME AllTypes, SlipInv, NEW l \in Launchers, AppendLauncher(l) PROVE SlipInv'
<1> DEFINE t == Listener("read", EmptySlice, 0)
<1>0. PICK s, nh, ns, c : /\ s = listen[l] /\ c = conn[l]
                          /\ nh = SliceAppend(heap, s, l, None).heap
                          /\ ns = SliceAppend(heap, s, l, None).slice
  OBVIOUS
<1>1. /\ s.pc = "append" /\ heap' = nh /\ launchers' = ns /\ crashed = "no"
      /\ listen' = [listen EXCEPT ![l] = t] /\ conn' = [conn EXCEPT ![l] = c]
  BY <1>0 DEF AppendLauncher, Alive, AllTypes, NetType
<1>2. t.pc = "read"
  BY DEF Listener
<1> HIDE DEF t
<1>3. CameInv /\ TiedInv /\ SlotInv /\ (Few /\ OneDown => PlaceInv)
  BY <1>1 DEF SlipInv
<1>4. l \notin App /\ c # "new" /\ Onward(l, t, c)
  <2>1. l \notin App /\ c # "new"
    BY <1>0, <1>1, <1>3 DEF App, TiedInv, Tied
  <2> QED BY <1>0, <1>1, <1>2, <2>1 DEF Onward, Tied, Removing
<1>5. /\ listen'[l] = t /\ \A k \in Launchers : k # l => listen'[k] = listen[k]
      /\ App \subseteq App' /\ App' \subseteq App \cup {l}
      /\ CameInv' /\ TiedInv' /\ (Few' => Few) /\ (OneDown' => OneDown)
  BY <1>3, <1>4, OnwardFacts
<1>6. l \in App'
  BY <1>2, <1>5 DEF App
<1>7. Good(heap, s) /\ s.len \in Nat /\ heap \in Heaps
  BY <1>0, <1>1, Threads DEF InUse
<1>8. /\ ns.len = s.len + 1 /\ At(nh, ns, s.len + 1) = l
      /\ \A i \in 1..s.len : At(nh, ns, i) = At(heap, s, i)
      /\ \A y \in Launchers : Found(nh, y) => y = l \/ Found(heap, y)
  BY <1>0, <1>7, AppendPlaces
<1>9. SlotInv'
  <2>1. \A y \in Launchers : Found(nh, y) => y \in App'
    BY <1>3, <1>5, <1>6, <1>8 DEF SlotInv
  <2> QED BY <1>1, <2>1 DEF SlotInv, Found
<1>10. ASSUME Few', OneDown' PROVE PlaceInv'
  <2>1. PlaceInv /\ Few
    BY <1>3, <1>5, <1>10
  <2>2. \A a, b \in App : a = b
    <3>1. \A a \in App : a \in Launchers /\ conn[a] # "new" /\ a # l
      BY <1>3, <1>4 DEF App, TiedInv, Tied
    <3> QED BY <1>0, <1>4, <2>1, <3>1 DEF Few
  <2>3. \A n : Short(n, App) => n <= 1
    BY <2>2 DEF Short
  <2>4. s.len <= 1
    BY <1>0, <1>1, <2>1, <2>3 DEF PlaceInv, Sure
  <2>5. /\ s.len = 1 => At(heap, s, 1) \in App
        /\ s.len = 1 => At(nh, ns, 1) = At(heap, s, 1)
    <3> SUFFICES ASSUME s.len = 1
                 PROVE  At(heap, s, 1) \in App /\ At(nh, ns, 1) = At(heap, s, 1)
      OBVIOUS
    <3>1. /\ s.arr \in 1..Len(heap) /\ 1 \in 1..Len(heap[s.arr])
          /\ heap[s.arr][1] \in Launchers
      BY <1>7, HeapTypes DEF Good
    <3>2. Found(heap, heap[s.arr][1])
      BY <3>1 DEF Found
    <3> QED BY <1>3, <1>8, <3>1, <3>2 DEF SlotInv, At
  <2>6. Fine(nh, ns, App')
    <3>1. CASE s.len = 0
      BY <1>8, <3>1 DEF Fine, Short
    <3>2. CASE s.len = 1
      <4>1. ns.len = 2 /\ At(nh, ns, 2) = l
        BY <1>8, <3>2
      <4>2. At(nh, ns, 1) \in App' /\ At(nh, ns, 1) # l
        BY <1>4, <1>5, <2>5, <3>2
      <4> QED BY <1>6, <4>1, <4>2 DEF Fine, Short
    <3> QED BY <1>7, <2>4, <3>1, <3>2
  <2>7. ASSUME NEW k \in Launchers PROVE Sure(nh, ns, listen'[k], k, App')
    <3>1. CASE k = l
      BY <1>2, <1>5, <3>1 DEF Sure, Removing
    <3>2. CASE k # l
      <4>0. PICK u : u = listen[k]
        OBVIOUS
      <4>1. Sure(heap, launchers, u, k, App) /\ InUse(heap, u) /\ u.len \in Nat
        BY <2>1, <4>0, Threads DEF PlaceInv
      <4>2. /\ u.pc \in {"append", "remove", "store"} => u.len <= 1
            /\ u.pc = "store" => u.now.len <= 1
        BY <2>3, <4>1 DEF Sure
      <4>3. Removing(u) => u.at <= ns.len
        BY <1>7, <1>8, <4>1, <4>2 DEF InUse, Removing
      <4>4. Sure(nh, ns, u, k, App')
        <5>1. u.pc \in {"append", "remove", "store"} => Short(u.len, App') /\ u.len # 2
          BY <4>1, <4>2 DEF Short
        <5>2. u.pc = "store" => Short(u.now.len, App')
          BY <4>2 DEF Short
        <5> QED BY <4>3, <5>1, <5>2 DEF Sure, Removing
      <4> QED BY <1>5, <3>2, <4>0, <4>4
    <3> QED BY <3>1, <3>2
  <2> QED BY <1>1, <2>6, <2>7 DEF PlaceInv, Fine, Sure, Short, Removing, At
<1> QED BY <1>5, <1>9, <1>10 DEF SlipInv

(* The one step that makes a slice shorter: the launcher is not found      *)
(* again behind its place, so its listener ends.                           *)
LEMMA SlipStore ==
    ASSUME AllTypes, SlipInv, NEW l \in Launchers, ListenStore(l) PROVE SlipInv'
<1>0. PICK s, nh, ns, c, at : /\ s = listen[l] /\ c = conn[l] /\ at = s.at
                              /\ nh = SliceRemove(heap, s.now, at).heap
                              /\ ns = SliceRemove(heap, s.now, at).slice
  OBVIOUS
<1>1. /\ s.pc = "store" /\ heap' = nh /\ launchers' = ns /\ crashed = "no"
      /\ Search(l, nh, s, at + 1) /\ conn' = [conn EXCEPT ![l] = c]
  BY <1>0 DEF ListenStore, Alive, AllTypes, NetType
<1>2. CameInv /\ TiedInv /\ SlotInv /\ (Few /\ OneDown => PlaceInv)
  BY <1>1 DEF SlipInv
<1>3. c = "down"
  BY <1>0, <1>1, <1>2 DEF TiedInv, Tied, Removing
<1>4. PICK t : /\ listen' = [listen EXCEPT ![l] = t]
               /\ \/ t.pc = "ended" /\ Places(nh, s, l, at + 1) = {}
                  \/ t.pc = "remove" /\ Places(nh, s, l, at + 1) # {}
  <2>1. /\ Listener("ended", EmptySlice, 0).pc = "ended"
        /\ \A i : Listener("remove", s, i).pc = "remove"
    BY DEF Listener
  <2> QED BY <1>1, <2>1 DEF Search
<1>5. Onward(l, t, c)
  BY <1>0, <1>1, <1>3, <1>4 DEF Onward, Tied, Removing
<1>6. /\ listen'[l] = t
      /\ \A k \in Launchers : k # l => listen'[k] = listen[k] /\ conn'[k] = conn[k]
      /\ App \subseteq App' /\ conn'[l] = c
      /\ CameInv' /\ TiedInv' /\ (Few' => Few) /\ (OneDown' => OneDown)
  BY <1>2, <1>5, OnwardFacts
<1>7. /\ Good(heap, s) /\ Good(heap, s.now) /\ heap \in Heaps /\ s.len \in Nat
      /\ s.now.len \in Nat /\ at \in 1..s.len /\ at \in 1..s.now.len
  BY <1>0, <1>1, Threads DEF InUse, Header
<1>8. /\ ns.len = s.now.len - 1
      /\ At(nh, s.now, s.now.len) = At(heap, s.now, s.now.len)
      /\ \A y : Found(nh, y) => Found(heap, y)
  BY <1>0, <1>7, RemovePlaces
<1>9. SlotInv'
  <2>1. \A y \in Launchers : Found(nh, y) => y \in App'
    BY <1>2, <1>6, <1>8 DEF SlotInv
  <2> QED BY <1>1, <2>1 DEF SlotInv, Found
<1>10. ASSUME Few', OneDown' PROVE PlaceInv'
  <2>1. PlaceInv /\ OneDown
    BY <1>2, <1>6, <1>10
  <2>2. /\ Sure(heap, launchers, s, l, App) /\ Fine(heap, launchers, App)
        /\ s.len <= 2 /\ s.now.len <= 2
    <3>1. Sure(heap, launchers, s, l, App) /\ Fine(heap, launchers, App)
      BY <1>0, <2>1 DEF PlaceInv
    <3>2. Short(s.len, App) /\ Short(s.now.len, App)
      BY <1>1, <3>1 DEF Sure
    <3>3. s.len <= 2 /\ s.now.len <= 2
      BY <1>7, <3>2 DEF Short
    <3> QED BY <3>1, <3>3
  <2>3. ns.len <= 1
    BY <1>7, <1>8, <2>2
  <2>4. Places(nh, s, l, at + 1) = {}
    <3> SUFFICES ASSUME NEW i \in Places(nh, s, l, at + 1) PROVE FALSE
      OBVIOUS
    <3>1. at = 1 /\ i = 2 /\ s.len = 2 /\ At(nh, s, i) = l
      BY <1>7, <2>2 DEF Places
    <3>2. /\ s.now = launchers /\ s.arr = launchers.arr /\ launchers.len = 2
          /\ At(heap, launchers, 1) = l
      BY <1>0, <1>1, <2>2, <3>1 DEF Sure, Removing
    <3>3. At(heap, launchers, 2) # l
      BY <2>2, <3>2 DEF Fine
    <3>4. At(nh, launchers, 2) = At(heap, launchers, 2)
      BY <1>8, <3>2
    <3> QED BY <3>1, <3>2, <3>3, <3>4 DEF At
  <2>5. t.pc = "ended"
    BY <1>4, <2>4
  <2>6. Fine(nh, ns, App')
    BY <2>3 DEF Fine, Short
  <2>7. ASSUME NEW k \in Launchers PROVE Sure(nh, ns, listen'[k], k, App')
    <3>1. CASE k = l
      BY <1>6, <2>5, <3>1 DEF Sure, Removing
    <3>2. CASE k # l
      <4>1. Sure(heap, launchers, listen[k], k, App) /\ ~ Removing(listen[k])
        BY <1>0, <1>2, <1>3, <2>1, <3>2 DEF PlaceInv, OneDown, TiedInv, Tied
      <4>2. Sure(heap, launchers, listen[k], k, App')
        BY <1>6, <4>1, ShortGrows
      <4> QED BY <1>6, <3>2, <4>1, <4>2 DEF Sure, Removing
    <3> QED BY <3>1, <3>2
  <2> QED BY <1>1, <2>6, <2>7 DEF PlaceInv, Fine, Sure, Short, Removing, At
<1> QED BY <1>6, <1>9, <1>10 DEF SlipInv

LEMMA SlipListen ==
    ASSUME AllTypes, AnswerInv, SlipInv, NEW l \in Launchers, Attach(l) \/ ListenStep(l)
    PROVE  SlipInv'
<1>1. CASE Attach(l)
  BY <1>1, SlipAttach
<1>2. CASE AppendLauncher(l)
  BY <1>2, SlipAppend
<1>3. CASE ListenFails(l)
  BY <1>3, SlipFails
<1>4. CASE ListenRemove(l)
  <2>1. CASE Ends("panic")
    BY <2>1, SlipEnds
  <2>2. CASE ~ Ends("panic")
    BY <1>4, <2>2, SlipTakes DEF ListenRemove
  <2> QED BY <2>1, <2>2
<1>5. CASE ListenStore(l)
  BY <1>5, SlipStore
<1>6. CASE ListenRead(l)
  <2>0. PICK x, to, pc : /\ x = Head(inbox[l]) /\ to = requests[l][x.id]
                         /\ pc = IF to = None THEN "stuck" ELSE "deliver"
    OBVIOUS
  <2> DEFINE t == [listen[l] EXCEPT !.pc = pc, !.msg = x, !.at = to]
  <2>1. /\ listen[l].pc = "read" /\ listen' = [listen EXCEPT ![l] = t]
        /\ UNCHANGED <<heap, launchers, conn>> /\ crashed = "no"
    BY <1>6, <2>0 DEF ListenRead, sliceVars, Alive
  <2>2. t.pc = pc
    BY Threads DEF Listening
  <2> HIDE DEF t
  <2> QED BY <2>0, <2>1, <2>2, SlipPlain
<1>7. CASE ListenDeliver(l)
  <2>1. CASE Ends("panic")
    BY <2>1, SlipEnds
  <2>2. CASE ~ Ends("panic")
    <3> DEFINE t == Listener("read", EmptySlice, 0)
    <3>1. /\ listen[l].pc = "deliver" /\ listen' = [listen EXCEPT ![l] = t]
          /\ UNCHANGED <<heap, launchers, conn>> /\ crashed = "no"
      BY <1>7, <2>2 DEF ListenDeliver, sliceVars, Alive
    <3>2. t.pc = "read"
      BY DEF Listener
    <3> HIDE DEF t
    <3> QED BY <3>1, <3>2, SlipPlain
  <2> QED BY <2>1, <2>2
<1> QED BY <1>1, <1>2, <1>3, <1>4, <1>5, <1>6, <1>7 DEF ListenStep

LEMMA SlipNet ==
    ASSUME AllTypes, SlipInv, NEW l \in Launchers, Answer(l) \/ Ask(l) \/ Disconnect(l)
    PROVE  SlipInv'
<1>1. CASE Answer(l) \/ Ask(l)
  BY <1>1, SlipRest DEF Answer, Ask, Alive, sliceVars
<1>2. CASE Disconnect(l)
  <2> DEFINE c == "down"
  <2>0. PICK t : t = listen[l]
    OBVIOUS
  <2>1. /\ conn' = [conn EXCEPT ![l] = c] /\ conn[l] = "up" /\ crashed = "no"
        /\ UNCHANGED <<heap, launchers, listen>>
    BY <1>2 DEF Disconnect, sliceVars, Alive
  <2>2. listen' = [listen EXCEPT ![l] = t]
    BY <2>0, <2>1 DEF AllTypes, ThreadType
  <2>3. c = "down" /\ Tied(t, c)
    BY DEF Tied
  <2> HIDE DEF c
  <2>4. Onward(l, t, c)
    BY <2>0, <2>1, <2>2, <2>3 DEF Onward, App
  <2> QED BY <2>0, <2>1, <2>4, SlipOnward DEF PlaceInv
<1> QED BY <1>1, <1>2

LEMMA SlipInit == Init => SlipInv
<1> SUFFICES ASSUME Init PROVE SlipInv
  OBVIOUS
<1>1. Listener("off", EmptySlice, 0).pc = "off"
  BY DEF Listener
<1>2. /\ \A l \in Launchers : listen[l].pc = "off" /\ conn[l] = "new"
      /\ heap = EmptyHeap /\ launchers = EmptySlice
  BY <1>1 DEF Init
<1>3. CameInv
  <2>1. {l \in Launchers : conn[l] # "new"} = {}
    BY <1>2
  <2> QED BY <2>1, FS_EmptySet DEF CameInv
<1>4. TiedInv
  BY <1>2 DEF TiedInv, Tied, Removing
<1>5. SlotInv
  <2> DEFINE e == <<>>
  <2>1. Len(e) = 0 /\ Len(<<e>>) = 1 /\ <<e>>[1] = e
    OBVIOUS
  <2>2. heap = <<e>>
    BY <1>2 DEF EmptyHeap
  <2> HIDE DEF e
  <2>3. \A x : ~ Found(heap, x)
    BY <2>1, <2>2 DEF Found
  <2> QED BY <2>3 DEF SlotInv
<1>6. PlaceInv
  <2>1. launchers.len = 0
    BY <1>2 DEF EmptySlice
  <2> QED BY <1>2, <2>1 DEF PlaceInv, Fine, Short, Sure, Removing
<1> QED BY <1>3, <1>4, <1>5, <1>6 DEF SlipInv

LEMMA SlipStep == AllTypes /\ AnswerInv /\ SlipInv /\ [Next]_vars => SlipInv'
<1> SUFFICES ASSUME AllTypes, AnswerInv, SlipInv, [Next]_vars PROVE SlipInv'
  OBVIOUS
<1>1. CASE UNCHANGED vars
  BY <1>1, SlipRest DEF vars
<1>2. ASSUME NEW l \in Launchers, MapRace(l) PROVE SlipInv'
  BY <1>2, SlipEnds DEF MapRace
<1>3. ASSUME NEW p \in Calls, Pick(p) \/ CallStep(p) PROVE SlipInv'
  BY <1>3, SlipRest DEF Pick, CallStep, Send, Write, Register, Delete, Alive, sliceVars
<1>4. CASE Next
  BY <1>2, <1>3, <1>4, SlipNet, SlipListen DEF Next
<1> QED BY <1>1, <1>4

-----------------------------------------------------------------------------
(* What explains the end of the process, now and after the step that ends  *)
(* it.                                                                     *)
PanicWhy == \/ \E p \in Calls : SharesId(p)
            \/ asks > 0 \/ torn # {}
            \/ \E k, l \in Launchers : k # l /\ conn[k] = "down" /\ conn[l] = "down"
            \/ Cardinality({l \in Launchers : conn[l] # "new"}) > 2
MapWhy   == \/ \E p, q \in Calls : p # q /\ call[p].to = call[q].to /\ call[p].to # None
            \/ asks > 0
            \/ \E p \in Calls : call[p].pc = "register"

LEMMA WhyStays ==
    ASSUME NEW how \in {"panic", "map"}, Ends(how), how = "panic" => PanicWhy,
           how = "map" => MapWhy
    PROVE  PanicExplained'
<1>1. UNCHANGED <<conn, call, asks, torn>> /\ crashed' = how
  BY DEF Ends
<1>2. PanicWhy => PanicWhy'
  BY <1>1 DEF PanicWhy, SharesId, Sent
<1>3. MapWhy => MapWhy'
  BY <1>1 DEF MapWhy
<1>4. (crashed' = "panic" => PanicWhy') /\ (crashed' = "map" => MapWhy')
  BY <1>1, <1>2, <1>3
<1> QED BY <1>4 DEF PanicExplained, PanicWhy, MapWhy

(* Three launchers that have come are more than two.                       *)
LEMMA FewCome ==
    ASSUME CameInv, ~ (Cardinality({l \in Launchers : conn[l] # "new"}) > 2)
    PROVE  Few
<1> DEFINE came == {l \in Launchers : conn[l] # "new"}
<1>1. IsFiniteSet(came) /\ ~ (Cardinality(came) > 2)
  BY DEF CameInv
<1>2. Cardinality(came) \in Nat
  BY <1>1, FS_CardinalityType
<1>3. ASSUME NEW a \in came, NEW b \in came, NEW c \in came, a # b, b # c, a # c
      PROVE  FALSE
  <2> HIDE DEF came
  <2>1. IsFiniteSet({a}) /\ Cardinality({a}) = 1
    BY FS_Singleton
  <2> DEFINE ab == {a} \cup {b}
  <2>2. IsFiniteSet(ab) /\ Cardinality(ab) = 2
    BY <1>3, <2>1, FS_AddElement
  <2>3. c \notin ab /\ ab \cup {c} \in SUBSET came
    BY <1>3
  <2> HIDE DEF ab
  <2>4. Cardinality(ab \cup {c}) = 3
    BY <2>2, <2>3, FS_AddElement
  <2>5. Cardinality(ab \cup {c}) <= Cardinality(came)
    BY <1>1, <2>3, FS_Subset
  <2> QED BY <1>1, <1>2, <2>4, <2>5
<1> QED BY <1>3 DEF Few

(* launchers[i+1:] beyond the end.                                         *)
LEMMA RemoveWhy ==
    ASSUME AllTypes, SlipInv, crashed = "no", NEW l \in Launchers,
           listen[l].pc = "remove", listen[l].at > launchers.len
    PROVE  PanicWhy
<1> SUFFICES ASSUME ~ PanicWhy PROVE FALSE
  OBVIOUS
<1>1. Few /\ OneDown
  BY FewCome DEF PanicWhy, SlipInv, OneDown
<1>2. Sure(heap, launchers, listen[l], l, App)
  BY <1>1 DEF SlipInv, PlaceInv
<1>3. listen[l].at <= launchers.len
  BY <1>2 DEF Sure, Removing
<1>4. listen[l].at \in Nat /\ launchers.len \in Nat
  BY Threads DEF InUse
<1> QED BY <1>3, <1>4

(* A send to a call that has its answer and closes the channel.            *)
LEMMA DeliverWhy ==
    ASSUME AllTypes, AnswerInv, SoleInv, NEW l \in Launchers, listen[l].pc = "deliver",
           call[listen[l].at].pc \in {"delete", "done"}
    PROVE  PanicWhy
<1> SUFFICES ASSUME ~ PanicWhy PROVE FALSE
  OBVIOUS
<1>1. PICK p : p = listen[l].at
  OBVIOUS
<1>2. p \in Calls /\ call[p].pc \in {"delete", "done"}
  BY <1>1 DEF AnswerInv, Handed
<1>3. asks \in Nat
  BY IdsAssumption DEF AllTypes, NetType
<1>4. Clean(p)
  BY <1>2, <1>3 DEF PanicWhy, Clean
<1>5. Hand(listen[l], p)
  BY <1>1, <1>4, OwnHand
<1>6. Nothing(remote[l], inbox[l], listen[l], p)
  BY <1>2, <1>4 DEF SoleInv, OnceInv, Single, Waits
<1> QED BY <1>5, <1>6 DEF Nothing

(* A read or a write of the map beside another.                            *)
LEMMA RaceWhy ==
    ASSUME AllTypes, AnswerInv, SoleInv, NEW l \in Launchers, NEW p \in Updating(l),
           Looking(l) \/ Updating(l) # {p}
    PROVE  MapWhy
<1> SUFFICES ASSUME ~ MapWhy PROVE FALSE
  OBVIOUS
<1>1. /\ p \in Calls /\ call[p].to = l /\ call[p].pc = "delete" /\ l # None
      /\ asks = 0
  <2>1. asks \in Nat
    BY IdsAssumption DEF AllTypes, NetType
  <2> QED BY <2>1, NoneAssumption DEF Updating, MapWhy
<1>2. \A q \in Calls : call[q].to = l => q = p
  BY <1>1 DEF MapWhy
<1>3. Updating(l) = {p}
  BY <1>2 DEF Updating
<1>4. PICK s, m : s = inbox[l] /\ m = Head(s)
  OBVIOUS
<1>5. s # <<>> /\ s \in Seq(Message)
  BY <1>3, <1>4, Threads DEF Looking
<1>6. m \in Message /\ m \in Box(s)
  <2>1. Len(s) \in Nat /\ Len(s) >= 1 /\ m = s[1] /\ \A i \in 1..Len(s) : s[i] \in Message
    BY <1>4, <1>5
  <2> QED BY <2>1 DEF Box
<1>7. m.kind = "response"
  <2>1. Plain(s)
    BY <1>1, <1>4 DEF SoleInv, NoAsk
  <2> QED BY <1>4, <1>5, <2>1, TailIn
<1>8. m.for = p
  <2>1. AnswerTo(l, m)
    BY <1>4, <1>6 DEF AnswerInv, Flying
  <2> QED BY <1>2, <1>7, <2>1 DEF AnswerTo, Holds
<1>9. Clean(p)
  <2>1. p \notin torn
    BY <1>1, <1>2 DEF SoleInv, TornTwo
  <2>2. ~ SharesId(p)
    BY <1>1, <1>2 DEF SharesId
  <2> QED BY <1>1, <2>1, <2>2 DEF Clean
<1>10. InNone(s, p)
  BY <1>1, <1>4, <1>9 DEF SoleInv, OnceInv, Single, Waits, Nothing
<1> QED BY <1>4, <1>5, <1>8, <1>10, TailIn

(* Every step that ends the process has its explanation; no step follows.  *)
LEMMA WhyStep ==
    AllTypes /\ AnswerInv /\ SoleInv /\ SlipInv /\ PanicExplained /\ [Next]_vars
    => PanicExplained'
<1> SUFFICES ASSUME AllTypes, AnswerInv, SoleInv, SlipInv, PanicExplained, [Next]_vars
             PROVE  PanicExplained'
  OBVIOUS
<1>1. CASE UNCHANGED vars
  BY <1>1 DEF vars, netVars, PanicExplained, SharesId, Sent
<1>2. ASSUME Alive, crashed = "no" PROVE PanicExplained'
  BY <1>2 DEF Alive, PanicExplained
<1>3. ASSUME NEW l \in Launchers,
             Attach(l) \/ Answer(l) \/ Disconnect(l) \/ Ask(l) \/ AppendLauncher(l)
             \/ ListenRead(l) \/ ListenFails(l) \/ ListenStore(l)
      PROVE  PanicExplained'
  BY <1>2, <1>3 DEF Attach, Answer, Disconnect, Ask, AppendLauncher, ListenRead,
                    ListenFails, ListenStore, Alive
<1>4. ASSUME NEW p \in Calls, Pick(p) \/ CallStep(p) PROVE PanicExplained'
  BY <1>2, <1>4 DEF Pick, CallStep, Send, Write, Register, Delete, Alive
<1>5. ASSUME NEW l \in Launchers, ListenDeliver(l) PROVE PanicExplained'
  <2>1. CASE Alive
    BY <1>2, <2>1 DEF Alive
  <2>2. CASE ~ Alive
    <3>1. /\ listen[l].pc = "deliver" /\ Ends("panic")
          /\ call[listen[l].at].pc \in {"delete", "done"}
      BY <1>5, <2>2 DEF ListenDeliver
    <3>2. PanicWhy
      BY <3>1, DeliverWhy
    <3> QED BY <3>1, <3>2, WhyStays
  <2> QED BY <2>1, <2>2
<1>6. ASSUME NEW l \in Launchers, ListenRemove(l) PROVE PanicExplained'
  <2>1. CASE Takes(l)
    BY <1>2, <2>1 DEF Takes, Alive
  <2>2. CASE ~ Takes(l)
    <3>1. /\ listen[l].pc = "remove" /\ Ends("panic") /\ crashed = "no"
          /\ listen[l].at > launchers.len
      BY <1>6, <2>2 DEF ListenRemove, Ends
    <3>2. PanicWhy
      BY <3>1, RemoveWhy
    <3> QED BY <3>1, <3>2, WhyStays
  <2> QED BY <2>1, <2>2
<1>7. ASSUME NEW l \in Launchers, MapRace(l) PROVE PanicExplained'
  <2>1. Ends("map") /\ MapWhy
    BY <1>7, RaceWhy DEF MapRace
  <2> QED BY <2>1, WhyStays
<1>8. CASE Next
  BY <1>3, <1>4, <1>5, <1>6, <1>7, <1>8 DEF Next, ListenStep
<1> QED BY <1>1, <1>8

(* Whatever ends the process outside the HTTP handlers (a send on a closed *)
(* channel, launchers[i+1:] beyond the end, the race check of a map) has a *)
(* cause that can be seen: without a shared id, an overlapped write, a     *)
(* request of a launcher, a second launcher gone or a third come there is  *)
(* no panic, and with one call at a launcher that asks nothing the map is  *)
(* touched by two at most while that call registers.                       *)
THEOREM PanicsExplained == Spec => []PanicExplained
<1> DEFINE Inv == AllTypes /\ AnswerInv /\ SoleInv /\ SlipInv /\ PanicExplained
<1>1. Init => Inv
  <2>1. Init => PanicExplained
    BY DEF Init, PanicExplained
  <2> QED BY <2>1, TypeInit, AnswerInit, SoleInit, SlipInit
<1>2. Inv /\ [Next]_vars => Inv'
  BY TypeStep, AnswerStep, SoleStep, SlipStep, WhyStep
<1> HIDE DEF Inv
<1>3. Inv => PanicExplained
  BY DEF Inv
<1> QED BY <1>1, <1>2, <1>3, PTL DEF Spec
=============================================================================
