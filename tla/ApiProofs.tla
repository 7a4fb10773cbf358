----------------------------- MODULE ApiProofs -----------------------------
(***************************************************************************)
(* Theorems about Api, for every choice of connections, any number of      *)
(* requests and every bound.                                               *)
(***************************************************************************)
EXTENDS Api, TLAPS

-----------------------------------------------------------------------------
(* What a step does to its request: it becomes h.                          *)
Becomes(r, h) == h \in Handler /\ req' = [req EXCEPT ![r] = h]

LEMMA BecomesOnly ==
    ASSUME TypeOK, NEW r \in Requests, NEW h, Becomes(r, h)
    PROVE  /\ req'[r] = h /\ req' \in [Requests -> Handler]
           /\ \A q \in Requests \ {r} : req'[q] = req[q]
BY DEF TypeOK, Becomes

LEMMA ReqType ==
    ASSUME TypeOK, NEW r \in Requests
    PROVE  req[r] \in Handler /\ req[r].reply \in Reply
BY DEF TypeOK, Handler

Ops == {"read", "command", "deposit", "changepass", "restore"}

LEMMA KindType ==
    ASSUME NEW kind \in Kinds
    PROVE  /\ kind.op \in Ops /\ kind.arg \in Int
           /\ kind.on \in Conns \cup {"unknown"}
           /\ kind.op \in {"changepass", "restore"} => kind.on = "opendexd"
<1>1. Targets \subseteq Conns \cup {"unknown"}
  BY DEF Targets
<1>2. 0 \in Int /\ Amounts \subseteq Int
  BY AmountsAssumption
<1> QED BY <1>1, <1>2 DEF Kinds, Ops

(* The kinds of steps of a request.                                        *)
Receives(r, h) ==
    /\ serving /\ req[r].pc = "new" /\ h.kind \in Kinds
    /\ h.pc = IF h.kind.op = "restore" THEN "backup" ELSE "client"
    /\ h.sent = h.kind.arg % Width /\ h.since = Len(dirs)
    /\ h.reply = req[r].reply /\ h.files = req[r].files /\ h.failed = req[r].failed

Refuses(r, h) ==
    /\ serving /\ req[r].pc = "new" /\ h.kind \in Kinds /\ h.pc = "done"
    /\ h.reply = [code |-> 400, why |-> "invalid"]

(* A file is opened; a file has been read, of which x is returned.         *)
Same(r, h) ==
    /\ h.kind = req[r].kind /\ h.reply = req[r].reply /\ h.since = req[r].since
    /\ h.sent = req[r].sent

Opens(r, h) ==
    LET f == Now[Len(req[r].files) + 1] IN
    /\ req[r].pc = "backup" /\ h.pc = "rest"
    /\ f # None /\ h.first = f.first /\ h.opened = Len(dirs)
    /\ h.files = req[r].files /\ h.failed = req[r].failed

Returns(r, h, x) ==
    LET i == Len(req[r].files) + 1 IN
    /\ h.pc = IF i = Len(Files) THEN "client" ELSE "backup"
    /\ h.files = Append(req[r].files, x) /\ (req[r].failed => h.failed)
    /\ \/ /\ req[r].pc = "backup"
          /\ \/ x = None /\ h.failed
             \/ x \in File /\ x = Now[i]
       \/ /\ req[r].pc = "rest" /\ x \in File /\ x.first = req[r].first
          /\ \/ x.rest = 0 /\ h.failed
             \/ \E k \in Lives(i, req[r].opened) : x.rest = dirs[k][i].rest

Reads(r, h) == /\ Opens(r, h) \/ \E x \in File \cup {None} : Returns(r, h, x)
               /\ Same(r, h)

Sends(r, h) ==
    /\ req[r].pc = "client" /\ h.pc = "calling"
    /\ ~UnknownCurrency(r) /\ Client(r) # None
    /\ h.kind = req[r].kind /\ h.reply = req[r].reply /\ h.since = req[r].since
    /\ h.sent = req[r].sent /\ h.files = req[r].files /\ h.failed = req[r].failed

Answers(r, h) ==
    /\ h.pc = IF req[r].kind.op = "changepass" THEN "returned" ELSE "done"
    /\ \/ /\ req[r].pc = "client"
          /\ h.reply = [code |-> 500, why |-> "panic"]
          /\ \/ req[r].kind.on = "unknown"
             \/ req[r].kind.on = "boltz" /\ Client(r) = None
       \/ /\ req[r].pc = "client"
          /\ h.reply = [code |-> 500, why |-> "noClient"]
          /\ req[r].kind.on \in {"opendexd", "lnd"} /\ Client(r) = None
       \/ /\ req[r].pc = "calling"
          /\ \/ call[r] = "applied" /\ h.reply = [code |-> 200, why |-> "none"]
             \/ call[r] = "rejected" /\ h.reply = [code |-> 500, why |-> "refused"]
             \/ h.reply = [code |-> 500, why |-> "deadline"]
    /\ h.kind = req[r].kind /\ h.since = req[r].since
    /\ h.sent = req[r].sent /\ h.files = req[r].files /\ h.failed = req[r].failed

Removes(r, h) ==
    /\ req[r].pc = "returned" /\ h.pc = "done"
    /\ marker' = (marker /\ h.failed)
    /\ h.kind = req[r].kind /\ h.reply = req[r].reply /\ h.since = req[r].since
    /\ h.sent = req[r].sent /\ h.files = req[r].files

LEMMA ReceiveBecomes ==
    ASSUME TypeOK, NEW r \in Requests, Receive(r)
    PROVE  /\ \E h : Becomes(r, h) /\ Receives(r, h)
           /\ UNCHANGED <<call, marker, serving, held, dirs>>
<1>1. PICK kind \in Kinds :
         Handle(r, [req[r] EXCEPT !.kind = kind, !.since = Len(dirs),
                        !.pc = IF kind.op = "restore" THEN "backup" ELSE "client",
                        !.sent = kind.arg % Width])
  BY DEF Receive
<1> DEFINE h == [req[r] EXCEPT !.kind = kind, !.since = Len(dirs),
                        !.pc = IF kind.op = "restore" THEN "backup" ELSE "client",
                        !.sent = kind.arg % Width]
<1>2. kind.arg % Width \in 0..(Width - 1)
  BY KindType, BoundsAssumption
<1>3. Len(dirs) \in 1..MaxBackups
  BY DEF TypeOK
<1>4. h \in Handler
  BY <1>2, <1>3, ReqType DEF Handler, Pcs
<1>5. serving /\ req[r].pc = "new"
  BY DEF Receive
<1>6. Receives(r, h)
  BY <1>5, ReqType DEF Receives, Handler
<1>7. req' = [req EXCEPT ![r] = h]
  BY <1>1 DEF Handle
<1> HIDE DEF h
<1> QED BY <1>4, <1>6, <1>7 DEF Becomes, Receive, Others

LEMMA BadRequestBecomes ==
    ASSUME TypeOK, NEW r \in Requests, BadRequest(r)
    PROVE  /\ \E h : Becomes(r, h) /\ Refuses(r, h)
           /\ UNCHANGED <<call, marker, serving, held, dirs>>
<1>1. PICK kind \in Kinds :
         Handle(r, [req[r] EXCEPT !.kind = kind, !.pc = "done",
                                  !.reply = [code |-> 400, why |-> "invalid"]])
  BY DEF BadRequest
<1> DEFINE reply == [code |-> 400, why |-> "invalid"]
           h == [req[r] EXCEPT !.kind = kind, !.pc = "done", !.reply = reply]
<1>2. reply \in Reply
  BY DEF Reply
<1>3. req' = [req EXCEPT ![r] = h]
  BY <1>1 DEF Handle
<1> HIDE DEF reply
<1>4. h \in Handler
  BY <1>2, ReqType DEF Handler, Pcs
<1>5. h.kind = kind /\ h.pc = "done" /\ h.reply = reply
  BY ReqType DEF Handler
<1> HIDE DEF h
<1>6. Refuses(r, h)
  BY <1>5 DEF BadRequest, Refuses, reply
<1> QED BY <1>3, <1>4, <1>6 DEF Becomes, BadRequest, Others

(* restore reads one file after the other, no more than there are.         *)
Reading == {"backup", "rest"}

FilesInv ==
    \A r \in Requests :
        /\ req[r].pc = "new" => req[r].files = <<>>
        /\ req[r].pc \in Reading => Len(req[r].files) < Len(Files)

LEMMA FilesLength == Len(Files) = 3 /\ 1..Len(Files) = {1, 2, 3}
BY DEF Files

LEMMA NowType == ASSUME TypeOK PROVE Now \in Directory
BY BoundsAssumption DEF TypeOK, Now

LEMMA RewritingsType ==
    ASSUME NEW f \in File \cup {None}, NEW v \in Nat
    PROVE  Rewritings(f, v) \subseteq File \cup {None}
<1>1. \A a, b \in Nat : Contents(a, b) \in File
  BY DEF Contents, File
<1>2. ASSUME f # None PROVE f.first \in Nat
  BY <1>2 DEF File
<1> QED BY <1>1, <1>2 DEF Rewritings

LEMMA TookBecomes ==
    ASSUME TypeOK, NEW r \in Requests, NEW x \in File \cup {None}, NEW fails \in BOOLEAN,
           Took(r, x, fails)
    PROVE  \E h : /\ Becomes(r, h) /\ Same(r, h) /\ h.files = Append(req[r].files, x)
                  /\ h.failed = (req[r].failed \/ fails)
                  /\ h.pc = IF Len(req[r].files) + 1 = Len(Files) THEN "client" ELSE "backup"
<1> DEFINE files == Append(req[r].files, x)
           failed == req[r].failed \/ fails
           pc == IF Len(req[r].files) + 1 = Len(Files) THEN "client" ELSE "backup"
           h == [req[r] EXCEPT !.files = files, !.failed = failed, !.pc = pc]
<1>1. req' = [req EXCEPT ![r] = h]
  BY DEF Took, Handle
<1>2. req[r] \in Handler /\ req[r].files \in Seq(File \cup {None})
  BY ReqType DEF Handler
<1>3. files \in Seq(File \cup {None}) /\ failed \in BOOLEAN /\ pc \in Pcs
  BY <1>2 DEF Pcs, Handler
<1> HIDE DEF files, failed, pc
<1>4. h \in Handler
  BY <1>2, <1>3 DEF Handler
<1>5. h.files = files /\ h.failed = failed /\ h.pc = pc /\ Same(r, h)
  BY <1>2 DEF Handler, Same
<1> HIDE DEF h
<1> QED BY <1>1, <1>4, <1>5 DEF Becomes, files, failed, pc

LEMMA ReadFileBecomes ==
    ASSUME TypeOK, FilesInv, NEW r \in Requests, ReadFile(r)
    PROVE  /\ \E h : Becomes(r, h) /\ Reads(r, h)
           /\ UNCHANGED <<call, marker, serving, held, dirs>>
<1>0. UNCHANGED <<call, marker, serving, held, dirs>>
  BY DEF ReadFile, Others
<1>1. PICK i, f : i = Len(req[r].files) + 1 /\ f = Now[i]
  OBVIOUS
<1>2. req[r] \in Handler /\ req[r].files \in Seq(File \cup {None}) /\ req[r].pc = "backup"
  BY ReqType DEF Handler, ReadFile
<1>3. i \in 1..Len(Files)
  BY <1>1, <1>2, FilesLength DEF FilesInv, Reading
<1>4. f \in File \cup {None}
  BY <1>1, <1>3, NowType DEF Directory
<1>5. CASE Took(r, None, TRUE)
  <2>1. PICK h : /\ Becomes(r, h) /\ Same(r, h) /\ h.files = Append(req[r].files, None)
                 /\ h.failed = (req[r].failed \/ TRUE)
                 /\ h.pc = IF Len(req[r].files) + 1 = Len(Files) THEN "client" ELSE "backup"
    BY <1>5, TookBecomes
  <2>2. Returns(r, h, None)
    BY <1>2, <2>1 DEF Returns
  <2> QED BY <1>0, <2>1, <2>2 DEF Reads
<1>6. CASE f # None /\ Took(r, f, FALSE)
  <2>1. PICK h : /\ Becomes(r, h) /\ Same(r, h) /\ h.files = Append(req[r].files, f)
                 /\ h.failed = (req[r].failed \/ FALSE)
                 /\ h.pc = IF Len(req[r].files) + 1 = Len(Files) THEN "client" ELSE "backup"
    BY <1>4, <1>6, TookBecomes
  <2>3. f \in File
    BY <1>4, <1>6
  <2>2. Returns(r, h, f)
    BY <1>1, <1>2, <2>1, <2>3 DEF Returns
  <2> QED BY <1>0, <1>4, <2>1, <2>2 DEF Reads
<1>7. CASE /\ f # None
           /\ Handle(r, [req[r] EXCEPT !.pc = "rest", !.first = f.first, !.opened = Len(dirs)])
  <2> DEFINE h == [req[r] EXCEPT !.pc = "rest", !.first = f.first, !.opened = Len(dirs)]
  <2>1. f.first \in Nat /\ Len(dirs) \in 1..MaxBackups
    BY <1>4, <1>7 DEF File, TypeOK
  <2>2. h \in Handler
    BY <1>2, <2>1 DEF Handler, Pcs
  <2>3. /\ h.pc = "rest" /\ h.first = f.first /\ h.opened = Len(dirs)
        /\ h.files = req[r].files /\ h.failed = req[r].failed /\ Same(r, h)
    BY <1>2 DEF Handler, Same
  <2>4. req' = [req EXCEPT ![r] = h]
    BY <1>7 DEF Handle
  <2> HIDE DEF h
  <2>5. Opens(r, h)
    BY <1>1, <1>2, <1>7, <2>3 DEF Opens
  <2> QED BY <1>0, <2>2, <2>3, <2>4, <2>5 DEF Reads, Becomes
<1> QED BY <1>1, <1>5, <1>6, <1>7 DEF ReadFile

LEMMA LivesType ==
    ASSUME TypeOK, NEW i \in 1..Len(Files), NEW from \in Nat \ {0}, NEW k \in Lives(i, from)
    PROVE  k \in from..Len(dirs) /\ dirs[k][i] \in File /\ dirs[k][i] # None
<1>1. k \in from..Len(dirs) /\ dirs[k][i] # None
  BY DEF Lives
<1>2. k \in 1..Len(dirs)
  BY <1>1 DEF TypeOK
<1>3. dirs[k] \in Directory
  BY <1>2 DEF TypeOK
<1> QED BY <1>1, <1>3 DEF Directory

LEMMA ReadRestBecomes ==
    ASSUME TypeOK, FilesInv, NEW r \in Requests, ReadRest(r)
    PROVE  /\ \E h : Becomes(r, h) /\ Reads(r, h)
           /\ UNCHANGED <<call, marker, serving, held, dirs>>
<1>0. UNCHANGED <<call, marker, serving, held, dirs>>
  BY DEF ReadRest, Others
<1>1. PICK i, first : i = Len(req[r].files) + 1 /\ first = req[r].first
  OBVIOUS
<1>2. /\ req[r] \in Handler /\ req[r].files \in Seq(File \cup {None}) /\ req[r].pc = "rest"
      /\ first \in Nat /\ req[r].opened \in Nat \ {0}
  BY <1>1, ReqType, BoundsAssumption DEF Handler, ReadRest
<1>3. i \in 1..Len(Files)
  BY <1>1, <1>2, FilesLength DEF FilesInv, Reading
<1>4. ASSUME NEW rest \in Nat
      PROVE  /\ Contents(first, rest) \in File /\ Contents(first, rest).first = first
             /\ Contents(first, rest).rest = rest
  BY <1>2 DEF Contents, File
<1>6. CASE Took(r, Contents(first, 0), TRUE)
  <2>1. PICK x \in File : x = Contents(first, 0) /\ x.first = first /\ x.rest = 0
    BY <1>4
  <2>4. x \in File \cup {None} /\ Took(r, x, TRUE)
    BY <1>6, <2>1
  <2>2. PICK h : /\ Becomes(r, h) /\ Same(r, h) /\ h.files = Append(req[r].files, x)
                 /\ h.failed = (req[r].failed \/ TRUE)
                 /\ h.pc = IF Len(req[r].files) + 1 = Len(Files) THEN "client" ELSE "backup"
    BY <2>4, TookBecomes
  <2>3. Returns(r, h, x)
    BY <1>1, <1>2, <2>1, <2>2 DEF Returns
  <2> QED BY <1>0, <2>2, <2>3 DEF Reads
<1>7. ASSUME NEW k \in Lives(i, req[r].opened), Took(r, Contents(first, dirs[k][i].rest), FALSE)
      PROVE  \E h : Becomes(r, h) /\ Reads(r, h)
  <2>1. dirs[k][i].rest \in Nat
    BY <1>2, <1>3, LivesType DEF File
  <2>2. PICK x \in File : /\ x = Contents(first, dirs[k][i].rest) /\ x.first = first
                          /\ x.rest = dirs[k][i].rest
    BY <1>4, <2>1
  <2>5. x \in File \cup {None} /\ Took(r, x, FALSE)
    BY <1>7, <2>2
  <2>3. PICK h : /\ Becomes(r, h) /\ Same(r, h) /\ h.files = Append(req[r].files, x)
                 /\ h.failed = (req[r].failed \/ FALSE)
                 /\ h.pc = IF Len(req[r].files) + 1 = Len(Files) THEN "client" ELSE "backup"
    BY <2>5, TookBecomes
  <2>4. Returns(r, h, x)
    BY <1>1, <1>2, <1>7, <2>2, <2>3 DEF Returns
  <2> QED BY <2>3, <2>4 DEF Reads
<1> QED BY <1>0, <1>1, <1>6, <1>7 DEF ReadRest

LEMMA ReadsKeep ==
    ASSUME NEW r \in Requests, NEW h, Reads(r, h)
    PROVE  /\ req[r].pc \in Reading /\ h.pc \in Reading \cup {"client"} /\ Same(r, h)
           /\ h.kind = req[r].kind /\ h.reply = req[r].reply /\ h.since = req[r].since
BY DEF Reads, Opens, Returns, Same, Reading

LEMMA SendBecomes ==
    ASSUME TypeOK, NEW r \in Requests, Send(r)
    PROVE  /\ \E h : Becomes(r, h) /\ Sends(r, h)
           /\ call' = [call EXCEPT ![r] = "sent"]
           /\ UNCHANGED <<marker, serving, held, dirs>>
<1> DEFINE h == [req[r] EXCEPT !.pc = "calling"]
<1>1. h \in Handler
  BY ReqType DEF Handler, Pcs
<1>2. Sends(r, h)
  BY ReqType DEF Sends, Handler, Send
<1>3. req' = [req EXCEPT ![r] = h]
  BY DEF Send, Handle
<1> HIDE DEF h
<1> QED BY <1>1, <1>2, <1>3 DEF Becomes, Send, Others

WithReply(x, pc, reply) == [x EXCEPT !.pc = pc, !.reply = reply]

LEMMA WithReplyType ==
    ASSUME NEW x \in Handler, NEW pc \in Pcs, NEW reply \in Reply
    PROVE  /\ WithReply(x, pc, reply) \in Handler
           /\ WithReply(x, pc, reply).pc = pc /\ WithReply(x, pc, reply).reply = reply
           /\ WithReply(x, pc, reply).kind = x.kind
           /\ WithReply(x, pc, reply).since = x.since
           /\ WithReply(x, pc, reply).sent = x.sent
           /\ WithReply(x, pc, reply).files = x.files
           /\ WithReply(x, pc, reply).failed = x.failed
<1> DEFINE h == [x EXCEPT !.pc = pc, !.reply = reply]
<1>1. h \in Handler
  BY DEF Handler
<1>2. /\ h.pc = pc /\ h.reply = reply /\ h.kind = x.kind /\ h.since = x.since
      /\ h.sent = x.sent /\ h.files = x.files /\ h.failed = x.failed
  BY DEF Handler
<1>3. h = WithReply(x, pc, reply)
  BY DEF WithReply
<1> QED BY <1>1, <1>2, <1>3

Replied(r, pc, reply) == Handle(r, WithReply(req[r], pc, reply))

Outcome(r, pc, reply) ==
    \E h : /\ Becomes(r, h) /\ h.pc = pc /\ h.reply = reply
           /\ h.kind = req[r].kind /\ h.since = req[r].since
           /\ h.sent = req[r].sent /\ h.files = req[r].files
           /\ h.failed = req[r].failed

LEMMA WithReplyBecomes ==
    ASSUME TypeOK, NEW r \in Requests, NEW pc \in Pcs, NEW reply \in Reply,
           Replied(r, pc, reply)
    PROVE  Outcome(r, pc, reply)
<1>1. req[r] \in Handler
  BY ReqType
<1> DEFINE h == WithReply(req[r], pc, reply)
<1>2. /\ h \in Handler /\ h.pc = pc /\ h.reply = reply /\ h.kind = req[r].kind
      /\ h.since = req[r].since /\ h.sent = req[r].sent /\ h.files = req[r].files
      /\ h.failed = req[r].failed
  BY <1>1, WithReplyType
<1>3. Handle(r, h)
  BY DEF Replied
<1> HIDE DEF h
<1>4. Becomes(r, h)
  BY <1>2, <1>3 DEF Becomes, Handle
<1> QED BY <1>2, <1>4 DEF Outcome

AnswerStep(r) == GetClientPanics(r) \/ NoClient(r) \/ Return(r) \/ GiveUp(r)

LEMMA AnswerBecomes ==
    ASSUME TypeOK, NEW r \in Requests, AnswerStep(r)
    PROVE  /\ \E h : Becomes(r, h) /\ Answers(r, h)
           /\ UNCHANGED <<call, marker, serving, held, dirs>>
<1>1. UNCHANGED <<call, marker, serving, held, dirs>>
  BY DEF AnswerStep, GetClientPanics, NoClient, Return, GiveUp, Others
<1> DEFINE pc == IF req[r].kind.op = "changepass" THEN "returned" ELSE "done"
<1>2. ASSUME NEW code \in {200, 500},
             NEW why \in {"none", "panic", "noClient", "refused", "deadline"},
             Answer(r, code, why)
      PROVE  \E h : /\ Becomes(r, h) /\ h.pc = pc
                    /\ h.reply = [code |-> code, why |-> why]
                    /\ h.kind = req[r].kind /\ h.since = req[r].since
                    /\ h.sent = req[r].sent /\ h.files = req[r].files
                    /\ h.failed = req[r].failed
  <2> DEFINE reply == [code |-> code, why |-> why]
  <2>1. reply \in Reply
    BY DEF Reply
  <2>2. req' = [req EXCEPT ![r] = [req[r] EXCEPT !.pc = pc, !.reply = reply]]
    BY <1>2 DEF Answer, Handle
  <2> HIDE DEF reply
  <2>3. CASE req[r].kind.op = "changepass"
    <3>1. Replied(r, "returned", reply)
      BY <2>2, <2>3 DEF Replied, WithReply, Handle
    <3>2. pc = "returned" /\ "returned" \in Pcs
      BY <2>3 DEF Pcs
    <3> HIDE DEF pc
    <3>3. Outcome(r, "returned", reply)
      BY <2>1, <3>1, <3>2, WithReplyBecomes
    <3> QED BY <3>2, <3>3 DEF reply, Outcome
  <2>4. CASE req[r].kind.op # "changepass"
    <3>1. Replied(r, "done", reply)
      BY <2>2, <2>4 DEF Replied, WithReply, Handle
    <3>2. pc = "done" /\ "done" \in Pcs
      BY <2>4 DEF Pcs
    <3> HIDE DEF pc
    <3>3. Outcome(r, "done", reply)
      BY <2>1, <3>1, <3>2, WithReplyBecomes
    <3> QED BY <3>2, <3>3 DEF reply, Outcome
  <2> QED BY <2>3, <2>4
<1>3. CASE GetClientPanics(r)
  <2>1. Answer(r, 500, "panic")
    BY <1>3 DEF GetClientPanics
  <2>2. /\ req[r].pc = "client"
        /\ \/ req[r].kind.on = "unknown"
           \/ req[r].kind.on = "boltz" /\ Client(r) = None
    BY <1>3 DEF GetClientPanics, UnknownCurrency
  <2>3. PICK h : /\ Becomes(r, h) /\ h.pc = pc
                 /\ h.reply = [code |-> 500, why |-> "panic"]
                 /\ h.kind = req[r].kind /\ h.since = req[r].since
                 /\ h.sent = req[r].sent /\ h.files = req[r].files
                 /\ h.failed = req[r].failed
    BY <1>2, <2>1
  <2> QED BY <1>1, <2>2, <2>3 DEF Answers
<1>4. CASE NoClient(r)
  <2>1. Answer(r, 500, "noClient")
    BY <1>4 DEF NoClient
  <2>2. /\ req[r].pc = "client"
        /\ req[r].kind.on \in {"opendexd", "lnd"} /\ Client(r) = None
    BY <1>4 DEF NoClient
  <2>3. PICK h : /\ Becomes(r, h) /\ h.pc = pc
                 /\ h.reply = [code |-> 500, why |-> "noClient"]
                 /\ h.kind = req[r].kind /\ h.since = req[r].since
                 /\ h.sent = req[r].sent /\ h.files = req[r].files
                 /\ h.failed = req[r].failed
    BY <1>2, <2>1
  <2> QED BY <1>1, <2>2, <2>3 DEF Answers
<1>5. CASE Return(r) /\ call[r] = "applied" /\ Answer(r, 200, "none")
  <2>1. PICK h : /\ Becomes(r, h) /\ h.pc = pc
                 /\ h.reply = [code |-> 200, why |-> "none"]
                 /\ h.kind = req[r].kind /\ h.since = req[r].since
                 /\ h.sent = req[r].sent /\ h.files = req[r].files
                 /\ h.failed = req[r].failed
    BY <1>2, <1>5
  <2>2. req[r].pc = "calling"
    BY <1>5 DEF Return
  <2>3. Answers(r, h)
    BY <1>5, <2>1, <2>2 DEF Answers
  <2> QED BY <1>1, <2>1, <2>3
<1>6. CASE Return(r) /\ call[r] = "rejected" /\ Answer(r, 500, "refused")
  <2>1. PICK h : /\ Becomes(r, h) /\ h.pc = pc
                 /\ h.reply = [code |-> 500, why |-> "refused"]
                 /\ h.kind = req[r].kind /\ h.since = req[r].since
                 /\ h.sent = req[r].sent /\ h.files = req[r].files
                 /\ h.failed = req[r].failed
    BY <1>2, <1>6
  <2>2. req[r].pc = "calling"
    BY <1>6 DEF Return
  <2>3. Answers(r, h)
    BY <1>6, <2>1, <2>2 DEF Answers
  <2> QED BY <1>1, <2>1, <2>3
<1>7. CASE GiveUp(r) /\ Answer(r, 500, "deadline")
  <2>1. PICK h : /\ Becomes(r, h) /\ h.pc = pc
                 /\ h.reply = [code |-> 500, why |-> "deadline"]
                 /\ h.kind = req[r].kind /\ h.since = req[r].since
                 /\ h.sent = req[r].sent /\ h.files = req[r].files
                 /\ h.failed = req[r].failed
    BY <1>2, <1>7
  <2>2. req[r].pc = "calling"
    BY <1>7 DEF GiveUp
  <2>3. Answers(r, h)
    BY <1>7, <2>1, <2>2 DEF Answers
  <2> QED BY <1>1, <2>1, <2>3
<1> QED BY <1>3, <1>4, <1>5, <1>6, <1>7 DEF AnswerStep, Return, GiveUp

LEMMA RemoveMarkerBecomes ==
    ASSUME TypeOK, NEW r \in Requests, RemoveMarker(r)
    PROVE  /\ \E h : Becomes(r, h) /\ Removes(r, h)
           /\ UNCHANGED <<call, serving, held, dirs>>
<1>1. PICK fails \in BOOLEAN :
          /\ Handle(r, [req[r] EXCEPT !.pc = "done", !.failed = fails])
          /\ marker' = (marker /\ fails)
  BY DEF RemoveMarker
<1> DEFINE h == [req[r] EXCEPT !.pc = "done", !.failed = fails]
<1>2. h \in Handler
  BY ReqType DEF Handler, Pcs
<1>3. Removes(r, h)
  <2>1. h.failed = fails
    BY ReqType DEF Handler
  <2>2. /\ req[r].pc = "returned" /\ h.pc = "done"
        /\ h.kind = req[r].kind /\ h.reply = req[r].reply /\ h.since = req[r].since
        /\ h.sent = req[r].sent /\ h.files = req[r].files
    BY ReqType DEF Handler, RemoveMarker
  <2> HIDE DEF h
  <2> QED BY <1>1, <2>1, <2>2 DEF Removes
<1>4. req' = [req EXCEPT ![r] = h]
  BY <1>1 DEF Handle
<1> HIDE DEF h
<1> QED BY <1>2, <1>3, <1>4 DEF Becomes, RemoveMarker, Others

(* What a step of the system is: of a handler, of a backend, or outside.   *)
Moves(r, h) ==
    /\ Becomes(r, h) /\ UNCHANGED <<serving, held, dirs>>
    /\ \/ /\ Receives(r, h) \/ Refuses(r, h) \/ Reads(r, h) \/ Answers(r, h)
          /\ UNCHANGED <<call, marker>>
       \/ /\ Sends(r, h)
          /\ call' = [call EXCEPT ![r] = "sent"] /\ UNCHANGED marker
       \/ Removes(r, h) /\ UNCHANGED call

Moved(r) == \E h : Moves(r, h)
Decided(r) == Apply(r) \/ Reject(r) \/ Lose(r)
Outside == Connections \/ WriteBackup \/ UNCHANGED vars

LEMMA MovedBy ==
    ASSUME TypeOK, FilesInv, NEW r \in Requests,
           Receive(r) \/ BadRequest(r) \/ HandlerStep(r)
    PROVE  Moved(r)
<1>1. CASE Receive(r)
  <2>1. PICK h : Becomes(r, h) /\ Receives(r, h)
    BY <1>1, ReceiveBecomes
  <2> QED BY <1>1, <2>1, ReceiveBecomes DEF Moves, Moved
<1>2. CASE BadRequest(r)
  <2>1. PICK h : Becomes(r, h) /\ Refuses(r, h)
    BY <1>2, BadRequestBecomes
  <2> QED BY <1>2, <2>1, BadRequestBecomes DEF Moves, Moved
<1>3. CASE ReadFile(r)
  <2>1. PICK h : Becomes(r, h) /\ Reads(r, h)
    BY <1>3, ReadFileBecomes
  <2> QED BY <1>3, <2>1, ReadFileBecomes DEF Moves, Moved
<1>7. CASE ReadRest(r)
  <2>1. PICK h : Becomes(r, h) /\ Reads(r, h)
    BY <1>7, ReadRestBecomes
  <2> QED BY <1>7, <2>1, ReadRestBecomes DEF Moves, Moved
<1>4. CASE Send(r)
  <2>1. PICK h : Becomes(r, h) /\ Sends(r, h)
    BY <1>4, SendBecomes
  <2> QED BY <1>4, <2>1, SendBecomes DEF Moves, Moved
<1>5. CASE AnswerStep(r)
  <2>1. PICK h : Becomes(r, h) /\ Answers(r, h)
    BY <1>5, AnswerBecomes
  <2> QED BY <1>5, <2>1, AnswerBecomes DEF Moves, Moved
<1>6. CASE RemoveMarker(r)
  <2>1. PICK h : Becomes(r, h) /\ Removes(r, h)
    BY <1>6, RemoveMarkerBecomes
  <2> QED BY <1>6, <2>1, RemoveMarkerBecomes DEF Moves, Moved
<1> QED BY <1>1, <1>2, <1>3, <1>4, <1>5, <1>6, <1>7 DEF HandlerStep, AnswerStep

LEMMA StepCases ==
    ASSUME TypeOK, FilesInv, [Next]_vars
    PROVE  \/ Outside
           \/ \E r \in Requests : Decided(r)
           \/ \E r \in Requests : Moved(r)
<1>1. CASE Next
  <2>1. CASE Connections \/ WriteBackup
    BY <2>1 DEF Outside
  <2>2. ASSUME NEW r \in Requests, Apply(r) \/ Reject(r) \/ Lose(r)
        PROVE  \E q \in Requests : Decided(q)
    BY <2>2 DEF Decided
  <2>3. ASSUME NEW r \in Requests, Receive(r) \/ BadRequest(r) \/ HandlerStep(r)
        PROVE  \E q \in Requests : Moved(q)
    BY <2>3, MovedBy
  <2> QED BY <1>1, <2>1, <2>2, <2>3 DEF Next
<1>2. CASE UNCHANGED vars
  BY <1>2 DEF Outside
<1> QED BY <1>1, <1>2

LEMMA OutsideOnly == ASSUME Outside PROVE UNCHANGED <<req, call, marker>>
BY DEF Outside, Connections, WriteBackup, vars

LEMMA DecidedOnly ==
    ASSUME TypeOK, NEW r \in Requests, Decided(r)
    PROVE  /\ UNCHANGED <<serving, held, req, marker, dirs>>
           /\ call[r] = "sent" /\ call'[r] \in {"applied", "rejected", "lost"}
           /\ \A q \in Requests \ {r} : call'[q] = call[q]
           /\ call' \in [Requests -> Fates]
BY DEF TypeOK, Decided, Apply, Reject, Lose, Backend, Fates

-----------------------------------------------------------------------------
(* Types.                                                                  *)
LEMMA TypeInit == Init => TypeOK /\ FilesInv
<1> SUFFICES ASSUME Init PROVE TypeOK /\ FilesInv
  OBVIOUS
<1> DEFINE new == [pc |-> "new", kind |-> NoKind, reply |-> NoReply,
                   since |-> 1, opened |-> 1, first |-> 0, files |-> <<>>, sent |-> 0,
                   failed |-> FALSE]
           whole == Contents(1, 1)
           first == [i \in 1..Len(Files) |-> whole]
<1>1. NoReply \in Reply
  BY DEF NoReply, Reply
<1>2. <<>> \in Seq(File \cup {None}) /\ whole \in File
  BY DEF Contents, File
<1> HIDE DEF whole
<1>3. 0 \in 0..(Width - 1) /\ 1 \in 1..MaxBackups
  BY BoundsAssumption
<1>4. new \in Handler
  BY <1>1, <1>2, <1>3 DEF Handler, Pcs
<1>5. first \in Directory
  BY <1>2 DEF Directory
<1>6. new.pc = "new" /\ new.files = <<>>
  OBVIOUS
<1>7. req = [r \in Requests |-> new] /\ dirs = <<first>>
  BY DEF Init, whole
<1> HIDE DEF new, first
<1>8. dirs \in Seq(Directory) /\ Len(dirs) = 1
  BY <1>5, <1>7
<1> QED BY <1>3, <1>4, <1>6, <1>7, <1>8 DEF Init, TypeOK, FilesInv, Reading, Fates, Link!Init

LEMMA TypeStep == TypeOK /\ FilesInv /\ [Next]_vars => TypeOK' /\ FilesInv'
<1> SUFFICES ASSUME TypeOK, FilesInv, [Next]_vars PROVE TypeOK' /\ FilesInv'
  OBVIOUS
<1>1. CASE Outside
  <2>1. UNCHANGED <<req, call, marker>>
    BY <1>1, OutsideOnly
  <2>2. CASE Connections
    <3>1. serving' \in BOOLEAN /\ held' \in [Conns -> {"client", None}]
      BY <2>2 DEF Connections, Link!Next, Link!Serve, Link!Connect, Link!Lose, TypeOK
    <3>2. UNCHANGED dirs
      BY <2>2 DEF Connections
    <3> QED BY <2>1, <3>1, <3>2 DEF TypeOK, FilesInv
  <2>3. CASE WriteBackup
    <3>1. PICK i \in DOMAIN Now : \E x \in Rewritings(Now[i], Len(dirs) + 1) :
             dirs' = Append(dirs, [Now EXCEPT ![i] = x])
      BY <2>3 DEF WriteBackup
    <3>2. PICK x \in Rewritings(Now[i], Len(dirs) + 1) :
             dirs' = Append(dirs, [Now EXCEPT ![i] = x])
      BY <3>1
    <3> DEFINE new == [Now EXCEPT ![i] = x]
    <3>3. x \in File \cup {None}
      <4>1. Now[i] \in File \cup {None} /\ Len(dirs) + 1 \in Nat
        <5>1. Now[i] \in File \cup {None}
          BY NowType DEF Directory
        <5>2. Len(dirs) \in Nat
          BY DEF TypeOK
        <5> QED BY <5>1, <5>2
      <4> QED BY <4>1, RewritingsType
    <3>4. new \in Directory
      BY <3>3, NowType DEF Directory
    <3>5. dirs' = Append(dirs, new)
      BY <3>2
    <3> HIDE DEF new
    <3>6. dirs' \in Seq(Directory) /\ Len(dirs') = Len(dirs) + 1
      BY <3>4, <3>5 DEF TypeOK
    <3>7. Len(dirs') \in 1..MaxBackups
      BY <2>3, <3>6, BoundsAssumption DEF TypeOK, WriteBackup
    <3> QED BY <2>1, <2>3, <3>6, <3>7 DEF TypeOK, FilesInv, WriteBackup
  <2> QED BY <1>1, <2>1, <2>2, <2>3 DEF Outside, vars, TypeOK, FilesInv
<1>2. CASE \E r \in Requests : Decided(r)
  BY <1>2, DecidedOnly DEF TypeOK, FilesInv
<1>3. ASSUME NEW r \in Requests, Moved(r) PROVE TypeOK' /\ FilesInv'
  <2>1. PICK h : Moves(r, h)
    BY <1>3 DEF Moved
  <2>2. /\ req'[r] = h /\ req' \in [Requests -> Handler]
        /\ \A q \in Requests \ {r} : req'[q] = req[q]
    BY <2>1, BecomesOnly DEF Moves
  <2>3. TypeOK'
    <3>1. call' \in [Requests -> Fates]
      BY <2>1 DEF Moves, TypeOK, Fates
    <3>2. marker' \in BOOLEAN
      BY <2>1 DEF Moves, TypeOK, Removes
    <3> QED BY <2>1, <2>2, <3>1, <3>2 DEF Moves, TypeOK
  <2>4. /\ h.pc = "new" => FALSE
        /\ h.pc \in Reading => Len(h.files) < Len(Files)
    <3>1. CASE Reads(r, h)
      <4>1. req[r].files \in Seq(File \cup {None}) /\ Len(req[r].files) < Len(Files)
        BY <3>1, ReadsKeep, ReqType DEF Handler, FilesInv
      <4>2. CASE Opens(r, h)
        BY <4>1, <4>2 DEF Opens
      <4>3. ASSUME NEW x \in File \cup {None}, Returns(r, h, x)
            PROVE  h.pc \in Reading => Len(h.files) < Len(Files)
        <5>1. Len(h.files) = Len(req[r].files) + 1
          BY <4>1, <4>3 DEF Returns
        <5>2. h.pc \in Reading => Len(req[r].files) + 1 # Len(Files)
          BY <4>3 DEF Returns, Reading
        <5> DEFINE n == Len(req[r].files)
        <5>3. n \in Nat /\ n < 3
          BY <4>1, FilesLength
        <5> HIDE DEF n
        <5>4. n + 1 # 3 => n + 1 < 3
          BY <5>3
        <5> QED BY <5>1, <5>2, <5>4, FilesLength DEF n
      <4> QED BY <3>1, <4>2, <4>3, ReadsKeep DEF Reads, Reading
    <3>2. CASE Receives(r, h)
      BY <3>2, FilesLength DEF Receives, FilesInv
    <3> QED BY <2>1, <3>1, <3>2 DEF Moves, Refuses, Answers, Sends, Removes, Reading
  <2> QED BY <2>2, <2>3, <2>4 DEF FilesInv
<1> QED BY <1>1, <1>2, <1>3, StepCases

(* Every reachable state is well typed: handlers, calls and backups.       *)
THEOREM TypeCorrect == Spec => []TypeOK
<1>1. Init => TypeOK /\ FilesInv
  BY TypeInit
<1>2. TypeOK /\ FilesInv /\ [Next]_vars => (TypeOK /\ FilesInv)'
  BY TypeStep
<1> QED BY <1>1, <1>2, PTL DEF Spec

-----------------------------------------------------------------------------
(* What the answer says of the backend.  A request that is not answered    *)
(* has no reply, and one that has not been sent no call; a call, once      *)
(* decided, stays so.                                                      *)
Unsent == {"new", "backup", "rest", "client"}

NotYet(r) ==
    /\ req[r].pc \in Unsent \cup {"calling"} => req[r].reply = NoReply
    /\ req[r].pc \in Unsent => call[r] = "none"

SaysTrue(r) ==
    /\ req[r].reply.code = 200 => call[r] = "applied"
    /\ req[r].reply.why \in {"invalid", "noClient", "panic"} => call[r] = "none"
    /\ req[r].reply.why = "refused" => call[r] = "rejected"
    /\ req[r].reply.why = "panic" => req[r].kind.on \in {"boltz", "unknown"}

TruthInv == \A r \in Requests : NotYet(r) /\ SaysTrue(r)
Core == TypeOK /\ FilesInv /\ TruthInv

LEMMA Truth == TruthInv => AnswerIsTrue
BY DEF TruthInv, SaysTrue, AnswerIsTrue

LEMMA NoReplySays == NoReply.code = 0 /\ NoReply.why = "none"
BY DEF NoReply

LEMMA TruthInit == Init => TruthInv
BY NoReplySays DEF Init, TruthInv, NotYet, SaysTrue

LEMMA TruthMoves ==
    ASSUME Core, NEW r \in Requests, NEW h, Moves(r, h)
    PROVE  NotYet(r)' /\ SaysTrue(r)'
<1>1. req'[r] = h
  BY BecomesOnly DEF Core, Moves
<1>2. NotYet(r) /\ SaysTrue(r)
  BY DEF Core, TruthInv
<1>3. CASE Receives(r, h)
  <2>1. call[r] = "none" /\ h.reply = NoReply /\ h.pc \in {"backup", "client"}
    BY <1>2, <1>3 DEF NotYet, Receives, Unsent
  <2>2. call'[r] = call[r]
    BY <1>3 DEF Moves, Receives, Sends, Removes
  <2> QED BY <1>1, <2>1, <2>2, NoReplySays DEF NotYet, SaysTrue, Unsent
<1>4. CASE Refuses(r, h)
  <2>1. call[r] = "none" /\ h.pc = "done" /\ h.reply = [code |-> 400, why |-> "invalid"]
    BY <1>2, <1>4 DEF NotYet, Refuses, Unsent
  <2>2. call'[r] = call[r]
    BY <1>4 DEF Moves, Refuses, Sends, Removes
  <2>3. h.reply.code = 400 /\ h.reply.why = "invalid"
    BY <2>1
  <2> QED BY <1>1, <2>1, <2>2, <2>3 DEF NotYet, SaysTrue, Unsent
<1>5. CASE Reads(r, h)
  <2>1. call[r] = "none" /\ h.reply = NoReply /\ h.pc \in {"backup", "rest", "client"}
    BY <1>2, <1>5, ReadsKeep DEF NotYet, Reading, Unsent
  <2>2. call'[r] = call[r]
    BY <1>5, ReadsKeep DEF Moves, Reading, Sends, Removes
  <2> QED BY <1>1, <2>1, <2>2, NoReplySays DEF NotYet, SaysTrue, Unsent
<1>6. CASE Sends(r, h)
  <2>1. h.reply = NoReply /\ h.pc = "calling"
    BY <1>2, <1>6 DEF NotYet, Sends, Unsent
  <2> QED BY <1>1, <2>1, NoReplySays DEF NotYet, SaysTrue, Unsent
<1>7. CASE Answers(r, h)
  <2>1. call'[r] = call[r]
    BY <1>7 DEF Moves, Answers, Sends, Removes
  <2>2. h.pc \in {"returned", "done"}
    BY <1>7 DEF Answers
  <2>3. /\ h.reply.code = 200 => call[r] = "applied"
        /\ h.reply.why \in {"invalid", "noClient", "panic"} => req[r].pc = "client"
        /\ h.reply.why = "refused" => call[r] = "rejected"
        /\ h.reply.why = "panic" => h.kind.on \in {"boltz", "unknown"}
    BY <1>7 DEF Answers
  <2> QED BY <1>1, <1>2, <2>1, <2>2, <2>3 DEF NotYet, SaysTrue, Unsent
<1>8. CASE Removes(r, h)
  <2>1. call'[r] = call[r]
    BY <1>8 DEF Moves, Removes, Sends
  <2>2. h.pc = "done" /\ h.reply = req[r].reply /\ h.kind = req[r].kind
    BY <1>8 DEF Removes
  <2> QED BY <1>1, <1>2, <2>1, <2>2 DEF NotYet, SaysTrue, Unsent
<1> QED BY <1>3, <1>4, <1>5, <1>6, <1>7, <1>8 DEF Moves

(* A step of one request leaves the calls of the others alone.             *)
LEMMA MovesOnly ==
    ASSUME TypeOK, NEW r \in Requests, NEW h, Moves(r, h), NEW q \in Requests \ {r}
    PROVE  req'[q] = req[q] /\ call'[q] = call[q]
<1>1. req'[q] = req[q]
  BY BecomesOnly DEF Moves
<1>2. call'[q] = call[q]
  BY DEF Moves, TypeOK
<1> QED BY <1>1, <1>2

LEMMA TruthStep == Core /\ [Next]_vars => Core'
<1> SUFFICES ASSUME Core, [Next]_vars PROVE Core'
  OBVIOUS
<1>1. TypeOK' /\ FilesInv'
  BY TypeStep DEF Core
<1>2. CASE Outside
  <2>1. TruthInv'
    BY <1>2, OutsideOnly DEF Core, TruthInv, NotYet, SaysTrue
  <2> QED BY <1>1, <2>1 DEF Core
<1>3. ASSUME NEW r \in Requests, Decided(r) PROVE TruthInv'
  <2>1. ASSUME NEW q \in Requests PROVE NotYet(q)' /\ SaysTrue(q)'
    BY <1>3, DecidedOnly DEF Core, TruthInv, NotYet, SaysTrue
  <2> QED BY <2>1 DEF TruthInv
<1>4. ASSUME NEW r \in Requests, Moved(r) PROVE TruthInv'
  <2>1. PICK h : Moves(r, h)
    BY <1>4 DEF Moved
  <2>2. NotYet(r)' /\ SaysTrue(r)'
    BY <2>1, TruthMoves
  <2>3. ASSUME NEW q \in Requests \ {r} PROVE NotYet(q)' /\ SaysTrue(q)'
    BY <2>1, MovesOnly DEF Core, TruthInv, NotYet, SaysTrue
  <2> QED BY <2>2, <2>3 DEF TruthInv
<1> QED BY <1>1, <1>2, <1>3, <1>4, StepCases DEF Core

LEMMA CoreInit == Init => Core
BY TypeInit, TruthInit DEF Core

(* A reply's claim about the backend is true and stays true.               *)
THEOREM AnswersAreTrue == Spec => []AnswerIsTrue
<1>1. Init => Core
  BY CoreInit
<1>2. Core /\ [Next]_vars => Core'
  BY TruthStep
<1>3. Core => AnswerIsTrue
  BY Truth DEF Core
<1> QED BY <1>1, <1>2, <1>3, PTL DEF Spec

-----------------------------------------------------------------------------
(* The marker.  Only a change of password comes to remove it, after it was *)
(* applied or an error; the reply that tells which no longer changes.      *)
Settled(r) ==
    /\ req[r].pc = "new" => req[r].kind = NoKind
    /\ req[r].pc = "returned" =>
          req[r].kind.op = "changepass" /\ req[r].reply.code \in {200, 500}

Blamed(r) ==
    /\ req[r].kind.op = "changepass"
    /\ call[r] = "applied" \/ req[r].reply.code = 500

Kept(r) == req[r].kind.op = "changepass" /\ req[r].pc = "done"
           /\ req[r].reply.code = 200 => req[r].failed

MarkerInv ==
    /\ \A r \in Requests : Settled(r)
    /\ ~ marker => \E r \in Requests : Blamed(r)
    /\ marker => \A r \in Requests : Kept(r)

LEMMA Marker == MarkerInv => MarkerExplained
BY DEF MarkerInv, MarkerExplained, Changes, Blamed, Kept

LEMMA MarkerInit == Init => MarkerInv
BY NoReplySays DEF Init, MarkerInv, Settled, Kept, NoKind

(* What a step of a request does to its own part of the invariant.         *)
LEMMA SettledMoves ==
    ASSUME Core, NEW r \in Requests, NEW h, Moves(r, h), Settled(r)
    PROVE  /\ Settled(r)'
           /\ Blamed(r) => Blamed(r)'
           /\ ~ marker' => ~ marker \/ Blamed(r)'
           /\ marker' => marker /\ (Kept(r) => Kept(r)')
<1>1. req'[r] = h
  BY BecomesOnly DEF Core, Moves
<1>2. NotYet(r) /\ SaysTrue(r)
  BY DEF Core, TruthInv
<1>3. CASE Receives(r, h) \/ Refuses(r, h)
  <2>1. req[r].pc = "new" /\ h.pc \in {"backup", "client", "done"} /\ h.reply.code # 200
    <3>1. CASE Receives(r, h)
      BY <1>2, <3>1, NoReplySays DEF Receives, NotYet, Unsent
    <3>2. CASE Refuses(r, h)
      BY <3>2 DEF Refuses
    <3> QED BY <1>3, <3>1, <3>2
  <2>2. marker' = marker /\ ~ Blamed(r)
    <3>1. req[r].kind.op = "none"
      BY <2>1 DEF Settled, NoKind
    <3> QED BY <1>3, <3>1 DEF Blamed, Moves, Receives, Refuses, Sends, Removes
  <2> QED BY <1>1, <2>1, <2>2 DEF Settled, Kept
<1>4. CASE Reads(r, h)
  <2>1. /\ call[r] = "none" /\ req[r].reply = NoReply
        /\ h.pc \in {"backup", "rest", "client"} /\ h.reply = NoReply
    BY <1>2, <1>4, ReadsKeep DEF Reading, NotYet, Unsent
  <2>2. marker' = marker
    BY <1>4, ReadsKeep DEF Moves, Reading, Sends, Removes
  <2> QED BY <1>1, <2>1, <2>2, NoReplySays DEF Settled, Kept, Blamed
<1>5. CASE Sends(r, h)
  <2>1. call[r] = "none" /\ req[r].reply = NoReply /\ h.pc = "calling"
    BY <1>2, <1>5 DEF Sends, NotYet, Unsent
  <2>2. marker' = marker
    BY <1>5 DEF Moves, Sends, Removes
  <2> QED BY <1>1, <2>1, <2>2, NoReplySays DEF Settled, Kept, Blamed
<1>6. CASE Answers(r, h)
  <2>1. marker' = marker /\ call'[r] = call[r] /\ h.kind = req[r].kind
    BY <1>6 DEF Moves, Answers, Sends, Removes
  <2>2. req[r].reply.code = 0
    BY <1>2, <1>6, NoReplySays DEF Answers, NotYet, Unsent
  <2>3. h.pc = IF req[r].kind.op = "changepass" THEN "returned" ELSE "done"
    BY <1>6 DEF Answers
  <2>4. h.reply.code \in {200, 500}
    BY <1>6 DEF Answers
  <2> QED BY <1>1, <2>1, <2>2, <2>3, <2>4 DEF Settled, Kept, Blamed
<1>7. CASE Removes(r, h)
  <2>1. /\ call'[r] = call[r] /\ h.pc = "done" /\ marker' = (marker /\ h.failed)
        /\ h.kind = req[r].kind /\ h.reply = req[r].reply /\ req[r].pc = "returned"
    BY <1>7 DEF Moves, Removes, Sends
  <2>2. Blamed(r)
    BY <1>2, <2>1 DEF Blamed, Settled, SaysTrue
  <2>3. Blamed(r)' /\ Settled(r)'
    BY <1>1, <2>1, <2>2 DEF Blamed, Settled
  <2>4. marker' => marker /\ Kept(r)'
    BY <1>1, <2>1 DEF Kept
  <2> QED BY <2>3, <2>4
<1> QED BY <1>3, <1>4, <1>5, <1>6, <1>7 DEF Moves

LEMMA MarkerStep == Core /\ MarkerInv /\ [Next]_vars => MarkerInv'
<1> SUFFICES ASSUME Core, MarkerInv, [Next]_vars PROVE MarkerInv'
  OBVIOUS
<1>1. CASE Outside
  BY <1>1, OutsideOnly DEF MarkerInv, Settled, Blamed, Kept
<1>2. ASSUME NEW r \in Requests, Decided(r) PROVE MarkerInv'
  <2>1. UNCHANGED <<req, marker>>
    BY <1>2, DecidedOnly DEF Core
  <2>2. ASSUME NEW q \in Requests, Blamed(q) PROVE Blamed(q)'
    BY <1>2, <2>1, <2>2, DecidedOnly DEF Core, Blamed
  <2> QED BY <2>1, <2>2 DEF MarkerInv, Settled, Kept
<1>3. ASSUME NEW r \in Requests, Moved(r) PROVE MarkerInv'
  <2>1. PICK h : Moves(r, h)
    BY <1>3 DEF Moved
  <2>2. ASSUME NEW q \in Requests \ {r}
        PROVE  /\ Settled(q) => Settled(q)'
               /\ Blamed(q) => Blamed(q)'
               /\ Kept(q) => Kept(q)'
    BY <2>1, MovesOnly DEF Core, Settled, Blamed, Kept
  <2>3. /\ Settled(r)'
        /\ Blamed(r) => Blamed(r)'
        /\ ~ marker' => ~ marker \/ Blamed(r)'
        /\ marker' => marker /\ (Kept(r) => Kept(r)')
    BY <2>1, SettledMoves DEF MarkerInv
  <2>4. \A q \in Requests : Settled(q)'
    BY <2>2, <2>3 DEF MarkerInv
  <2>5. ~ marker' => \E q \in Requests : Blamed(q)'
    BY <2>2, <2>3 DEF MarkerInv
  <2>6. marker' => \A q \in Requests : Kept(q)'
    BY <2>2, <2>3 DEF MarkerInv
  <2> QED BY <2>4, <2>5, <2>6 DEF MarkerInv
<1> QED BY <1>1, <1>2, <1>3, StepCases DEF Core

(* The marker goes only with a password, or with an error of its change.   *)
THEOREM MarkerIsExplained == Spec => []MarkerExplained
<1>1. Init => Core /\ MarkerInv
  BY CoreInit, MarkerInit
<1>2. Core /\ MarkerInv /\ [Next]_vars => (Core /\ MarkerInv)'
  BY TruthStep, MarkerStep
<1>3. MarkerInv => MarkerExplained
  BY Marker
<1> QED BY <1>1, <1>2, <1>3, PTL DEF Spec

-----------------------------------------------------------------------------
(* Connections.  Whoever has reached a backend was served, and what is     *)
(* served keeps its connections.                                           *)
Reached(r) ==
    /\ req[r].pc # "new" => serving /\ req[r].kind \in Kinds
    /\ call[r] # "none" => /\ req[r].kind.on \in Conns
                           /\ held[req[r].kind.on] # None

ReachedInv == \A r \in Requests : Reached(r)

LEMMA ReachedInit == Init => ReachedInv
BY DEF Init, ReachedInv, Reached

LEMMA LinkKeeps ==
    ASSUME TypeOK, Link!Next, serving
    PROVE  serving' /\ \A c \in Conns : held[c] # None => held'[c] # None
<1>1. CASE Link!Serve
  BY <1>1 DEF Link!Serve
<1>2. ASSUME NEW c \in Conns, Link!Connect(c)
      PROVE  serving' /\ \A d \in Conns : held[d] # None => held'[d] # None
  BY <1>2 DEF Link!Connect, TypeOK
<1>3. ASSUME NEW c \in Conns PROVE ~ Link!Lose(c)
  BY DEF Link!Lose
<1> QED BY <1>1, <1>2, <1>3 DEF Link!Next

LEMMA ReachedStep == Core /\ ReachedInv /\ [Next]_vars => ReachedInv'
<1> SUFFICES ASSUME Core, ReachedInv, [Next]_vars PROVE ReachedInv'
  OBVIOUS
<1>1. CASE Outside
  <2> SUFFICES ASSUME NEW r \in Requests PROVE Reached(r)'
    BY DEF ReachedInv
  <2>1. UNCHANGED <<req, call>>
    BY <1>1, OutsideOnly
  <2>2. CASE req[r].pc = "new"
    BY <2>1, <2>2 DEF Core, TruthInv, NotYet, Unsent, Reached
  <2>3. CASE req[r].pc # "new"
    <3>1. serving /\ req[r].kind \in Kinds
      BY <2>3 DEF ReachedInv, Reached
    <3>2. \/ Link!Next
          \/ UNCHANGED <<serving, held>>
      BY <1>1 DEF Outside, Connections, WriteBackup, vars
    <3>3. serving' /\ \A c \in Conns : held[c] # None => held'[c] # None
      BY <3>1, <3>2, LinkKeeps DEF Core
    <3> QED BY <2>1, <3>1, <3>3 DEF ReachedInv, Reached
  <2> QED BY <2>2, <2>3
<1>2. ASSUME NEW r \in Requests, Decided(r) PROVE ReachedInv'
  BY <1>2, DecidedOnly DEF Core, ReachedInv, Reached
<1>3. ASSUME NEW r \in Requests, Moved(r) PROVE ReachedInv'
  <2>1. PICK h : Moves(r, h)
    BY <1>3 DEF Moved
  <2>2. UNCHANGED <<serving, held>>
    BY <2>1 DEF Moves
  <2>3. ASSUME NEW q \in Requests \ {r} PROVE Reached(q)'
    BY <2>1, <2>2, MovesOnly DEF Core, ReachedInv, Reached
  <2>4. Reached(r)'
    <3>1. req'[r] = h
      BY <2>1, BecomesOnly DEF Core, Moves
    <3>2. CASE Receives(r, h) \/ Refuses(r, h)
      <4>1. serving /\ h.kind \in Kinds /\ call[r] = "none"
        BY <3>2 DEF Receives, Refuses, Core, TruthInv, NotYet, Unsent
      <4>2. call'[r] = "none"
        BY <2>1, <3>2, <4>1 DEF Moves, Receives, Refuses, Sends, Removes
      <4> QED BY <2>2, <3>1, <4>1, <4>2 DEF Reached
    <3>3. CASE Sends(r, h)
      <4>1. serving /\ req[r].kind \in Kinds /\ h.kind = req[r].kind
        BY <3>3 DEF Sends, ReachedInv, Reached
      <4>2. req[r].kind.on \in Conns
        BY <3>3, <4>1, KindType DEF Sends, UnknownCurrency
      <4>3. held[req[r].kind.on] # None
        BY <3>3 DEF Sends, Client
      <4> QED BY <2>2, <3>1, <4>1, <4>2, <4>3 DEF Reached
    <3>4. CASE Reads(r, h) \/ Answers(r, h) \/ Removes(r, h)
      <4>1. h.kind = req[r].kind /\ req[r].pc # "new"
        BY <3>4, ReadsKeep DEF Reading, Answers, Removes
      <4>2. call'[r] = call[r]
        BY <2>1, <3>4, ReadsKeep DEF Moves, Reading, Answers, Removes, Sends
      <4> QED BY <2>2, <3>1, <4>1, <4>2 DEF Reached, ReachedInv
    <3> QED BY <2>1, <3>2, <3>3, <3>4 DEF Moves
  <2> QED BY <2>3, <2>4 DEF ReachedInv
<1> QED BY <1>1, <1>2, <1>3, StepCases DEF Core

(* Of a request that looks for a client, beside one that has had an answer *)
(* from the same backend.                                                  *)
LEMMA ClientThere ==
    ASSUME Core, ReachedInv, [Next]_vars, NEW r \in Requests, NEW q \in Requests,
           req[q].kind.on = req[r].kind.on, call[q] # "none",
           req[r].pc = "client", req[r].kind.on \in Conns
    PROVE  req'[r].reply.why \notin {"noClient", "panic"}
<1>1. req[r].reply = NoReply /\ Client(r) # None /\ ~ UnknownCurrency(r)
  BY ConnsAssumption
  DEF Core, TruthInv, NotYet, Unsent, ReachedInv, Reached, Client, UnknownCurrency
<1>2. CASE UNCHANGED req
  BY <1>1, <1>2, NoReplySays
<1>3. ASSUME NEW p \in Requests, Moved(p)
      PROVE  req'[r].reply.why \notin {"noClient", "panic"}
  <2>1. PICK h : Moves(p, h)
    BY <1>3 DEF Moved
  <2>2. CASE p # r
    BY <1>1, <2>1, <2>2, MovesOnly, NoReplySays DEF Core
  <2>3. CASE p = r
    <3>1. req'[r] = h
      BY <2>1, <2>3, BecomesOnly DEF Core, Moves
    <3>2. Sends(r, h) \/ Answers(r, h)
      BY <2>1, <2>3, ReadsKeep DEF Moves, Receives, Refuses, Reading, Removes
    <3>3. CASE Sends(r, h)
      BY <1>1, <3>1, <3>3, NoReplySays DEF Sends
    <3>4. CASE Answers(r, h)
      BY <1>1, <3>1, <3>4 DEF Answers, UnknownCurrency
    <3> QED BY <3>2, <3>3, <3>4
  <2> QED BY <2>2, <2>3
<1> QED BY <1>2, <1>3, StepCases, OutsideOnly, DecidedOnly DEF Core

(* No handler finds a backend without client after one has reached it.     *)
THEOREM ClientStays == Spec => NoClientFirst
<1> DEFINE Step == \A r, q \in Requests :
          /\ req[q].kind.on = req[r].kind.on /\ call[q] # "none"
          /\ req[r].pc = "client" /\ req[r].kind.on \in Conns
          => req'[r].reply.why \notin {"noClient", "panic"}
<1>1. Init => Core /\ ReachedInv
  BY CoreInit, ReachedInit
<1>2. Core /\ ReachedInv /\ [Next]_vars => (Core /\ ReachedInv)'
  BY TruthStep, ReachedStep
<1>3. Core /\ ReachedInv /\ [Next]_vars => [Step]_vars
  BY ClientThere
<1> HIDE DEF Step
<1>4. Spec => [][Step]_vars
  BY <1>1, <1>2, <1>3, PTL DEF Spec
<1> QED BY <1>4 DEF NoClientFirst, Step

-----------------------------------------------------------------------------
(* What a restore sends.  Piece: x, the i-th file, was read at moments k   *)
(* and l of the directory's states ds; CutOf is IsReading for the n files  *)
(* read so far, the last moment being m.                                   *)
Piece(x, failed, ds, i, k, l) ==
    \/ x = None /\ failed
    \/ /\ x # None /\ ds[k][i] # None /\ ds[l][i] # None
       /\ x.first = ds[k][i].first
       /\ \/ x.rest = ds[l][i].rest
          \/ x.rest = 0 /\ failed

Forward(k, l) == \A i \in 1..Len(Files) : k[i] <= l[i] /\ (i > 1 => l[i - 1] <= k[i])

CutOf(files, failed, since, ds, n, m) ==
    \E k, l \in [1..Len(Files) -> since..m] :
        /\ Forward(k, l)
        /\ \A i \in 1..n : Piece(files[i], failed, ds, i, k[i], l[i])

LEMMA CutStart ==
    ASSUME NEW files, NEW failed, NEW since \in Nat, NEW ds, NEW m \in Nat, since <= m
    PROVE  CutOf(files, failed, since, ds, 0, m)
<1> DEFINE k == [i \in 1..Len(Files) |-> m]
<1>1. k \in [1..Len(Files) -> since..m]
  OBVIOUS
<1>2. Forward(k, k)
  BY FilesLength DEF Forward
<1> HIDE DEF k
<1> QED BY <1>1, <1>2 DEF CutOf

LEMMA PieceKept ==
    ASSUME NEW x, NEW failed, NEW failed2, failed => failed2, NEW ds, NEW i, NEW k, NEW l,
           Piece(x, failed, ds, i, k, l)
    PROVE  Piece(x, failed2, ds, i, k, l)
BY DEF Piece

LEMMA CutExtend ==
    ASSUME NEW files, NEW failed, NEW since \in Nat, NEW ds, NEW n \in 0..(Len(Files) - 1),
           NEW m \in Nat, since <= m, CutOf(files, failed, since, ds, n, m),
           NEW kk \in Nat, NEW ll \in Nat, NEW m2 \in Nat, m <= kk, kk <= ll, ll <= m2,
           NEW files2, \A i \in 1..n : files2[i] = files[i],
           NEW failed2, failed => failed2,
           Piece(files2[n + 1], failed2, ds, n + 1, kk, ll)
    PROVE  CutOf(files2, failed2, since, ds, n + 1, m2)
<1>1. PICK k, l \in [1..Len(Files) -> since..m] :
         /\ Forward(k, l)
         /\ \A i \in 1..n : Piece(files[i], failed, ds, i, k[i], l[i])
  BY DEF CutOf
<1> DEFINE k2 == [i \in 1..Len(Files) |-> IF i <= n THEN k[i] ELSE IF i = n + 1 THEN kk ELSE ll]
           l2 == [i \in 1..Len(Files) |-> IF i <= n THEN l[i] ELSE ll]
<1>2. k2 \in [1..Len(Files) -> since..m2] /\ l2 \in [1..Len(Files) -> since..m2]
  OBVIOUS
<1>3. Forward(k2, l2)
  <2> SUFFICES ASSUME NEW i \in 1..Len(Files)
               PROVE  k2[i] <= l2[i] /\ (i > 1 => l2[i - 1] <= k2[i])
    BY DEF Forward
  <2>5. k[i] \in since..m /\ l[i] \in since..m
    OBVIOUS
  <2>6. k[i] <= l[i] /\ (i > 1 => l[i - 1] <= k[i])
    BY <1>1 DEF Forward
  <2>1. /\ k[i] \in Nat /\ l[i] \in Nat /\ k[i] <= m /\ l[i] <= m /\ k[i] <= l[i]
        /\ i > 1 => l[i - 1] <= k[i]
    BY <2>5, <2>6
  <2>2. i > 1 => i - 1 \in 1..Len(Files) /\ l[i - 1] <= m
    BY FilesLength
  <2>3. k2[i] <= l2[i]
    BY <2>1
  <2>4. i > 1 => l2[i - 1] <= k2[i]
    BY <2>1, <2>2
  <2> QED BY <2>3, <2>4
<1>4. ASSUME NEW i \in 1..(n + 1) PROVE Piece(files2[i], failed2, ds, i, k2[i], l2[i])
  <2>1. i \in 1..Len(Files) /\ n \in Nat
    BY FilesLength
  <2>2. CASE i = n + 1
    <3>1. k2[i] = kk /\ l2[i] = ll
      BY <2>1, <2>2
    <3> HIDE DEF k2, l2
    <3> QED BY <2>2, <3>1
  <2>3. CASE i # n + 1
    <3>1. i \in 1..n
      BY <2>3
    <3>2. k2[i] = k[i] /\ l2[i] = l[i]
      BY <2>1, <3>1
    <3> HIDE DEF k2, l2
    <3>3. Piece(files2[i], failed, ds, i, k2[i], l2[i])
      BY <1>1, <3>1, <3>2
    <3> QED BY <3>3, PieceKept
  <2> QED BY <2>2, <2>3
<1> HIDE DEF k2, l2
<1> QED BY <1>2, <1>3, <1>4 DEF CutOf

LEMMA CutLater ==
    ASSUME NEW files, NEW failed, NEW since \in Nat \ {0}, NEW ds, NEW ds2,
           NEW m \in Nat, NEW m2 \in Nat, m <= m2, \A i \in 1..m : ds2[i] = ds[i],
           NEW n \in 0..Len(Files), CutOf(files, failed, since, ds, n, m)
    PROVE  CutOf(files, failed, since, ds2, n, m2)
<1>1. PICK k, l \in [1..Len(Files) -> since..m] :
         /\ Forward(k, l)
         /\ \A i \in 1..n : Piece(files[i], failed, ds, i, k[i], l[i])
  BY DEF CutOf
<1>2. k \in [1..Len(Files) -> since..m2] /\ l \in [1..Len(Files) -> since..m2]
  OBVIOUS
<1>3. ASSUME NEW i \in 1..n PROVE Piece(files[i], failed, ds2, i, k[i], l[i])
  <2>1. i \in 1..Len(Files)
    BY FilesLength
  <2>2. k[i] \in 1..m /\ l[i] \in 1..m
    BY <2>1
  <2>3. ds2[k[i]] = ds[k[i]] /\ ds2[l[i]] = ds[l[i]]
    BY <2>2
  <2> QED BY <1>1, <2>3 DEF Piece
<1> QED BY <1>1, <1>2, <1>3 DEF CutOf

(* Of a request that is under way, or whose call was sent.  One that reads *)
(* a file has of it what stood first when it was opened.                   *)
UnderWay(r) == req[r].pc \in Reading \cup {"client", "calling"} \/ call[r] # "none"

Until(r) == IF req[r].pc = "rest" THEN req[r].opened ELSE Len(dirs)

CutSoFar(r) == CutOf(req[r].files, req[r].failed, req[r].since, dirs,
                     Len(req[r].files), Until(r))

HasFirst(r) ==
    LET i == Len(req[r].files) + 1
        was == dirs[req[r].opened][i]
    IN  /\ req[r].since <= req[r].opened /\ req[r].opened <= Len(dirs)
        /\ was # None /\ req[r].first = was.first

SentInv(r) ==
    UnderWay(r) =>
        /\ req[r].since <= Len(dirs)
        /\ req[r].kind.op = "restore" =>
              /\ CutSoFar(r)
              /\ req[r].pc = "rest" => HasFirst(r)
              /\ req[r].pc \notin Reading => Len(req[r].files) = Len(Files)

AllSent == \A r \in Requests : SentInv(r)

LEMMA Sent == Core /\ AllSent => RestoreIsReading
<1> SUFFICES ASSUME Core, AllSent, NEW r \in Requests, call[r] # "none",
                    req[r].kind.op = "restore"
             PROVE  IsReading(r)
  BY DEF RestoreIsReading
<1>1. SentInv(r) /\ UnderWay(r)
  BY DEF AllSent, UnderWay
<1>2. req[r].pc \notin Reading
  BY DEF Core, TruthInv, NotYet, Unsent, Reading
<1>3. CutOf(req[r].files, req[r].failed, req[r].since, dirs, Len(Files), Len(dirs))
  BY <1>1, <1>2 DEF SentInv, CutSoFar, Until, Reading
<1> QED BY <1>3 DEF CutOf, Piece, Forward, IsReading

LEMMA SentInit == Init => AllSent
BY DEF Init, AllSent, SentInv, UnderWay, Reading

LEMMA DirsType ==
    ASSUME TypeOK
    PROVE  dirs \in Seq(Directory) /\ Len(dirs) \in Nat \ {0} /\ Now = dirs[Len(dirs)]
BY BoundsAssumption DEF TypeOK, Now

(* How a restore goes on reading.                                          *)
LEMMA SentOpens ==
    ASSUME Core, NEW r \in Requests, NEW h, Moves(r, h), SentInv(r), UnderWay(r),
           Opens(r, h), Same(r, h)
    PROVE  SentInv(r)'
<1>1. req'[r] = h /\ dirs' = dirs
  BY BecomesOnly DEF Core, Moves
<1>2. /\ req[r].pc = "backup" /\ h.pc = "rest" /\ h.opened = Len(dirs)
      /\ h.files = req[r].files /\ h.failed = req[r].failed
      /\ h.kind = req[r].kind /\ h.since = req[r].since
  BY DEF Opens, Same
<1>3. /\ dirs[h.opened][Len(h.files) + 1] # None
      /\ h.first = dirs[h.opened][Len(h.files) + 1].first
  BY <1>2 DEF Opens, Now
<1>4. req[r].since <= Len(dirs) /\ Len(dirs) \in Nat
  BY DirsType DEF SentInv, Core
<1>5. h.kind.op = "restore" => CutOf(h.files, h.failed, h.since, dirs, Len(h.files), Len(dirs))
  BY <1>2 DEF SentInv, CutSoFar, Until
<1>6. HasFirst(r)'
  BY <1>1, <1>2, <1>3, <1>4 DEF HasFirst
<1>7. h.kind.op = "restore" => CutSoFar(r)'
  BY <1>1, <1>2, <1>5 DEF CutSoFar, Until
<1> QED BY <1>1, <1>2, <1>4, <1>6, <1>7 DEF SentInv, Reading

LEMMA SentReturns ==
    ASSUME Core, NEW r \in Requests, NEW h, Moves(r, h), SentInv(r), UnderWay(r),
           NEW x \in File \cup {None}, Returns(r, h, x), Same(r, h)
    PROVE  SentInv(r)'
<1>1. req'[r] = h /\ dirs' = dirs
  BY BecomesOnly DEF Core, Moves
<1>2. PICK n, files, m : n = Len(req[r].files) /\ files = req[r].files /\ m = Len(dirs)
  OBVIOUS
<1>3. /\ req[r] \in Handler /\ files \in Seq(File \cup {None}) /\ req[r].pc \in Reading
      /\ req[r].since \in 1..MaxBackups /\ req[r].opened \in 1..MaxBackups
  BY <1>2, ReqType DEF Core, Handler, Returns, Reading
<1>4. n \in 0..(Len(Files) - 1) /\ n \in Nat /\ n + 1 \in 1..Len(Files)
  <2>1. n \in Nat /\ n < 3
    BY <1>2, <1>3, FilesLength DEF Core, FilesInv
  <2> QED BY <2>1, FilesLength
<1>5. /\ h.files = Append(files, x) /\ (req[r].failed => h.failed)
      /\ h.kind = req[r].kind /\ h.since = req[r].since
      /\ h.pc = IF n + 1 = Len(Files) THEN "client" ELSE "backup"
  BY <1>2 DEF Returns, Same
<1>6. /\ Len(h.files) = n + 1 /\ h.files[n + 1] = x
      /\ \A i \in 1..n : h.files[i] = files[i]
  BY <1>2, <1>3, <1>5
<1>7. /\ req[r].since \in Nat /\ req[r].opened \in Nat \ {0}
      /\ req[r].since <= m /\ m \in Nat \ {0}
  BY <1>2, <1>3, DirsType, BoundsAssumption DEF SentInv, Core
<1>8. ASSUME req[r].kind.op = "restore"
      PROVE  CutOf(h.files, h.failed, h.since, dirs, n + 1, m)
  <2>1. CASE req[r].pc = "backup"
    <3>1. CutOf(files, req[r].failed, req[r].since, dirs, n, m)
      BY <1>2, <1>8, <2>1 DEF SentInv, CutSoFar, Until
    <3>2. \/ x = None /\ h.failed
          \/ x \in File /\ x = dirs[m][n + 1]
      BY <1>2, <2>1 DEF Returns, Now
    <3>6. PICK o : o = m
      OBVIOUS
    <3>3. Piece(h.files[n + 1], h.failed, dirs, n + 1, o, o)
      BY <1>6, <3>2, <3>6, FileAssumption DEF Piece
    <3>4. m \in Nat /\ o \in Nat /\ m <= o /\ o <= o /\ o <= m
      BY <1>7, <3>6
    <3>7. PICK since, failed, failed2, files2 :
             /\ since = req[r].since /\ failed = req[r].failed
             /\ failed2 = h.failed /\ files2 = h.files
      OBVIOUS
    <3>8. CutOf(files, failed, since, dirs, n, m) /\ since \in Nat /\ since <= m
      BY <1>7, <3>1, <3>7
    <3>9. /\ \A i \in 1..n : files2[i] = files[i]
          /\ failed => failed2
          /\ Piece(files2[n + 1], failed2, dirs, n + 1, o, o)
      BY <1>5, <1>6, <3>3, <3>7
    <3>10. n \in 0..(Len(Files) - 1)
      BY <1>4
    <3>11. CutOf(files2, failed2, since, dirs, n + 1, m)
      BY <3>4, <3>8, <3>9, <3>10, CutExtend
    <3>5. CutOf(h.files, h.failed, req[r].since, dirs, n + 1, m)
      BY <3>7, <3>11
    <3> QED BY <1>5, <3>5
  <2>2. CASE req[r].pc = "rest"
    <3>1. PICK o : o = req[r].opened
      OBVIOUS
    <3>2. CutOf(files, req[r].failed, req[r].since, dirs, n, o)
      BY <1>2, <1>8, <2>2, <3>1 DEF SentInv, CutSoFar, Until
    <3>3. /\ req[r].since <= o /\ o <= m /\ o \in Nat \ {0}
          /\ dirs[o][n + 1] # None /\ req[r].first = dirs[o][n + 1].first
      BY <1>2, <1>7, <1>8, <2>2, <3>1 DEF SentInv, HasFirst
    <3>4. x \in File /\ x.first = dirs[o][n + 1].first
      BY <2>2, <3>3 DEF Returns
    <3>5. CASE x.rest = 0 /\ h.failed
      <4>1. Piece(h.files[n + 1], h.failed, dirs, n + 1, o, o)
        BY <1>6, <3>3, <3>4, <3>5, FileAssumption DEF Piece
      <4>2. o \in Nat /\ o <= o /\ m \in Nat
        BY <1>7, <3>3
      <4>3. CutOf(h.files, h.failed, req[r].since, dirs, n + 1, m)
        BY <1>4, <1>5, <1>6, <1>7, <3>2, <3>3, <4>1, <4>2, CutExtend
      <4> QED BY <1>5, <4>3
    <3>6. ASSUME NEW k \in Lives(n + 1, o), x.rest = dirs[k][n + 1].rest
          PROVE  CutOf(h.files, h.failed, h.since, dirs, n + 1, m)
      <4>1. k \in Nat /\ o <= k /\ k <= m /\ dirs[k][n + 1] # None
        BY <1>2, <1>4, <1>7, <3>3, <3>6, LivesType DEF Core
      <4>2. Piece(h.files[n + 1], h.failed, dirs, n + 1, o, k)
        BY <1>6, <3>3, <3>4, <3>6, <4>1, FileAssumption DEF Piece
      <4>3. o \in Nat /\ o <= o /\ m \in Nat
        BY <1>7, <3>3
      <4>4. CutOf(h.files, h.failed, req[r].since, dirs, n + 1, m)
        BY <1>4, <1>5, <1>6, <1>7, <3>2, <3>3, <4>1, <4>2, <4>3, CutExtend
      <4> QED BY <1>5, <4>4
    <3>7. \/ x.rest = 0 /\ h.failed
          \/ \E k \in Lives(n + 1, o) : x.rest = dirs[k][n + 1].rest
      BY <1>2, <2>2, <3>1 DEF Returns
    <3> QED BY <3>5, <3>6, <3>7
  <2> QED BY <1>3, <2>1, <2>2 DEF Reading
<1>9. h.pc \in {"client", "backup"} /\ (h.pc = "client" => n + 1 = Len(Files))
  BY <1>5
<1>10. req[r].kind.op = "restore" => CutSoFar(r)'
  BY <1>1, <1>2, <1>6, <1>8, <1>9 DEF CutSoFar, Until
<1> QED BY <1>1, <1>2, <1>5, <1>6, <1>7, <1>9, <1>10 DEF SentInv, Reading

LEMMA SentMoves ==
    ASSUME Core, NEW r \in Requests, NEW h, Moves(r, h), SentInv(r), Settled(r)
    PROVE  SentInv(r)'
<1>1. req'[r] = h /\ h \in Handler /\ dirs' = dirs
  BY BecomesOnly DEF Core, Moves, Becomes
<1>3. NotYet(r)
  BY DEF Core, TruthInv
<1>4. CASE Receives(r, h)
  <2>1. /\ h.since = Len(dirs) /\ h.files = <<>>
        /\ h.pc = IF h.kind.op = "restore" THEN "backup" ELSE "client"
    BY <1>4 DEF Receives, Core, FilesInv
  <2>2. Len(h.files) = 0 /\ Len(dirs) \in Nat /\ h.since <= Len(dirs) /\ h.since \in Nat
    BY <2>1, DirsType DEF Core
  <2>3. CutOf(h.files, h.failed, h.since, dirs, Len(h.files), Len(dirs))
    BY <2>1, <2>2, CutStart
  <2>4. h.pc # "rest"
    BY <2>1
  <2>5. CutSoFar(r)'
    BY <1>1, <2>3, <2>4 DEF CutSoFar, Until
  <2> QED BY <1>1, <2>1, <2>2, <2>4, <2>5 DEF SentInv, Reading
<1>5. CASE Refuses(r, h)
  <2>1. h.pc = "done" /\ call'[r] = "none"
    BY <1>3, <1>5 DEF Refuses, NotYet, Unsent, Moves, Sends, Removes
  <2> QED BY <1>1, <2>1 DEF SentInv, UnderWay, Reading
<1>6. CASE Reads(r, h)
  <2>1. UnderWay(r)
    BY <1>6, ReadsKeep DEF UnderWay
  <2> QED BY <1>6, <2>1, SentOpens, SentReturns DEF Reads
<1>7. CASE Sends(r, h) \/ Answers(r, h) \/ Removes(r, h)
  <2>1. /\ h.kind = req[r].kind /\ h.since = req[r].since
        /\ h.files = req[r].files
        /\ req[r].pc \notin Reading /\ h.pc \notin Reading
    BY <1>7 DEF Sends, Answers, Removes, Reading
  <2>2. UnderWay(r)' => UnderWay(r)
    <3>1. CASE Sends(r, h)
      BY <3>1 DEF Sends, UnderWay
    <3>2. CASE Answers(r, h) \/ Removes(r, h)
      <4>1. call'[r] = call[r] /\ h.pc \in {"returned", "done"}
        BY <3>2 DEF Moves, Answers, Removes, Sends
      <4> QED BY <1>1, <4>1 DEF UnderWay, Reading
    <3> QED BY <1>7, <3>1, <3>2
  <2>3. CASE Removes(r, h)
    <3>1. req[r].kind.op # "restore"
      BY <2>3 DEF Removes, Settled
    <3> QED BY <1>1, <2>1, <2>2, <3>1 DEF SentInv
  <2>4. CASE Sends(r, h) \/ Answers(r, h)
    <3>1. h.failed = req[r].failed /\ h.pc # "rest" /\ req[r].pc # "rest"
      BY <2>1, <2>4 DEF Sends, Answers, Reading
    <3>2. CutSoFar(r)' = CutSoFar(r)
      BY <1>1, <2>1, <3>1 DEF CutSoFar, Until
    <3> QED BY <1>1, <2>1, <2>2, <3>1, <3>2 DEF SentInv
  <2> QED BY <1>7, <2>3, <2>4
<1> QED BY <1>4, <1>5, <1>6, <1>7 DEF Moves

LEMMA SentWrite ==
    ASSUME Core, NEW r \in Requests, SentInv(r), WriteBackup
    PROVE  SentInv(r)'
<1>1. UNCHANGED <<req, call>>
  BY DEF WriteBackup
<1>2. PICK d : dirs' = Append(dirs, d)
  BY DEF WriteBackup
<1>3. /\ Len(dirs) \in Nat \ {0} /\ Len(dirs') = Len(dirs) + 1
      /\ \A i \in 1..Len(dirs) : dirs'[i] = dirs[i]
  BY <1>2, DirsType DEF Core
<1>4. /\ req[r].since \in Nat \ {0} /\ req[r].files \in Seq(File \cup {None})
      /\ req[r].opened \in Nat \ {0}
  BY ReqType, BoundsAssumption DEF Core, Handler
<1>5. CASE UnderWay(r) /\ req[r].kind.op = "restore"
  <2>1. /\ req[r].since <= Len(dirs) /\ CutSoFar(r)
        /\ req[r].pc = "rest" => HasFirst(r)
        /\ req[r].pc \notin Reading => Len(req[r].files) = Len(Files)
    BY <1>5 DEF SentInv
  <2>2. Len(req[r].files) \in 0..Len(Files)
    <3>1. CASE req[r].pc \in Reading
      <4> DEFINE n == Len(req[r].files)
      <4>1. n < 3 /\ n \in Nat
        BY <1>4, <3>1, FilesLength DEF Core, FilesInv
      <4> HIDE DEF n
      <4>2. n \in 0..3
        BY <4>1
      <4> QED BY <4>2, FilesLength DEF n
    <3>2. CASE req[r].pc \notin Reading
      BY <2>1, <3>2, FilesLength
    <3> QED BY <3>1, <3>2
  <2>3. CutOf(req[r].files, req[r].failed, req[r].since, dirs, Len(req[r].files), Until(r))
    BY <2>1 DEF CutSoFar
  <2>4. CASE req[r].pc = "rest"
    <3>1. Until(r) = req[r].opened /\ Until(r)' = req[r].opened
      BY <1>1, <2>4 DEF Until
    <3>2. /\ req[r].since <= req[r].opened /\ req[r].opened <= Len(dirs)
          /\ dirs[req[r].opened][Len(req[r].files) + 1] # None
          /\ req[r].first = dirs[req[r].opened][Len(req[r].files) + 1].first
      BY <2>1, <2>4 DEF HasFirst
    <3>3. \A i \in 1..req[r].opened : dirs'[i] = dirs[i]
      BY <1>3, <1>4, <3>2
    <3>4. CutOf(req[r].files, req[r].failed, req[r].since, dirs', Len(req[r].files),
                req[r].opened)
      BY <1>4, <2>2, <2>3, <3>1, <3>3, CutLater
    <3>5. CutSoFar(r)'
      BY <1>1, <3>1, <3>4 DEF CutSoFar
    <3>6. dirs'[req[r].opened] = dirs[req[r].opened] /\ req[r].opened <= Len(dirs')
      BY <1>3, <1>4, <3>2
    <3>7. HasFirst(r)'
      BY <1>1, <3>2, <3>6 DEF HasFirst
    <3>8. req[r].since <= Len(dirs')
      BY <1>3, <1>4, <2>1
    <3> QED BY <1>1, <1>5, <2>4, <3>5, <3>7, <3>8 DEF SentInv, Reading
  <2>5. CASE req[r].pc # "rest"
    <3>1. Until(r) = Len(dirs) /\ Until(r)' = Len(dirs')
      BY <1>1, <2>5 DEF Until
    <3>2. Len(dirs) \in Nat /\ Len(dirs') \in Nat /\ Len(dirs) <= Len(dirs')
      BY <1>3
    <3>3. CutOf(req[r].files, req[r].failed, req[r].since, dirs', Len(req[r].files),
                Len(dirs'))
      BY <1>3, <1>4, <2>2, <2>3, <3>1, <3>2, CutLater
    <3>4. CutSoFar(r)'
      BY <1>1, <3>1, <3>3 DEF CutSoFar
    <3>5. req[r].since <= Len(dirs')
      BY <1>3, <1>4, <2>1
    <3> QED BY <1>1, <2>1, <2>5, <3>4, <3>5 DEF SentInv
  <2> QED BY <2>4, <2>5
<1>6. CASE ~ (UnderWay(r) /\ req[r].kind.op = "restore")
  <2>1. UnderWay(r)' = UnderWay(r)
    BY <1>1 DEF UnderWay
  <2>2. UnderWay(r) => req[r].since <= Len(dirs')
    BY <1>3, <1>4 DEF SentInv
  <2> QED BY <1>1, <1>6, <2>1, <2>2 DEF SentInv
<1> QED BY <1>5, <1>6

LEMMA SentStep == Core /\ MarkerInv /\ AllSent /\ [Next]_vars => AllSent'
<1> SUFFICES ASSUME Core, MarkerInv, AllSent, [Next]_vars PROVE AllSent'
  OBVIOUS
<1>1. CASE Outside
  <2> SUFFICES ASSUME NEW r \in Requests PROVE SentInv(r)'
    BY DEF AllSent
  <2>1. UNCHANGED <<req, call>> /\ SentInv(r)
    BY <1>1, OutsideOnly DEF AllSent
  <2>2. CASE UNCHANGED dirs
    <3>1. Until(r)' = Until(r)
      BY <2>1, <2>2 DEF Until
    <3>2. CutSoFar(r)' = CutSoFar(r) /\ HasFirst(r)' = HasFirst(r)
      BY <2>1, <2>2, <3>1 DEF CutSoFar, HasFirst
    <3> QED BY <2>1, <2>2, <3>2 DEF SentInv, UnderWay
  <2>3. CASE WriteBackup
    BY <2>1, <2>3, SentWrite
  <2> QED BY <1>1, <2>2, <2>3 DEF Outside, Connections, vars
<1>2. ASSUME NEW r \in Requests, Decided(r) PROVE AllSent'
  <2>1. ASSUME NEW q \in Requests PROVE SentInv(q)'
    <3>1. UNCHANGED <<req, dirs>>
      BY <1>2, DecidedOnly DEF Core
    <3>2. call[q] = "none" => call'[q] = "none"
      BY <1>2, DecidedOnly DEF Core
    <3>3. CutSoFar(q)' = CutSoFar(q) /\ HasFirst(q)' = HasFirst(q)
      BY <3>1 DEF CutSoFar, HasFirst, Until
    <3> QED BY <3>1, <3>2, <3>3 DEF AllSent, SentInv, UnderWay
  <2> QED BY <2>1 DEF AllSent
<1>3. ASSUME NEW r \in Requests, Moved(r) PROVE AllSent'
  <2>1. PICK h : Moves(r, h)
    BY <1>3 DEF Moved
  <2>2. SentInv(r)'
    BY <2>1, SentMoves DEF AllSent, MarkerInv
  <2>3. ASSUME NEW q \in Requests \ {r} PROVE SentInv(q)'
    <3>1. req'[q] = req[q] /\ call'[q] = call[q]
      BY <2>1, MovesOnly DEF Core
    <3>2. dirs' = dirs
      BY <2>1 DEF Moves
    <3>3. CutSoFar(q)' = CutSoFar(q) /\ HasFirst(q)' = HasFirst(q)
      BY <3>1, <3>2 DEF CutSoFar, HasFirst, Until
    <3> QED BY <3>1, <3>2, <3>3 DEF AllSent, SentInv, UnderWay
  <2> QED BY <2>2, <2>3 DEF AllSent
<1> QED BY <1>1, <1>2, <1>3, StepCases DEF Core

(* What a restore sends to opendexd is a forward reading of the directory, *)
(* piece by piece as it stood during the request, however often and in     *)
(* whatever pieces the files are written meanwhile.                        *)
THEOREM RestoresAreReadings == Spec => []RestoreIsReading
<1>1. Init => Core /\ MarkerInv /\ AllSent
  BY CoreInit, MarkerInit, SentInit
<1>2. Core /\ MarkerInv /\ AllSent /\ [Next]_vars => (Core /\ MarkerInv /\ AllSent)'
  BY TruthStep, MarkerStep, SentStep
<1>3. Core /\ AllSent => RestoreIsReading
  BY Sent
<1> QED BY <1>1, <1>2, <1>3, PTL DEF Spec
=============================================================================
