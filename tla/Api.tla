-------------------------------- MODULE Api --------------------------------
(***************************************************************************)
(* The REST handlers that pass a request on to a backend over gRPC:        *)
(* opendexd/api.go, lnd/api.go, boltz/api.go, their getClient and the      *)
(* reply in utils.go.  The connections are those of Connection.  A request *)
(* is told apart by what it does there: "read" stands for the handlers     *)
(* that only ask, "command" for create, unlock, placeorder, removeorder    *)
(* and withdraw.                                                           *)
(***************************************************************************)
EXTENDS Integers, FiniteSets, Sequences

CONSTANTS
    Conns,        \* those of opendexd, lnd and boltz (a chain's) there are
    Requests,     \* HTTP requests
    None,         \* no client; no file
    Width,        \* the numbers of uint32, 2^32 in the code
    Amounts,      \* values of inbound_liquidity
    Free,         \* bound: requests of any kind, the others only command or changepass
    Apart,        \* bound: when TRUE, a restore is the only request there is, and
                  \* the backup is only written while one reads it
    MaxBackups    \* bound: states of the backup directory

Files == <<"lnd-BTC", "lnd-LTC", "opendexd">>

ASSUME ConnsAssumption == Conns \subseteq {"opendexd", "lnd", "boltz"}
ASSUME AmountsAssumption == Amounts \subseteq Int /\ Amounts # {}
ASSUME BoundsAssumption == Width \in Nat \ {0} /\ MaxBackups \in Nat \ {0}
                            /\ Apart \in BOOLEAN

VARIABLES
    serving,  \* the HTTP server serves
    held,     \* held[c]: what GetClient returns
    req,      \* req[r]: the handler of r
    call,     \* call[r]: what has become of its call at the backend
    marker,   \* .password-unset exists
    dirs      \* the states the backup directory has had, the last one now

vars == <<serving, held, req, call, marker, dirs>>

Link == INSTANCE Connection WITH Clients <- {"client"}, NoClient <- None

(* What a request may be: "unknown" is boltz with a currency it has not.   *)
Targets == Conns \cup (IF "boltz" \in Conns THEN {"unknown"} ELSE {})
Kinds ==
    LET to(op, on, arg) == [op : {op}, on : on \cap Targets, arg : arg] IN
    to("read", Targets, {0})
    \cup to("command", {"opendexd", "boltz", "unknown"}, {0})
    \cup to("deposit", {"boltz", "unknown"}, Amounts)
    \cup to("changepass", {"opendexd"}, {0})
    \cup to("restore", {"opendexd"}, {0})

NoKind == [op |-> "none", on |-> "none", arg |-> 0]
(* A file is written and read piece by piece, here in two: what stands     *)
(* before and behind some place in it.  0 is nothing, another number the   *)
(* rewriting that put it there.                                            *)
File == [first : Nat, rest : Nat]
ASSUME FileAssumption == None \notin File
Contents(first, rest) == [first |-> first, rest |-> rest]
Directory == [1..Len(Files) -> File \cup {None}]
Reply == [code : {0, 200, 400, 500},
          why : {"none", "invalid", "noClient", "panic", "refused", "deadline"}]
Pcs == {"new", "backup", "rest", "client", "calling", "returned", "done"}
Fates == {"none", "sent", "applied", "rejected", "lost"}

(* since, opened: the directory when the request came and when it opened a *)
(* file; first: what it has read of that one; files: what it has read;     *)
(* failed: a file could not be read, or the marker not removed.            *)
Handler == [pc : Pcs, kind : Kinds \cup {NoKind}, reply : Reply, since : 1..MaxBackups,
            opened : 1..MaxBackups, first : Nat, files : Seq(File \cup {None}),
            sent : 0..(Width - 1), failed : BOOLEAN]

NoReply == [code |-> 0, why |-> "none"]

TypeOK ==
    /\ serving \in BOOLEAN
    /\ held \in [Conns -> {"client", None}]
    /\ req \in [Requests -> Handler]
    /\ call \in [Requests -> Fates]
    /\ marker \in BOOLEAN
    /\ dirs \in Seq(Directory) /\ Len(dirs) \in 1..MaxBackups

Init ==
    /\ Link!Init
    /\ req = [r \in Requests |-> [pc |-> "new", kind |-> NoKind, reply |-> NoReply,
                since |-> 1, opened |-> 1, first |-> 0, files |-> <<>>, sent |-> 0, failed |-> FALSE]]
    /\ call = [r \in Requests |-> "none"]
    /\ marker = TRUE
    /\ dirs = <<[i \in 1..Len(Files) |-> Contents(1, 1)]>>

-----------------------------------------------------------------------------
(* What happens outside: connections, the backup that lnd and opendexd     *)
(* keep writing, and calls that arrive, or do not, at any later time.      *)

Connections == Link!Next /\ UNCHANGED <<req, call, marker, dirs>>

Now == dirs[Len(dirs)]

(* What may become of file f in one go: it is removed, emptied, begun anew *)
(* or written anew as the v-th; or what was begun is completed.            *)
Rewritings(f, v) ==
    {None, Contents(0, 0), Contents(v, 0), Contents(v, v)}
    \cup (IF f # None /\ f.rest = 0 THEN {Contents(f.first, f.first)} ELSE {})

WriteBackup ==
    /\ Len(dirs) < MaxBackups
    /\ Apart => \E r \in Requests : req[r].pc \in {"backup", "rest"}
    /\ \E i \in DOMAIN Now : \E f \in Rewritings(Now[i], Len(dirs) + 1) :
          dirs' = Append(dirs, [Now EXCEPT ![i] = f])
    /\ UNCHANGED <<serving, held, req, call, marker>>

Backend(r, fate) ==
    /\ call[r] = "sent"
    /\ call' = [call EXCEPT ![r] = fate]
    /\ UNCHANGED <<serving, held, req, marker, dirs>>

Apply(r) == Backend(r, "applied")
Reject(r) == Backend(r, "rejected")
Lose(r) == Backend(r, "lost")

-----------------------------------------------------------------------------
(* The handlers.                                                           *)

Others == UNCHANGED <<serving, held, dirs>>
Handle(r, h) == req' = [req EXCEPT ![r] = h]

(* Every handler replies at its end; changepass removes the marker first.  *)
Answer(r, code, why) ==
    Handle(r, [req[r] EXCEPT
        !.pc = IF req[r].kind.op = "changepass" THEN "returned" ELSE "done",
        !.reply = [code |-> code, why |-> why]])

IsApart(r, kind) ==
    \A q \in Requests \ {r} : IF kind.op = "restore" THEN req[q].pc = "new"
                             ELSE req[q].kind.op # "restore"

(* A variant that passes the number on as it is.                           *)
ReceiveUnwrapped(r) ==
    /\ serving /\ req[r].pc = "new"
    /\ \E kind \in {k \in Kinds : k.op \in {"command", "deposit"}} :
          Handle(r, [req[r] EXCEPT !.kind = kind, !.since = Len(dirs),
                                   !.pc = "client", !.sent = kind.arg])
    /\ UNCHANGED <<call, marker>> /\ Others

Receive(r) ==
    /\ serving /\ req[r].pc = "new"
    /\ \E kind \in {k \in Kinds : r \in Free \/ k.op \in {"command", "changepass"}} :
          /\ Apart => IsApart(r, kind)
          /\ Handle(r, [req[r] EXCEPT !.kind = kind, !.since = Len(dirs),
                        !.pc = IF kind.op = "restore" THEN "backup" ELSE "client",
                        !.sent = kind.arg % Width])
    /\ UNCHANGED <<call, marker>> /\ Others

(* BindJSON, BindQuery, ParseUint, ParseInt or Atoi fails; lnd's handler   *)
(* takes no input.                                                         *)
BadRequest(r) ==
    /\ serving /\ req[r].pc = "new"
    /\ \E kind \in {k \in Kinds : k.on # "lnd"} :
          /\ Apart => IsApart(r, kind)
          /\ Handle(r, [req[r] EXCEPT !.kind = kind, !.pc = "done",
                                      !.reply = [code |-> 400, why |-> "invalid"]])
    /\ UNCHANGED <<call, marker>> /\ Others

(* ioutil.ReadFile has come to the end of its file, or to an error, which  *)
(* is overwritten; x is what it returns.                                   *)
Took(r, x, fails) ==
    Handle(r, [req[r] EXCEPT
        !.files = Append(@, x), !.failed = @ \/ fails,
        !.pc = IF Len(req[r].files) + 1 = Len(Files) THEN "client" ELSE "backup"])

(* A variant that puts the first file last.                                *)
ReadFileBackwards(r) ==
    LET f == Now[Len(Files) - Len(req[r].files)] IN
    /\ req[r].pc = "backup" /\ f # None
    /\ Took(r, f, FALSE)
    /\ UNCHANGED <<call, marker>> /\ Others

(* It opens the next file and reads of it what stands first; of an empty   *)
(* file that is all.                                                       *)
ReadFile(r) ==
    LET f == Now[Len(req[r].files) + 1] IN
    /\ req[r].pc = "backup"
    /\ \/ Took(r, None, TRUE)
       \/ f # None /\ f.first = 0 /\ Took(r, f, FALSE)
       \/ /\ f # None /\ f.first # 0
          /\ Handle(r, [req[r] EXCEPT !.pc = "rest", !.first = f.first,
                                      !.opened = Len(dirs)])
    /\ UNCHANGED <<call, marker>> /\ Others

(* It reads on, in what the file has become since: the last of it where it *)
(* was written in place; where another file took its place, or none, what  *)
(* was opened stays as it was for those who have opened it.                *)
Lives(i, from) ==
    {k \in from..Len(dirs) : \A j \in from..k : dirs[j][i] # None}

ReadRest(r) ==
    LET i == Len(req[r].files) + 1
        read(rest) == Contents(req[r].first, rest)
    IN
    /\ req[r].pc = "rest"
    /\ \/ Took(r, read(0), TRUE)
       \/ \E k \in Lives(i, req[r].opened) : Took(r, read(dirs[k][i].rest), FALSE)
    /\ UNCHANGED <<call, marker>> /\ Others

Client(r) == held[req[r].kind.on]
UnknownCurrency(r) == req[r].kind.on = "unknown"

(* getRpcClient of boltz asserts the type of what GetClient returns before *)
(* it tests for nil, and panics on a currency that is neither btc nor ltc. *)
(* gin recovers.                                                           *)
GetClientPanics(r) ==
    /\ req[r].pc = "client"
    /\ \/ UnknownCurrency(r)
       \/ req[r].kind.on = "boltz" /\ Client(r) = None
    /\ Answer(r, 500, "panic")
    /\ UNCHANGED <<call, marker>> /\ Others

NoClient(r) ==
    /\ req[r].pc = "client" /\ req[r].kind.on \in {"opendexd", "lnd"}
    /\ Client(r) = None
    /\ Answer(r, 500, "noClient")
    /\ UNCHANGED <<call, marker>> /\ Others

Send(r) ==
    /\ req[r].pc = "client" /\ ~ UnknownCurrency(r) /\ Client(r) # None
    /\ Handle(r, [req[r] EXCEPT !.pc = "calling"])
    /\ call' = [call EXCEPT ![r] = "sent"]
    /\ UNCHANGED marker /\ Others

(* A variant that replies without looking at the error.                    *)
ReturnBlindly(r) ==
    /\ req[r].pc = "calling" /\ call[r] \in {"applied", "rejected"}
    /\ Answer(r, 200, "none")
    /\ UNCHANGED <<call, marker>> /\ Others

Return(r) ==
    /\ req[r].pc = "calling"
    /\ \/ call[r] = "applied" /\ Answer(r, 200, "none")
       \/ call[r] = "rejected" /\ Answer(r, 500, "refused")
    /\ UNCHANGED <<call, marker>> /\ Others

(* A variant with context.Background() and no deadline.                    *)
GiveUpNever(r) ==
    /\ req[r].pc = "calling" /\ call[r] = "lost"
    /\ UNCHANGED vars

(* The deadline passes, or the connection breaks, before the answer.       *)
GiveUp(r) ==
    /\ req[r].pc = "calling"
    /\ Answer(r, 500, "deadline")
    /\ UNCHANGED <<call, marker>> /\ Others

(* A variant that leaves the marker.                                       *)
RemoveMarkerNever(r) ==
    /\ req[r].pc = "returned"
    /\ Handle(r, [req[r] EXCEPT !.pc = "done"])
    /\ UNCHANGED <<call, marker>> /\ Others

(* os.Remove, whatever the outcome was; its error is ignored.              *)
RemoveMarker(r) ==
    /\ req[r].pc = "returned"
    /\ \E fails \in BOOLEAN :
          /\ Handle(r, [req[r] EXCEPT !.pc = "done", !.failed = fails])
          /\ marker' = (marker /\ fails)
    /\ UNCHANGED call /\ Others

HandlerStep(r) == \/ ReadFile(r) \/ ReadRest(r) \/ GetClientPanics(r) \/ NoClient(r) \/ Send(r)
                  \/ Return(r) \/ GiveUp(r) \/ RemoveMarker(r)

Next ==
    \/ Connections \/ WriteBackup
    \/ \E r \in Requests : \/ Receive(r) \/ BadRequest(r) \/ HandlerStep(r)
                           \/ Apply(r) \/ Reject(r) \/ Lose(r)

(* Handlers run and their deadlines pass.                                  *)
Spec == Init /\ [][Next]_vars /\ \A r \in Requests : WF_vars(HandlerStep(r))

-----------------------------------------------------------------------------
(* Properties.                                                             *)

(* What the answer says of the backend is true, and stays true: 200 means  *)
(* done; 400, no client, a panic and a refusal mean that it was not and    *)
(* will not be.  Only a deadline leaves it open.  Only boltz panics.       *)
AnswerIsTrue ==
    \A r \in Requests :
        LET why == req[r].reply.why IN
        /\ req[r].reply.code = 200 => call[r] = "applied"
        /\ why \in {"invalid", "noClient", "panic"} => call[r] = "none"
        /\ why = "refused" => call[r] = "rejected"
        /\ why = "panic" => req[r].kind.on \in {"boltz", "unknown"}

(* What a restore sends is a forward reading of the directory: its files   *)
(* one after the other, the two pieces of each one after the other, and    *)
(* every piece as it stood at that moment of the request.  So a file that  *)
(* nobody has written since the request came is sent whole and as it was,  *)
(* and one that is rewritten meanwhile may be cut short or a mixture of    *)
(* two, with no error, but an older piece never follows a newer one.  A    *)
(* file that is not there fails to be read and is sent empty.              *)
IsReading(r) ==
    LET files == req[r].files
        Moments == [1..Len(Files) -> req[r].since..Len(dirs)]
    IN
    \E k, l \in Moments :
        /\ \A i \in 1..Len(Files) : k[i] <= l[i] /\ (i > 1 => l[i - 1] <= k[i])
        /\ \A i \in 1..Len(Files) :
              \/ files[i] = None /\ req[r].failed
              \/ /\ files[i] # None /\ dirs[k[i]][i] # None /\ dirs[l[i]][i] # None
                 /\ files[i].first = dirs[k[i]][i].first
                 /\ \/ files[i].rest = dirs[l[i]][i].rest
                    \/ files[i].rest = 0 /\ req[r].failed

RestoreIsReading ==
    \A r \in Requests :
        req[r].kind.op = "restore" /\ call[r] # "none" => IsReading(r)

(* The marker of a password that was never set goes although none was set  *)
(* only where a change of password got an error: no client, a refusal, or  *)
(* a deadline.  Where one was answered with 200 it is gone, unless it could*)
(* not be removed.                                                         *)
Changes == {r \in Requests : req[r].kind.op = "changepass"}

MarkerExplained ==
    /\ ~ marker => \E r \in Changes : call[r] = "applied" \/ req[r].reply.code = 500
    /\ marker => \A r \in Changes : req[r].pc = "done" /\ req[r].reply.code = 200
                                      => req[r].failed

(* A backend once reached is never again reported as having no client: the *)
(* connections are made, and closed, before requests are served.           *)
NoClientFirst ==
    [][\A r, q \in Requests :
          /\ req[q].kind.on = req[r].kind.on /\ call[q] # "none"
          /\ req[r].pc = "client" /\ req[r].kind.on \in Conns
          => req'[r].reply.why \notin {"noClient", "panic"}]_vars

(* Every request is answered, whatever the backend does.                   *)
Answered == \A r \in Requests : req[r].pc # "new" ~> req[r].pc = "done"
=============================================================================
