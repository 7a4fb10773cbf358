----------------------------- MODULE StatusApi -----------------------------
(***************************************************************************)
(* GET /v1/status and /v1/status/:service: Manager.GetStatus               *)
(* (service/manager.go) starts a goroutine per service and collects their  *)
(* answers; each runs the GetStatus of its service (the files under service/), which *)
(* looks at the launcher, cached containers, files and backends one after  *)
(* the other, while all of them change.                                    *)
(*                                                                         *)
(* The world is what the steps of a GetStatus can see.  hist keeps its     *)
(* states, so that a property can say what was so during a request.  A     *)
(* backend that "hangs" does not answer: a call with a deadline then fails *)
(* like any other, a call without one waits.                               *)
(***************************************************************************)
EXTENDS Integers, Sequences, FiniteSets

CONSTANTS
    Services,    \* the services of the configuration
    Disabled,    \* those disabled there (with mode "" or "native")
    Requests,    \* requests
    Kinds,       \* bound: the kinds of request that are made, "all" and "one"
    MaxHeight,   \* bound: block heights
    MaxChanges   \* bound: changes of the world

Names == {"opendexd", "connext", "boltz", "lnd", "geth", "bitcoind", "arby",
          "webui", "proxy"}

ASSUME ServicesKnown == Services \subseteq Names /\ Disabled \subseteq Services
ASSUME StatusBounds  == /\ Kinds \subseteq {"all", "one"}
                        /\ MaxHeight \in Nat \ {0} /\ MaxChanges \in Nat

VARIABLES
    hist,   \* the states of the world so far, the last one being the present
    req,    \* per request: [pc, from, upto, n, result]
    task,   \* per request and service: the call of GetStatus
    alive   \* the process has not crashed

vars == <<hist, req, task, alive>>

Height    == 0..MaxHeight
Providers == {"native", "infura", "light", "other"}

(* What opendexd says of the parts it depends on; "absent": not in its     *)
(* answer.                                                                 *)
Said     == {"Ready", "no active channels", "Disconnected", "absent"}
XudInfo  == [kind : {"error", "locked", "starting", "info"},
             btc : Said, ltc : Said, connext : Said]
LndInfo  == [kind : {"error", "encrypted", "nofile", "noclient",
                     "unimplemented", "info"},
             synced : BOOLEAN, height : Height]
Chain    == [kind : {"error", "rpcerror", "malformed", "info"},
             blocks : Height, headers : Height]
Call     == {"up", "down", "hang"}
(* lnd.conf: its backend, and that backend's rpchost, whose key may stand  *)
(* there whatever the backend is.                                          *)
Conf     == [node : {"full", "neutrino", "bad"}, rpchost : {"own", "other", "missing"}]
World    == [cont : [Services -> {"none", "exited", "running"}],
             setup : BOOLEAN,      \* the launcher's state is "setup"
             nodekey : BOOLEAN,    \* nodekey.dat exists
             opendexd : XudInfo,
             connext : BOOLEAN,    \* its health endpoint
             boltz : [btc : Call, ltc : Call],
             lnd : LndInfo,
             newBlock : Height,    \* last new block in 10 minutes of lnd's log
             progress : [current : Height, total : Height],
             provider : Providers \cup {"unset"},  \* in connext's container
             eth : [Providers -> Call],
             geth : {"error", "syncing", "zero", "synced", "hang"},
             conf : Conf,          \* lnd.conf
             bitcoind : Chain]

(* Everything is well, and lnd waits for its wallet.                       *)
World0 ==
    [cont |-> [s \in Services |-> "running"], setup |-> FALSE, nodekey |-> TRUE,
     opendexd |-> [kind |-> "info", btc |-> "Ready", ltc |-> "Ready",
                   connext |-> "Ready"],
     connext |-> TRUE, boltz |-> [btc |-> "up", ltc |-> "up"],
     lnd |-> [kind |-> "noclient", synced |-> TRUE, height |-> MaxHeight],
     newBlock |-> 0, progress |-> [current |-> 1, total |-> MaxHeight],
     provider |-> "native", eth |-> [p \in Providers |-> "up"],
     geth |-> "synced", conf |-> [node |-> "full", rpchost |-> "own"],
     bitcoind |-> [kind |-> "info", blocks |-> MaxHeight, headers |-> MaxHeight]]

(* A status: its text, and what the text lists or counts.                  *)
ReadyTexts == {"Ready", "Ready (connected to external)",
               "Ready (connected to Infura)", "Ready (light mode)"}
Synced100  == "Synced 100%. Waiting for wallet creation."
Texts      == ReadyTexts \cup Said \cup
    {"", "Disabled", "Container missing", "Container exited", "Waiting for sync",
     "Error", "Starting...", "Wallet locked", "Wallet missing",
     "Waiting for channels", "Waiting for", "Waiting to come up", "Loading",
     "btc, ltc up or down", "Syncing", Synced100, "No provider", "Unavailable"}
Status    == [text : Texts, notReady : SUBSET {"lndbtc", "lndltc", "connext"},
              of : Height \X Height]
Plain(t)       == [text |-> t, notReady |-> {}, of |-> <<0, 0>>]
WaitingFor(S)  == [text |-> "Waiting for", notReady |-> S, of |-> <<0, 0>>]
Syncing(c, t)  == [text |-> "Syncing", notReady |-> {}, of |-> <<c, t>>]
NoStatus       == Plain("")

Labels == {"none", "start", "container", "info", "nodekey", "connext.info",
           "health", "btc", "ltc", "lnd.info", "height", "current", "total",
           "mode", "provider", "check", "eth_syncing", "eth_blockNumber",
           "conf", "rpchost", "getblockchaininfo", "send", "gone"}
Seen   == [provider : Providers \cup {"unset"}, mode : Providers \cup {"unset"},
           btc : {"up", "down"}, synced : BOOLEAN, h : Height]
Seen0  == [provider |-> "unset", mode |-> "unset", btc |-> "down",
           synced |-> FALSE, h |-> 0]
NoTask == [at |-> "none", svc |-> "none", setup |-> FALSE, seen |-> Seen0,
           status |-> NoStatus]
Idle   == [pc |-> "idle", from |-> 0, upto |-> 0, n |-> 0,
           result |-> [s \in Services |-> NoStatus]]

TypeOK ==
    /\ hist \in Seq(World) /\ Len(hist) \in 1..(MaxChanges + 1)
    /\ req \in [Requests -> [pc : {"idle", "all", "one", "answered", "replied",
                                   "failed", "notfound"},
                             from : 0..Len(hist), upto : 0..Len(hist),
                             n : Nat,
                             result : [Services -> Status]]]
    /\ task \in [Requests -> [Services ->
                    [at : Labels, svc : Services \cup {"none"}, setup : BOOLEAN,
                     seen : Seen, status : Status]]]
    /\ alive \in BOOLEAN

Init ==
    /\ hist = <<World0>>
    /\ req = [r \in Requests |-> Idle]
    /\ task = [r \in Requests |-> [s \in Services |-> NoTask]]
    /\ alive = TRUE

Now == hist[Len(hist)]

-----------------------------------------------------------------------------
(* The world.  One thing changes at a time; what no service of the         *)
(* configuration looks at stays as it is, and once every request has ended *)
(* nobody looks at it any more.                                            *)
If(s, S) == IF s \in Services THEN S ELSE {}

Changed(w) ==
       {[w EXCEPT !.cont[s] = c] : s \in Services, c \in {"none", "exited", "running"}}
  \cup {[w EXCEPT !.setup = b] : b \in BOOLEAN}
  \cup If("opendexd",
          {[w EXCEPT !.opendexd.kind = k] :
                k \in {"error", "locked", "starting", "info"}}
     \cup {[w EXCEPT !.opendexd.btc = x] : x \in Said}
     \cup {[w EXCEPT !.opendexd.ltc = x] : x \in Said}
     \cup {[w EXCEPT !.opendexd.connext = x] : x \in Said}
     \cup {[w EXCEPT !.nodekey = b] : b \in BOOLEAN})
  \cup If("connext", {[w EXCEPT !.connext = b] : b \in BOOLEAN})
  \cup If("boltz", {[w EXCEPT !.boltz.btc = x] : x \in Call}
              \cup {[w EXCEPT !.boltz.ltc = x] : x \in Call})
  \cup If("lnd", {[w EXCEPT !.lnd.kind = k] :
                        k \in {"error", "encrypted", "nofile", "noclient",
                               "unimplemented", "info"}}
            \cup {[w EXCEPT !.lnd.synced = b] : b \in BOOLEAN}
            \cup {[w EXCEPT !.lnd.height = h] : h \in Height}
            \cup {[w EXCEPT !.newBlock = h] : h \in Height}
            \cup {[w EXCEPT !.progress.current = h] : h \in Height}
            \cup {[w EXCEPT !.progress.total = h] : h \in Height})
  \cup If("geth", {[w EXCEPT !.provider = p] : p \in Providers \cup {"unset"}}
             \cup {[w EXCEPT !.eth[p] = x] : p \in Providers, x \in Call}
             \cup {[w EXCEPT !.geth = x] :
                       x \in {"error", "syncing", "zero", "synced", "hang"}})
  \cup If("bitcoind", {[w EXCEPT !.conf = c] : c \in Conf}
                 \cup {[w EXCEPT !.bitcoind.kind = k] :
                           k \in {"error", "rpcerror", "malformed", "info"}}
                 \cup {[w EXCEPT !.bitcoind.blocks = h] : h \in Height}
                 \cup {[w EXCEPT !.bitcoind.headers = h] : h \in Height})

Change ==
    /\ alive /\ Len(hist) <= MaxChanges
    /\ \E r \in Requests : req[r].pc \in {"idle", "all", "one"}
    /\ \E w \in Changed(Now) \ {Now} : hist' = Append(hist, w)
    /\ UNCHANGED <<req, task, alive>>

-----------------------------------------------------------------------------
(* The requests.                                                           *)
Asked(r, kind) ==
    req' = [req EXCEPT ![r] = [Idle EXCEPT !.pc = kind, !.from = Len(hist)]]

Task(svc) == [NoTask EXCEPT !.at = "start", !.svc = svc]

(* A variant whose goroutines share the loop's variable.                   *)
SpawnedShared == [s \in Services |-> Task(CHOOSE last \in Services : TRUE)]

(* Each goroutine has its own copy s of the loop's variable.               *)
Spawned == [s \in Services |-> Task(s)]

AskAll(r) ==
    /\ alive /\ req[r].pc = "idle" /\ "all" \in Kinds
    /\ Asked(r, "all")
    /\ task' = [task EXCEPT ![r] = Spawned]
    /\ UNCHANGED <<hist, alive>>

(* A request for one service runs its GetStatus in the handler.            *)
AskOne(r) ==
    /\ alive /\ req[r].pc = "idle" /\ "one" \in Kinds
    /\ \/ /\ Asked(r, "one")
          /\ \E s \in Services : task' = [task EXCEPT ![r][s] = Task(s)]
       \/ /\ Asked(r, "notfound")
          /\ UNCHANGED task
    /\ UNCHANGED <<hist, alive>>

(* The results are kept by name; the request ends with the last of them.   *)
Enough(n) == n = Cardinality(Services)

Collect(r, k) ==
    /\ alive /\ req[r].pc = "all" /\ task[r][k].at = "send"
    /\ LET n == req[r].n + 1 IN
       req' = [req EXCEPT ![r] =
                 [@ EXCEPT !.n = n, !.upto = Len(hist),
                           !.pc = IF Enough(n) THEN "answered" ELSE "all",
                           !.result[task[r][k].svc] = task[r][k].status]]
    /\ task' = [task EXCEPT ![r][k].at = "gone"]
    /\ UNCHANGED <<hist, alive>>

ReplyOne(r, k) ==
    /\ alive /\ req[r].pc = "one" /\ task[r][k].at = "send"
    /\ req' = [req EXCEPT ![r] =
                 [@ EXCEPT !.pc = "replied", !.upto = Len(hist),
                           !.result[task[r][k].svc] = task[r][k].status]]
    /\ task' = [task EXCEPT ![r][k].at = "gone"]
    /\ UNCHANGED <<hist, alive>>

-----------------------------------------------------------------------------
(* The steps of GetStatus: each looks at one thing.                        *)
At(r, k, label) == alive /\ task[r][k].at = label

Goto(r, k, label) ==
    /\ task' = [task EXCEPT ![r][k].at = label]
    /\ UNCHANGED <<hist, req, alive>>
GotoWith(r, k, label, seen) ==
    /\ task' = [task EXCEPT ![r][k] = [@ EXCEPT !.at = label, !.seen = seen]]
    /\ UNCHANGED <<hist, req, alive>>
Finish(r, k, status) ==
    /\ task' = [task EXCEPT ![r][k] =
                  [@ EXCEPT !.at = "send", !.status = status, !.seen = Seen0]]
    /\ UNCHANGED <<hist, req, alive>>

(* A variant without gin's recovery.                                       *)
PanicDies(r, k) ==
    /\ alive' = FALSE
    /\ task' = [task EXCEPT ![r][k].at = "gone"]
    /\ UNCHANGED <<hist, req>>

(* gin recovers the panic of a handler and answers 500; a panic in a       *)
(* goroutine of Manager.GetStatus ends the process.                        *)
Panic(r, k) ==
    /\ IF req[r].pc = "all"
       THEN alive' = FALSE /\ UNCHANGED req
       ELSE req' = [req EXCEPT ![r].pc = "failed"] /\ UNCHANGED alive
    /\ task' = [task EXCEPT ![r][k].at = "gone"]
    /\ UNCHANGED hist

(* The launcher's state goes into the context of the call.                 *)
First(s) == CASE s = "geth" -> "mode" [] s = "bitcoind" -> "conf"
              [] s = "proxy" -> "send" [] OTHER -> "container"

Start(r, k) ==
    /\ At(r, k, "start")
    /\ LET s == task[r][k].svc IN
       task' = [task EXCEPT ![r][k] =
                  [@ EXCEPT !.at = First(s), !.setup = Now.setup,
                            !.status = IF s = "proxy" THEN Plain("Ready") ELSE NoStatus]]
    /\ UNCHANGED <<hist, req, alive>>

(* SingleContainerService.GetStatus of a container that is not running.    *)
NotRunning(s, c) ==
    CASE c # "none" -> Plain("Container exited")
      [] c = "none" /\ s \in Disabled -> Plain("Disabled")
      [] OTHER -> Plain("Container missing")

(* What is looked at once the container runs.                              *)
AfterContainer(s) ==
    CASE s = "opendexd" -> "info"
      [] s = "connext"  -> IF "opendexd" \in Services THEN "connext.info" ELSE "health"
      [] s = "boltz"    -> "btc"
      [] s = "lnd"      -> "lnd.info"
      [] s = "geth"     -> "eth_syncing"
      [] OTHER          -> "getblockchaininfo"

InSetup(s) == s \in {"opendexd", "boltz", "arby"}

Container(r, k) ==
    /\ At(r, k, "container")
    /\ LET s == task[r][k].svc
           c == Now.cont[s] IN
       IF c = "running"
       THEN IF s \in {"arby", "webui"} THEN Finish(r, k, Plain("Ready"))
                                       ELSE Goto(r, k, AfterContainer(s))
       ELSE IF InSetup(s) /\ task[r][k].setup /\ NotRunning(s, c) # Plain("Disabled")
            THEN Finish(r, k, Plain("Waiting for sync"))
            ELSE Finish(r, k, NotRunning(s, c))

-----------------------------------------------------------------------------
(* opendexd and connext: both ask opendexd.                                *)
Lacks(i) == "absent" \in {i.btc, i.ltc, i.connext}

(* A variant that lists the chain instead of the node.                     *)
XudStatusByChain(i) ==
    IF {i.btc, i.ltc, i.connext} = {"Ready"} THEN Plain("Ready")
    ELSE WaitingFor({c \in {"btc", "ltc"} : i[c] # "Ready"})

XudStatus(i) ==
    LET said == [lndbtc |-> i.btc, lndltc |-> i.ltc, connext |-> i.connext]
        late == {p \in DOMAIN said : said[p] # "Ready"} IN
    CASE late = {} -> Plain("Ready")
      [] \E p \in late : said[p] = "no active channels" -> Plain("Waiting for channels")
      [] OTHER -> WaitingFor(late)

(* Two variants: the answer is used without looking at the error, and an   *)
(* error returns without a status.                                         *)
XudGetInfoUnchecked(r, k) ==
    /\ At(r, k, "info")
    /\ LET i == Now.opendexd IN
       IF i.kind # "info" \/ Lacks(i) THEN Panic(r, k) ELSE Finish(r, k, XudStatus(i))

XudGetInfoSilent(r, k) ==
    /\ At(r, k, "info")
    /\ LET i == Now.opendexd IN
       CASE i.kind # "info" -> Goto(r, k, "gone")
         [] Lacks(i)        -> Panic(r, k)
         [] OTHER           -> Finish(r, k, XudStatus(i))

XudGetInfo(r, k) ==
    /\ At(r, k, "info")
    /\ LET i == Now.opendexd IN
       CASE i.kind = "error"    -> Finish(r, k, Plain("Error"))
         [] i.kind = "starting" -> Finish(r, k, Plain("Starting..."))
         [] i.kind = "locked"   -> Goto(r, k, "nodekey")
         [] i.kind = "info"     -> IF Lacks(i) THEN Panic(r, k)
                                               ELSE Finish(r, k, XudStatus(i))

StatNodekey(r, k) ==
    /\ At(r, k, "nodekey")
    /\ Finish(r, k, Plain(IF Now.nodekey THEN "Wallet locked" ELSE "Wallet missing"))

ConnextGetInfo(r, k) ==
    /\ At(r, k, "connext.info")
    /\ LET i == Now.opendexd IN
       IF i.kind # "info" THEN Goto(r, k, "health")
       ELSE IF i.connext = "absent" THEN Panic(r, k)
                                    ELSE Finish(r, k, Plain(i.connext))

IsHealthy(r, k) ==
    /\ At(r, k, "health")
    /\ Finish(r, k, Plain(IF Now.connext THEN "Ready" ELSE "Starting..."))

-----------------------------------------------------------------------------
(* boltz: two commands run in its container, without a deadline.           *)
ExecBtc(r, k) ==
    /\ At(r, k, "btc") /\ Now.boltz.btc # "hang"
    /\ GotoWith(r, k, "ltc", [Seen0 EXCEPT !.btc = Now.boltz.btc])

ExecLtc(r, k) ==
    /\ At(r, k, "ltc") /\ Now.boltz.ltc # "hang"
    /\ Finish(r, k, IF task[r][k].seen.btc = "up" /\ Now.boltz.ltc = "up"
                    THEN Plain("Ready") ELSE Plain("btc, ltc up or down"))

-----------------------------------------------------------------------------
(* lnd.                                                                    *)
(* A variant without the test for total > 0.                               *)
SyncingTextOfNothing(current, total) ==
    IF total <= current
    THEN Plain(Synced100) ELSE Syncing(current, total)

SyncingText(current, total) ==
    LET t == IF total < current THEN current ELSE total IN
    IF t = current /\ t > 0
    THEN Plain(Synced100) ELSE Syncing(current, t)

LndGetInfo(r, k) ==
    /\ At(r, k, "lnd.info")
    /\ LET i == Now.lnd IN
       CASE i.kind = "error"     -> Finish(r, k, Plain("Error"))
         [] i.kind = "encrypted" -> Finish(r, k, Plain("Wallet locked"))
         [] i.kind = "info"      -> GotoWith(r, k, "height",
                                       [Seen0 EXCEPT !.synced = i.synced, !.h = i.height])
         [] OTHER                -> Goto(r, k, "current")

(* GetCurrentHeight; an error of Docker counts as 0.                       *)
LndVerdict(synced, total, current) ==
    IF current > 0
    THEN IF total <= current THEN Plain("Ready") ELSE SyncingText(current, total)
    ELSE Plain(IF synced THEN "Ready" ELSE "Syncing")

CurrentHeight(r, k) ==
    /\ At(r, k, "height")
    /\ \E h \in {0, Now.newBlock} :
          Finish(r, k, LndVerdict(task[r][k].seen.synced, task[r][k].seen.h, h))

(* GetNeutrinoStatus reads two fields the log watcher writes.              *)
ReadCurrent(r, k) ==
    /\ At(r, k, "current")
    /\ GotoWith(r, k, "total", [Seen0 EXCEPT !.h = Now.progress.current])
ReadTotal(r, k) ==
    /\ At(r, k, "total")
    /\ Finish(r, k, SyncingText(task[r][k].seen.h, Now.progress.total))

-----------------------------------------------------------------------------
(* geth: its mode is in the environment of connext's container.            *)
Provider == IF "connext" \in Services /\ Now.cont["connext"] # "none"
            THEN Now.provider ELSE "unset"

GetMode(r, k) ==
    /\ At(r, k, "mode")
    /\ CASE Provider = "unset"  -> Finish(r, k, Plain("Error"))
         [] Provider = "native" -> Goto(r, k, "container")
         [] OTHER -> GotoWith(r, k, "provider", [Seen0 EXCEPT !.mode = Provider])

(* The provider is read again to be called.                                *)
GetProvider(r, k) ==
    /\ At(r, k, "provider")
    /\ IF Provider = "unset" THEN Finish(r, k, Plain("No provider"))
       ELSE GotoWith(r, k, "check", [task[r][k].seen EXCEPT !.provider = Provider])

ReadyText(mode) == CASE mode = "other"  -> "Ready (connected to external)"
                     [] mode = "infura" -> "Ready (connected to Infura)"
                     [] OTHER           -> "Ready (light mode)"

CheckEthRpc(r, k) ==
    LET seen == task[r][k].seen IN
    /\ At(r, k, "check") /\ Now.eth[seen.provider] # "hang"
    /\ Finish(r, k, Plain(IF Now.eth[seen.provider] = "up" THEN ReadyText(seen.mode)
                                                           ELSE "Unavailable"))

EthSyncing(r, k) ==
    /\ At(r, k, "eth_syncing") /\ Now.geth # "hang"
    /\ CASE Now.geth = "error"   -> Finish(r, k, Plain("Waiting to come up"))
         [] Now.geth = "syncing" -> Finish(r, k, Plain("Syncing"))
         [] OTHER                -> Goto(r, k, "eth_blockNumber")

EthBlockNumber(r, k) ==
    /\ At(r, k, "eth_blockNumber") /\ Now.geth # "hang"
    /\ Finish(r, k, Plain(CASE Now.geth = "error" -> "Waiting to come up"
                            [] Now.geth = "zero"  -> "Waiting for sync"
                            [] OTHER              -> "Ready"))

-----------------------------------------------------------------------------
(* bitcoind and litecoind: their mode is in lnd.conf, which is read twice. *)
GetBackendNode(r, k) ==
    /\ At(r, k, "conf")
    /\ LET node == IF "lnd" \in Services THEN Now.conf.node ELSE "bad" IN
       CASE node = "bad"      -> Finish(r, k, Plain("Error"))
         [] node = "neutrino" -> Finish(r, k, Plain("Ready (light mode)"))
         [] OTHER             -> Goto(r, k, "rpchost")

GetRpcHost(r, k) ==
    /\ At(r, k, "rpchost")
    /\ LET host == Now.conf.rpchost IN
       CASE host = "own"   -> Goto(r, k, "container")
         [] host = "other" -> Finish(r, k, Plain("Ready (connected to external)"))
         [] OTHER          -> Finish(r, k, Plain("Error"))

(* A variant without the test for current > 0.                             *)
ChainStatusOfNothing(i) ==
    IF i.blocks = i.headers THEN Plain("Ready") ELSE Syncing(i.blocks, i.headers)

ChainStatus(i) ==
    IF i.blocks > 0 /\ i.blocks = i.headers THEN Plain("Ready")
    ELSE IF i.headers = 0 THEN Syncing(0, 0) ELSE Syncing(i.blocks, i.headers)

GetBlockchainInfo(r, k) ==
    /\ At(r, k, "getblockchaininfo")
    /\ LET i == Now.bitcoind IN
       CASE i.kind = "error"     -> Finish(r, k, Plain("Waiting to come up"))
         [] i.kind = "rpcerror"  -> Finish(r, k, Plain("Loading"))
         [] i.kind = "malformed" -> Panic(r, k)
         [] i.kind = "info"      -> Finish(r, k, ChainStatus(i))

-----------------------------------------------------------------------------
Observe(r, k) ==
    \/ Start(r, k) \/ Container(r, k)
    \/ XudGetInfo(r, k) \/ StatNodekey(r, k)
    \/ ConnextGetInfo(r, k) \/ IsHealthy(r, k)
    \/ ExecBtc(r, k) \/ ExecLtc(r, k)
    \/ LndGetInfo(r, k) \/ CurrentHeight(r, k)
    \/ ReadCurrent(r, k) \/ ReadTotal(r, k)
    \/ GetMode(r, k) \/ GetProvider(r, k) \/ CheckEthRpc(r, k)
    \/ EthSyncing(r, k) \/ EthBlockNumber(r, k)
    \/ GetBackendNode(r, k) \/ GetRpcHost(r, k) \/ GetBlockchainInfo(r, k)

Work(r, k) == Observe(r, k) \/ Collect(r, k) \/ ReplyOne(r, k)

Next == \/ Change
        \/ \E r \in Requests : \/ AskAll(r) \/ AskOne(r)
                               \/ \E k \in Services : Work(r, k)

(* Some goroutine that can run does; each has a few steps only, so that    *)
(* none of them needs a fairness of its own.  Nothing says that a backend  *)
(* answers.                                                                *)
Fairness == WF_vars(\E r \in Requests, k \in Services : Work(r, k))

Spec == Init /\ [][Next]_vars /\ Fairness

-----------------------------------------------------------------------------
(* Properties.                                                             *)

Ended(r) == req[r].pc \in {"answered", "replied"}

(* What was so at some time during a request.                              *)
Saw(r) == {hist[i] : i \in req[r].from..req[r].upto}

(* An answer to /v1/status comes when every goroutine of the request has   *)
(* ended, so that none is left blocked on the channel, and gives each      *)
(* service the status its own GetStatus returned in this request           *)
(* (Manager.GetStatus).                                                    *)
OwnStatus ==
    \A r \in Requests :
        req[r].pc = "answered" =>
            \A s \in Services :
                /\ task[r][s].at = "gone"
                /\ task[r][s].svc = s /\ req[r].result[s] = task[r][s].status
                /\ req[r].result[s] # NoStatus

AllSaidReady(i) == i.kind = "info" /\ {i.btc, i.ltc, i.connext} = {"Ready"}

(* Whether a "Ready" of this text is given only after a backend was asked. *)
(* It is not by the proxy, which is ready when it can answer; nor by arby  *)
(* and webui, which have only their containers; nor by bitcoind and        *)
(* litecoind where lnd.conf makes them external or light: that an external *)
(* one can be reached is left to be done (a TODO in their GetStatus).      *)
AsksBackend(s, text) ==
    \/ s \in {"opendexd", "connext", "boltz", "lnd", "geth"}
    \/ s = "bitcoind" /\ text = "Ready"

(* During a request that saw the worlds W, service s earned a "Ready" of   *)
(* this text from the backend it asks: for connext that may be opendexd,   *)
(* and for a geth that is not native it is the provider's endpoint, which  *)
(* has no container.  Each condition may have held at a time of its own:   *)
(* the provider of geth may have changed between being classified, for the *)
(* text, and called; geth may have said that it does not sync before it    *)
(* began, and have had a block when it was asked for its number; and the   *)
(* two keys of lnd.conf may never have stood there together.               *)
Earned(s, text, W) ==
    LET Was(P(_)) == \E w \in W : P(w)
        ran == Was(LAMBDA w : w.cont[s] = "running") IN
    CASE s = "opendexd" -> ran /\ Was(LAMBDA w : AllSaidReady(w.opendexd))
      [] s = "connext" ->
            /\ ran
            /\ \/ /\ "opendexd" \in Services
                  /\ Was(LAMBDA w : w.opendexd.kind = "info" /\ w.opendexd.connext = "Ready")
               \/ /\ "opendexd" \in Services => Was(LAMBDA w : w.opendexd.kind # "info")
                  /\ Was(LAMBDA w : w.connext)
      [] s = "boltz" -> /\ ran /\ Was(LAMBDA w : w.boltz.btc = "up")
                        /\ Was(LAMBDA w : w.boltz.ltc = "up")
      [] s = "lnd" -> /\ ran
                      /\ \E w, x \in W :
                            /\ w.lnd.kind = "info"
                            /\ w.lnd.synced \/ (x.newBlock > 0 /\ w.lnd.height <= x.newBlock)
      [] s = "geth" ->
            IF text = "Ready"
            THEN /\ ran /\ Was(LAMBDA w : w.provider = "native")
                 /\ Was(LAMBDA w : w.geth \in {"zero", "synced"})
                 /\ Was(LAMBDA w : w.geth \in {"syncing", "synced"})
            ELSE \E p \in Providers \ {"native"} :
                    /\ text = ReadyText(p) /\ Was(LAMBDA w : w.provider = p)
                    /\ \E x \in W : Was(LAMBDA w : w.eth[x.provider] = "up")
      [] OTHER ->
            /\ ran /\ Was(LAMBDA w : w.conf.node = "full")
            /\ Was(LAMBDA w : w.conf.rpchost = "own")
            /\ Was(LAMBDA w : w.bitcoind.blocks > 0
                              /\ w.bitcoind.blocks = w.bitcoind.headers)

(* What the other texts rest on: the container, the configuration alone,   *)
(* or, for the proxy, nothing.                                             *)
Unasked(s, text, W) ==
    CASE s = "proxy" -> TRUE
      [] s = "bitcoind" ->
            IF text = "Ready (light mode)" THEN \E w \in W : w.conf.node = "neutrino"
            ELSE /\ \E w \in W : w.conf.node = "full"
                 /\ \E w \in W : w.conf.rpchost = "other"
      [] OTHER -> \E w \in W : w.cont[s] = "running"

(* A "Ready" that is given after asking a backend is given only if, during *)
(* this very request, that backend said what the text stands for, and the  *)
(* service's container, where it has one, ran: no reading of an earlier    *)
(* request or of another service counts.  Of the other texts, for which    *)
(* AsksBackend says that nobody is asked, this says only that what they do *)
(* look at, a container or a configuration, was so.                        *)
ReadyIsEarned ==
    \A r \in Requests, s \in Services :
        LET text == req[r].result[s].text IN
        Ended(r) /\ text \in ReadyTexts =>
            IF AsksBackend(s, text) THEN Earned(s, text, Saw(r)) ELSE Unasked(s, text, Saw(r))

(* The text "Synced 100%. Waiting for wallet creation." of lnd says that   *)
(* the log watcher has come as far as there is to go, and somewhere.  Both *)
(* numbers are of this request, but GetNeutrinoStatus reads them one after *)
(* the other: they need not have stood together.                           *)
SyncedIsSynced ==
    \A r \in Requests, s \in Services :
        (Ended(r) /\ req[r].result[s].text = Synced100) =>
            \E w, x \in Saw(r) : w.progress.current > 0
                                /\ w.progress.current >= x.progress.total

(* Only a backend whose answer lacks a part GetStatus relies on brings the *)
(* process down, and only in a request for all services; a request for one *)
(* service never does.                                                     *)
CrashExplained ==
    alive \/ \E r \in Requests :
                /\ req[r].pc = "all"
                /\ \E i \in req[r].from..Len(hist) :
                      \/ "opendexd" \in Services /\ hist[i].opendexd.kind = "info"
                         /\ Lacks(hist[i].opendexd)
                      \/ "bitcoind" \in Services /\ hist[i].bitcoind.kind = "malformed"

(* A call without a deadline that is not answered.                         *)
Hangs(r, k) ==
    LET t == task[r][k] IN
    \/ t.at = "btc" /\ Now.boltz.btc = "hang"
    \/ t.at = "ltc" /\ Now.boltz.ltc = "hang"
    \/ t.at = "check" /\ Now.eth[t.seen.provider] = "hang"
    \/ t.at \in {"eth_syncing", "eth_blockNumber"} /\ Now.geth = "hang"

(* Every request is answered, unless the process dies or a call without a  *)
(* deadline (a command in boltz's container, a JSON-RPC call of geth) is   *)
(* not answered: in a request for all services one such call holds back    *)
(* the status of all of them.                                              *)
Answered ==
    \A r \in Requests :
        req[r].pc \in {"all", "one"} ~>
            (req[r].pc \notin {"all", "one"} \/ ~alive \/ \E k \in Services : Hangs(r, k))
=============================================================================
