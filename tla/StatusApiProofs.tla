-------------------------- MODULE StatusApiProofs --------------------------
(***************************************************************************)
(* Theorems about StatusApi, for every configuration of services, every    *)
(* set of requests and every bound.                                        *)
(***************************************************************************)
EXTENDS StatusApi, FiniteSetTheorems, TLAPS

Middle  == Labels \ {"none", "send", "gone"}
TaskRec == [at : Labels, svc : Services \cup {"none"}, setup : BOOLEAN,
            seen : Seen, status : Status]

(* A step of GetStatus that does not panic.                                *)
Moves(r, k, t) ==
    /\ alive /\ task[r][k].at \in Middle
    /\ t \in TaskRec /\ t.svc = task[r][k].svc /\ t.at \notin {"none", "gone"}
    /\ t.at = "send" => t.status.text # ""
    /\ task' = [task EXCEPT ![r][k] = t]
    /\ UNCHANGED <<hist, req, alive>>

LEMMA TaskType ==
    ASSUME TypeOK, NEW r \in Requests, NEW k \in Services
    PROVE  task[r][k] \in TaskRec
BY DEF TypeOK, TaskRec

(* What a status without a list or a count has in their place.             *)
LEMMA NothingElse ==
    {} \in SUBSET {"lndbtc", "lndltc", "connext"} /\ <<0, 0>> \in Height \X Height
<1>1. {} \in SUBSET {"lndbtc", "lndltc", "connext"}
  OBVIOUS
<1>2. <<0, 0>> \in Height \X Height
  BY StatusBounds DEF Height
<1> QED BY <1>1, <1>2

LEMMA PlainType ==
    ASSUME NEW x \in Texts \ {""}
    PROVE  Plain(x) \in Status /\ Plain(x).text # ""
BY NothingElse DEF Plain, Status

LEMMA NoStatusType == NoStatus \in Status
BY NothingElse DEF NoStatus, Plain, Status, Texts

LEMMA SyncingType ==
    ASSUME NEW c \in Height, NEW t \in Height
    PROVE  Syncing(c, t) \in Status /\ Syncing(c, t).text # ""
BY DEF Syncing, Status, Texts

LEMMA Seen0Type == Seen0 \in Seen
BY StatusBounds DEF Seen0, Seen, Height

LEMMA NowType == ASSUME TypeOK PROVE Now \in World
BY StatusBounds DEF TypeOK, Now

(* The three ways a step goes on.                                          *)
LEMMA FinishMoves ==
    ASSUME TypeOK, NEW r \in Requests, NEW k \in Services, alive,
           task[r][k].at \in Middle,
           NEW st \in Status, st.text # "", Finish(r, k, st)
    PROVE  \E t : Moves(r, k, t)
<1> DEFINE t == [task[r][k] EXCEPT !.at = "send", !.status = st, !.seen = Seen0]
<1>1. t \in TaskRec /\ t.svc = task[r][k].svc /\ t.at = "send" /\ t.status = st
  BY TaskType, Seen0Type DEF TaskRec, Labels
<1>2. task' = [task EXCEPT ![r][k] = t] /\ UNCHANGED <<hist, req, alive>>
  BY DEF Finish
<1> HIDE DEF t
<1> QED BY <1>1, <1>2 DEF Moves

LEMMA GotoMoves ==
    ASSUME TypeOK, NEW r \in Requests, NEW k \in Services, alive,
           task[r][k].at \in Middle, NEW label \in Middle, Goto(r, k, label)
    PROVE  \E t : Moves(r, k, t)
<1> DEFINE t == [task[r][k] EXCEPT !.at = label]
<1>1. t \in TaskRec /\ t.svc = task[r][k].svc /\ t.at = label
  BY TaskType DEF TaskRec, Middle
<1>2. task' = [task EXCEPT ![r][k] = t] /\ UNCHANGED <<hist, req, alive>>
  BY DEF Goto
<1> HIDE DEF t
<1> QED BY <1>1, <1>2 DEF Moves, Middle

LEMMA GotoWithMoves ==
    ASSUME TypeOK, NEW r \in Requests, NEW k \in Services, alive,
           task[r][k].at \in Middle, NEW label \in Middle, NEW seen \in Seen,
           GotoWith(r, k, label, seen)
    PROVE  \E t : Moves(r, k, t)
<1> DEFINE t == [task[r][k] EXCEPT !.at = label, !.seen = seen]
<1>1. t \in TaskRec /\ t.svc = task[r][k].svc /\ t.at = label
  BY TaskType DEF TaskRec, Middle
<1>2. task' = [task EXCEPT ![r][k] = t] /\ UNCHANGED <<hist, req, alive>>
  BY DEF GotoWith
<1> HIDE DEF t
<1> QED BY <1>1, <1>2 DEF Moves, Middle

-----------------------------------------------------------------------------
(* The statuses the steps compute.                                         *)
LEMMA SyncingTextType ==
    ASSUME NEW c \in Height, NEW t \in Height
    PROVE  SyncingText(c, t) \in Status /\ SyncingText(c, t).text # ""
BY PlainType, SyncingType DEF SyncingText, Synced100, Texts

LEMMA LndVerdictType ==
    ASSUME NEW synced \in BOOLEAN, NEW t \in Height, NEW c \in Height
    PROVE  LndVerdict(synced, t, c) \in Status /\ LndVerdict(synced, t, c).text # ""
BY PlainType, SyncingTextType, StatusBounds DEF LndVerdict, Texts, ReadyTexts, Height

LEMMA XudStatusType ==
    ASSUME NEW i \in XudInfo
    PROVE  XudStatus(i) \in Status /\ XudStatus(i).text # ""
<1> DEFINE said == [lndbtc |-> i.btc, lndltc |-> i.ltc, connext |-> i.connext]
           late == {p \in DOMAIN said : said[p] # "Ready"}
<1>1. late \in SUBSET {"lndbtc", "lndltc", "connext"}
  OBVIOUS
<1>2. WaitingFor(late) \in Status /\ WaitingFor(late).text # ""
  BY <1>1, StatusBounds DEF WaitingFor, Status, Height, Texts
<1>3. /\ Plain("Ready") \in Status /\ Plain("Ready").text # ""
      /\ Plain("Waiting for channels") \in Status
      /\ Plain("Waiting for channels").text # ""
  BY PlainType DEF Texts, ReadyTexts
<1>4. XudStatus(i) \in {Plain("Ready"), Plain("Waiting for channels"), WaitingFor(late)}
  BY Zenon DEF XudStatus
<1> HIDE DEF late
<1> QED BY <1>2, <1>3, <1>4

LEMMA ChainStatusType ==
    ASSUME NEW i \in Chain
    PROVE  ChainStatus(i) \in Status /\ ChainStatus(i).text # ""
BY PlainType, SyncingType, StatusBounds DEF ChainStatus, Chain, Height, Texts, ReadyTexts

LEMMA NotRunningType ==
    ASSUME NEW s, NEW c
    PROVE  NotRunning(s, c) \in Status /\ NotRunning(s, c).text # ""
<1>1. NotRunning(s, c) \in {Plain("Container exited"), Plain("Disabled"),
                            Plain("Container missing")}
  BY Zenon DEF NotRunning
<1> QED BY <1>1, PlainType DEF Texts

-----------------------------------------------------------------------------
(* Every step of GetStatus goes on, ends with a status, or panics.         *)
Steps(r, k) ==
    \/ \E t : Moves(r, k, t)
    \/ alive /\ task[r][k].at \in Middle /\ Panic(r, k)

LEMMA StartSteps ==
    ASSUME TypeOK, NEW r \in Requests, NEW k \in Services, Start(r, k)
    PROVE  Steps(r, k)
<1> DEFINE s == task[r][k].svc
           t == [task[r][k] EXCEPT !.at = First(s), !.setup = Now.setup,
                    !.status = IF s = "proxy" THEN Plain("Ready") ELSE NoStatus]
<1>1. /\ First(s) \in {"mode", "conf", "send", "container"}
      /\ First(s) = "send" => s = "proxy"
  BY DEF First
<1>2. Plain("Ready") \in Status /\ Plain("Ready").text # ""
  BY PlainType DEF Texts, ReadyTexts
<1>3. Now.setup \in BOOLEAN
  BY NowType DEF World
<1>4. t \in TaskRec /\ t.svc = task[r][k].svc /\ t.at = First(s)
  BY <1>1, <1>2, <1>3, TaskType, NoStatusType DEF TaskRec, Labels
<1>5. t.at = "send" => t.status.text # ""
  <2>1. s = "proxy" => t.status = Plain("Ready")
    BY TaskType DEF TaskRec
  <2> QED BY <1>1, <1>2, <1>4, <2>1
<1>6. task' = [task EXCEPT ![r][k] = t] /\ UNCHANGED <<hist, req, alive>>
  BY DEF Start
<1>7. alive /\ task[r][k].at \in Middle
  BY DEF Start, At, Middle, Labels
<1> HIDE DEF t
<1> QED BY <1>1, <1>4, <1>5, <1>6, <1>7 DEF Moves, Steps

LEMMA ContainerSteps ==
    ASSUME TypeOK, NEW r \in Requests, NEW k \in Services, Container(r, k)
    PROVE  Steps(r, k)
<1> DEFINE s == task[r][k].svc
           c == Now.cont[s]
<1>1. alive /\ task[r][k].at \in Middle
  BY DEF Container, At, Middle, Labels
<1>2. CASE Finish(r, k, Plain("Ready"))
  <2>1. Plain("Ready") \in Status /\ Plain("Ready").text # ""
    BY PlainType DEF Texts, ReadyTexts
  <2> QED BY <1>1, <1>2, <2>1, FinishMoves DEF Steps
<1>3. CASE Goto(r, k, AfterContainer(s))
  <2>1. AfterContainer(s) \in Middle
    BY DEF AfterContainer, Middle, Labels
  <2> QED BY <1>1, <1>3, <2>1, GotoMoves DEF Steps
<1>4. CASE Finish(r, k, Plain("Waiting for sync"))
  <2>1. Plain("Waiting for sync") \in Status /\ Plain("Waiting for sync").text # ""
    BY PlainType DEF Texts
  <2> QED BY <1>1, <1>4, <2>1, FinishMoves DEF Steps
<1>5. CASE Finish(r, k, NotRunning(s, c))
  BY <1>1, <1>5, NotRunningType, FinishMoves DEF Steps
<1> QED BY <1>2, <1>3, <1>4, <1>5 DEF Container

(* What finishing with a plain text takes.                                 *)
LEMMA SaysSteps ==
    ASSUME TypeOK, NEW r \in Requests, NEW k \in Services, alive,
           task[r][k].at \in Middle, NEW x \in Texts \ {""}, Finish(r, k, Plain(x))
    PROVE  Steps(r, k)
BY PlainType, FinishMoves DEF Steps

LEMMA GoesSteps ==
    ASSUME TypeOK, NEW r \in Requests, NEW k \in Services, alive,
           task[r][k].at \in Middle, NEW label \in Middle, Goto(r, k, label)
    PROVE  Steps(r, k)
BY GotoMoves DEF Steps

LEMMA XudGetInfoSteps ==
    ASSUME TypeOK, NEW r \in Requests, NEW k \in Services, XudGetInfo(r, k)
    PROVE  Steps(r, k)
<1>1. alive /\ task[r][k].at \in Middle
  BY DEF XudGetInfo, At, Middle, Labels
<1>2. Now.opendexd \in XudInfo
  BY NowType DEF World
<1>3. \/ Finish(r, k, Plain("Error")) \/ Finish(r, k, Plain("Starting..."))
      \/ Goto(r, k, "nodekey") \/ Panic(r, k) \/ Finish(r, k, XudStatus(Now.opendexd))
  BY <1>2 DEF XudGetInfo, XudInfo
<1>4. "Error" \in Texts \ {""} /\ "Starting..." \in Texts \ {""} /\ "nodekey" \in Middle
  BY DEF Texts, Middle, Labels
<1>5. CASE Finish(r, k, XudStatus(Now.opendexd))
  BY <1>1, <1>2, <1>5, XudStatusType, FinishMoves DEF Steps
<1>6. CASE Panic(r, k)
  BY <1>1, <1>6 DEF Steps
<1> QED BY <1>1, <1>3, <1>4, <1>5, <1>6, SaysSteps, GoesSteps

LEMMA ConnextGetInfoSteps ==
    ASSUME TypeOK, NEW r \in Requests, NEW k \in Services, ConnextGetInfo(r, k)
    PROVE  Steps(r, k)
<1>1. alive /\ task[r][k].at \in Middle
  BY DEF ConnextGetInfo, At, Middle, Labels
<1>2. Now.opendexd.connext \in Texts \ {""}
  BY NowType DEF World, XudInfo, Said, Texts
<1>3. "health" \in Middle
  BY DEF Middle, Labels
<1>4. \/ Goto(r, k, "health") \/ Panic(r, k)
      \/ Finish(r, k, Plain(Now.opendexd.connext))
  BY DEF ConnextGetInfo
<1>5. CASE Panic(r, k)
  BY <1>1, <1>5 DEF Steps
<1> QED BY <1>1, <1>2, <1>3, <1>4, <1>5, SaysSteps, GoesSteps

LEMMA StatNodekeySteps ==
    ASSUME TypeOK, NEW r \in Requests, NEW k \in Services, StatNodekey(r, k)
    PROVE  Steps(r, k)
<1>1. alive /\ task[r][k].at \in Middle
  BY DEF StatNodekey, At, Middle, Labels
<1>2. (IF Now.nodekey THEN "Wallet locked" ELSE "Wallet missing") \in Texts \ {""}
  BY DEF Texts
<1> QED BY <1>1, <1>2, SaysSteps DEF StatNodekey

LEMMA IsHealthySteps ==
    ASSUME TypeOK, NEW r \in Requests, NEW k \in Services, IsHealthy(r, k)
    PROVE  Steps(r, k)
<1>1. alive /\ task[r][k].at \in Middle
  BY DEF IsHealthy, At, Middle, Labels
<1>2. (IF Now.connext THEN "Ready" ELSE "Starting...") \in Texts \ {""}
  BY DEF Texts, ReadyTexts
<1> QED BY <1>1, <1>2, SaysSteps DEF IsHealthy

LEMMA ExecBtcSteps ==
    ASSUME TypeOK, NEW r \in Requests, NEW k \in Services, ExecBtc(r, k)
    PROVE  Steps(r, k)
<1>1. alive /\ task[r][k].at \in Middle /\ "ltc" \in Middle
  BY DEF ExecBtc, At, Middle, Labels
<1>2. Now.boltz.btc \in {"up", "down"}
  BY NowType DEF ExecBtc, World, Call
<1>3. [Seen0 EXCEPT !.btc = Now.boltz.btc] \in Seen
  BY <1>2, Seen0Type DEF Seen
<1> QED BY <1>1, <1>3, GotoWithMoves DEF ExecBtc, Steps

LEMMA ExecLtcSteps ==
    ASSUME TypeOK, NEW r \in Requests, NEW k \in Services, ExecLtc(r, k)
    PROVE  Steps(r, k)
<1>1. alive /\ task[r][k].at \in Middle
  BY DEF ExecLtc, At, Middle, Labels
<1>2. "Ready" \in Texts \ {""} /\ "btc, ltc up or down" \in Texts \ {""}
  BY DEF Texts, ReadyTexts
<1>3. \/ Finish(r, k, Plain("Ready")) \/ Finish(r, k, Plain("btc, ltc up or down"))
  BY DEF ExecLtc
<1> QED BY <1>1, <1>2, <1>3, SaysSteps

LEMMA LndGetInfoSteps ==
    ASSUME TypeOK, NEW r \in Requests, NEW k \in Services, LndGetInfo(r, k)
    PROVE  Steps(r, k)
<1> DEFINE seen == [Seen0 EXCEPT !.synced = Now.lnd.synced, !.h = Now.lnd.height]
<1>1. alive /\ task[r][k].at \in Middle /\ {"height", "current"} \subseteq Middle
  BY DEF LndGetInfo, At, Middle, Labels
<1>2. Now.lnd.synced \in BOOLEAN /\ Now.lnd.height \in Height
  BY NowType DEF World, LndInfo
<1>3. seen \in Seen
  BY <1>2, Seen0Type DEF Seen
<1>4. "Error" \in Texts \ {""} /\ "Wallet locked" \in Texts \ {""}
  BY DEF Texts
<1>5. \/ Finish(r, k, Plain("Error")) \/ Finish(r, k, Plain("Wallet locked"))
      \/ GotoWith(r, k, "height", seen) \/ Goto(r, k, "current")
  BY Zenon DEF LndGetInfo
<1>6. CASE GotoWith(r, k, "height", seen)
  BY <1>1, <1>3, <1>6, GotoWithMoves DEF Steps
<1> HIDE DEF seen
<1> QED BY <1>1, <1>4, <1>5, <1>6, SaysSteps, GoesSteps

LEMMA CurrentHeightSteps ==
    ASSUME TypeOK, NEW r \in Requests, NEW k \in Services, CurrentHeight(r, k)
    PROVE  Steps(r, k)
<1>1. alive /\ task[r][k].at \in Middle
  BY DEF CurrentHeight, At, Middle, Labels
<1>2. PICK h \in {0, Now.newBlock} :
         Finish(r, k, LndVerdict(task[r][k].seen.synced, task[r][k].seen.h, h))
  BY DEF CurrentHeight
<1>3. h \in Height
  BY NowType, StatusBounds DEF World, Height
<1>4. task[r][k].seen.synced \in BOOLEAN /\ task[r][k].seen.h \in Height
  BY TaskType DEF TaskRec, Seen
<1> QED BY <1>1, <1>2, <1>3, <1>4, LndVerdictType, FinishMoves DEF Steps

LEMMA ReadCurrentSteps ==
    ASSUME TypeOK, NEW r \in Requests, NEW k \in Services, ReadCurrent(r, k)
    PROVE  Steps(r, k)
<1>1. alive /\ task[r][k].at \in Middle /\ "total" \in Middle
  BY DEF ReadCurrent, At, Middle, Labels
<1>2. Now.progress.current \in Height
  BY NowType DEF World
<1>3. [Seen0 EXCEPT !.h = Now.progress.current] \in Seen
  BY <1>2, Seen0Type DEF Seen
<1> QED BY <1>1, <1>3, GotoWithMoves DEF ReadCurrent, Steps

LEMMA ReadTotalSteps ==
    ASSUME TypeOK, NEW r \in Requests, NEW k \in Services, ReadTotal(r, k)
    PROVE  Steps(r, k)
<1>1. alive /\ task[r][k].at \in Middle
  BY DEF ReadTotal, At, Middle, Labels
<1>2. Now.progress.total \in Height /\ task[r][k].seen.h \in Height
  BY NowType, TaskType DEF World, TaskRec, Seen
<1>3. Finish(r, k, SyncingText(task[r][k].seen.h, Now.progress.total))
  BY DEF ReadTotal
<1> QED BY <1>1, <1>2, <1>3, SyncingTextType, FinishMoves DEF Steps

LEMMA GetModeSteps ==
    ASSUME TypeOK, NEW r \in Requests, NEW k \in Services, GetMode(r, k)
    PROVE  Steps(r, k)
<1> DEFINE seen == [Seen0 EXCEPT !.mode = Provider]
<1>1. alive /\ task[r][k].at \in Middle /\ {"container", "provider"} \subseteq Middle
  BY DEF GetMode, At, Middle, Labels
<1>2. Provider \in Providers \cup {"unset"}
  BY NowType DEF World, Provider
<1>3. seen \in Seen
  BY <1>2, Seen0Type DEF Seen
<1>4. "Error" \in Texts \ {""}
  BY DEF Texts
<1>5. \/ Finish(r, k, Plain("Error")) \/ Goto(r, k, "container")
      \/ GotoWith(r, k, "provider", seen)
  BY Zenon DEF GetMode
<1>6. CASE GotoWith(r, k, "provider", seen)
  BY <1>1, <1>3, <1>6, GotoWithMoves DEF Steps
<1> HIDE DEF seen
<1> QED BY <1>1, <1>4, <1>5, <1>6, SaysSteps, GoesSteps

LEMMA GetProviderSteps ==
    ASSUME TypeOK, NEW r \in Requests, NEW k \in Services, GetProvider(r, k)
    PROVE  Steps(r, k)
<1> DEFINE seen == [task[r][k].seen EXCEPT !.provider = Provider]
<1>1. alive /\ task[r][k].at \in Middle /\ "check" \in Middle
  BY DEF GetProvider, At, Middle, Labels
<1>2. Provider \in Providers \cup {"unset"}
  BY NowType DEF World, Provider
<1>3. seen \in Seen
  BY <1>2, TaskType DEF TaskRec, Seen
<1>4. "No provider" \in Texts \ {""}
  BY DEF Texts
<1>5. Finish(r, k, Plain("No provider")) \/ GotoWith(r, k, "check", seen)
  BY DEF GetProvider
<1>6. CASE GotoWith(r, k, "check", seen)
  BY <1>1, <1>3, <1>6, GotoWithMoves DEF Steps
<1> HIDE DEF seen
<1> QED BY <1>1, <1>4, <1>5, <1>6, SaysSteps

LEMMA CheckEthRpcSteps ==
    ASSUME TypeOK, NEW r \in Requests, NEW k \in Services, CheckEthRpc(r, k)
    PROVE  Steps(r, k)
<1>1. alive /\ task[r][k].at \in Middle
  BY DEF CheckEthRpc, At, Middle, Labels
<1>2. ReadyText(task[r][k].seen.mode) \in ReadyTexts
  BY DEF ReadyText, ReadyTexts
<1>3. ReadyTexts \subseteq Texts \ {""} /\ "Unavailable" \in Texts \ {""}
  BY DEF Texts, ReadyTexts
<1>4. \/ Finish(r, k, Plain(ReadyText(task[r][k].seen.mode)))
      \/ Finish(r, k, Plain("Unavailable"))
  BY DEF CheckEthRpc
<1> QED BY <1>1, <1>2, <1>3, <1>4, SaysSteps

LEMMA EthSyncingSteps ==
    ASSUME TypeOK, NEW r \in Requests, NEW k \in Services, EthSyncing(r, k)
    PROVE  Steps(r, k)
<1>1. alive /\ task[r][k].at \in Middle /\ "eth_blockNumber" \in Middle
  BY DEF EthSyncing, At, Middle, Labels
<1>2. "Waiting to come up" \in Texts \ {""} /\ "Syncing" \in Texts \ {""}
  BY DEF Texts
<1>3. \/ Finish(r, k, Plain("Waiting to come up")) \/ Finish(r, k, Plain("Syncing"))
      \/ Goto(r, k, "eth_blockNumber")
  BY Zenon DEF EthSyncing
<1> QED BY <1>1, <1>2, <1>3, SaysSteps, GoesSteps

LEMMA EthBlockNumberSteps ==
    ASSUME TypeOK, NEW r \in Requests, NEW k \in Services, EthBlockNumber(r, k)
    PROVE  Steps(r, k)
<1>1. alive /\ task[r][k].at \in Middle
  BY DEF EthBlockNumber, At, Middle, Labels
<1>2. "Waiting to come up" \in Texts \ {""} /\ "Waiting for sync" \in Texts \ {""}
      /\ "Ready" \in Texts \ {""}
  BY DEF Texts, ReadyTexts
<1>3. \/ Finish(r, k, Plain("Waiting to come up"))
      \/ Finish(r, k, Plain("Waiting for sync")) \/ Finish(r, k, Plain("Ready"))
  BY DEF EthBlockNumber
<1> QED BY <1>1, <1>2, <1>3, SaysSteps

LEMMA GetBackendNodeSteps ==
    ASSUME TypeOK, NEW r \in Requests, NEW k \in Services, GetBackendNode(r, k)
    PROVE  Steps(r, k)
<1>1. alive /\ task[r][k].at \in Middle /\ "rpchost" \in Middle
  BY DEF GetBackendNode, At, Middle, Labels
<1>2. "Error" \in Texts \ {""} /\ "Ready (light mode)" \in Texts \ {""}
  BY DEF Texts, ReadyTexts
<1>3. \/ Finish(r, k, Plain("Error")) \/ Finish(r, k, Plain("Ready (light mode)"))
      \/ Goto(r, k, "rpchost")
  BY Zenon DEF GetBackendNode
<1> QED BY <1>1, <1>2, <1>3, SaysSteps, GoesSteps

LEMMA GetRpcHostSteps ==
    ASSUME TypeOK, NEW r \in Requests, NEW k \in Services, GetRpcHost(r, k)
    PROVE  Steps(r, k)
<1>1. alive /\ task[r][k].at \in Middle /\ "container" \in Middle
  BY DEF GetRpcHost, At, Middle, Labels
<1>2. /\ "Error" \in Texts \ {""}
      /\ "Ready (connected to external)" \in Texts \ {""}
  BY DEF Texts, ReadyTexts
<1>3. \/ Goto(r, k, "container") \/ Finish(r, k, Plain("Error"))
      \/ Finish(r, k, Plain("Ready (connected to external)"))
  BY Zenon DEF GetRpcHost
<1> QED BY <1>1, <1>2, <1>3, SaysSteps, GoesSteps

LEMMA GetBlockchainInfoSteps ==
    ASSUME TypeOK, NEW r \in Requests, NEW k \in Services, GetBlockchainInfo(r, k)
    PROVE  Steps(r, k)
<1>1. alive /\ task[r][k].at \in Middle
  BY DEF GetBlockchainInfo, At, Middle, Labels
<1>2. Now.bitcoind \in Chain
  BY NowType DEF World
<1>3. "Waiting to come up" \in Texts \ {""} /\ "Loading" \in Texts \ {""}
  BY DEF Texts
<1>4. \/ Finish(r, k, Plain("Waiting to come up")) \/ Finish(r, k, Plain("Loading"))
      \/ Panic(r, k) \/ Finish(r, k, ChainStatus(Now.bitcoind))
  BY <1>2 DEF GetBlockchainInfo, Chain
<1>5. CASE Finish(r, k, ChainStatus(Now.bitcoind))
  BY <1>1, <1>2, <1>5, ChainStatusType, FinishMoves DEF Steps
<1>6. CASE Panic(r, k)
  BY <1>1, <1>6 DEF Steps
<1> QED BY <1>1, <1>3, <1>4, <1>5, <1>6, SaysSteps

LEMMA ObserveSteps ==
    ASSUME TypeOK, NEW r \in Requests, NEW k \in Services, Observe(r, k)
    PROVE  Steps(r, k)
BY StartSteps, ContainerSteps, XudGetInfoSteps, StatNodekeySteps, ConnextGetInfoSteps,
   IsHealthySteps, ExecBtcSteps, ExecLtcSteps, LndGetInfoSteps, CurrentHeightSteps,
   ReadCurrentSteps, ReadTotalSteps, GetModeSteps, GetProviderSteps, CheckEthRpcSteps,
   EthSyncingSteps, EthBlockNumberSteps, GetBackendNodeSteps, GetRpcHostSteps,
   GetBlockchainInfoSteps, Zenon
   DEF Observe

-----------------------------------------------------------------------------
(* Types.                                                                  *)
LEMMA ChangedType ==
    ASSUME NEW v \in World
    PROVE  Changed(v) \subseteq World
<1>1. {[v EXCEPT !.cont[s] = c] : s \in Services, c \in {"none", "exited", "running"}}
         \subseteq World
  BY DEF World
<1>2. {[v EXCEPT !.setup = b] : b \in BOOLEAN} \subseteq World
  BY DEF World
<1>3. If("opendexd",
          {[v EXCEPT !.opendexd.kind = k] :
                k \in {"error", "locked", "starting", "info"}}
     \cup {[v EXCEPT !.opendexd.btc = x] : x \in Said}
     \cup {[v EXCEPT !.opendexd.ltc = x] : x \in Said}
     \cup {[v EXCEPT !.opendexd.connext = x] : x \in Said}
     \cup {[v EXCEPT !.nodekey = b] : b \in BOOLEAN}) \subseteq World
  BY DEF If, World, XudInfo
<1>4. If("connext",
          {[v EXCEPT !.connext = b] : b \in BOOLEAN}) \subseteq World
  BY DEF If, World
<1>5. If("boltz",
          {[v EXCEPT !.boltz.btc = x] : x \in Call}
     \cup {[v EXCEPT !.boltz.ltc = x] : x \in Call}) \subseteq World
  BY DEF If, World
<1>6. If("lnd",
          {[v EXCEPT !.lnd.kind = k] :
                k \in {"error", "encrypted", "nofile", "noclient",
                       "unimplemented", "info"}}
     \cup {[v EXCEPT !.lnd.synced = b] : b \in BOOLEAN}
     \cup {[v EXCEPT !.lnd.height = h] : h \in Height}
     \cup {[v EXCEPT !.newBlock = h] : h \in Height}
     \cup {[v EXCEPT !.progress.current = h] : h \in Height}
     \cup {[v EXCEPT !.progress.total = h] : h \in Height}) \subseteq World
  BY DEF If, World, LndInfo
<1>7. If("geth",
          {[v EXCEPT !.provider = p] : p \in Providers \cup {"unset"}}
     \cup {[v EXCEPT !.eth[p] = x] : p \in Providers, x \in Call}
     \cup {[v EXCEPT !.geth = x] :
                x \in {"error", "syncing", "zero", "synced", "hang"}}) \subseteq World
  BY DEF If, World
<1>8. If("bitcoind",
          {[v EXCEPT !.conf = c] : c \in Conf}
     \cup {[v EXCEPT !.bitcoind.kind = k] :
                k \in {"error", "rpcerror", "malformed", "info"}}
     \cup {[v EXCEPT !.bitcoind.blocks = h] : h \in Height}
     \cup {[v EXCEPT !.bitcoind.headers = h] : h \in Height}) \subseteq World
  BY DEF If, World, Chain
<1> QED BY <1>1, <1>2, <1>3, <1>4, <1>5, <1>6, <1>7, <1>8 DEF Changed

LEMMA HeightType == 0 \in Height /\ 1 \in Height /\ MaxHeight \in Height
BY StatusBounds DEF Height

LEMMA World0Type == World0 \in World
<1>1. [kind |-> "info", btc |-> "Ready", ltc |-> "Ready", connext |-> "Ready"] \in XudInfo
  BY DEF XudInfo, Said
<1>2. [kind |-> "noclient", synced |-> TRUE, height |-> MaxHeight] \in LndInfo
  BY HeightType DEF LndInfo
<1>3. [kind |-> "info", blocks |-> MaxHeight, headers |-> MaxHeight] \in Chain
  BY HeightType DEF Chain
<1>4. [btc |-> "up", ltc |-> "up"] \in [btc : Call, ltc : Call]
  BY DEF Call
<1>5. [current |-> 1, total |-> MaxHeight] \in [current : Height, total : Height]
  BY HeightType
<1>6. [p \in Providers |-> "up"] \in [Providers -> Call]
  BY DEF Call
<1>7. "native" \in Providers \cup {"unset"}
  BY DEF Providers
<1>8. [node |-> "full", rpchost |-> "own"] \in Conf
  BY DEF Conf
<1> QED BY <1>1, <1>2, <1>3, <1>4, <1>5, <1>6, <1>7, <1>8, HeightType DEF World0, World

ReqRec(h) == [pc : {"idle", "all", "one", "answered", "replied", "failed", "notfound"},
              from : 0..Len(h), upto : 0..Len(h), n : Nat,
              result : [Services -> Status]]

LEMMA TypeFacts ==
    TypeOK <=> /\ hist \in Seq(World) /\ Len(hist) \in 1..(MaxChanges + 1)
               /\ req \in [Requests -> ReqRec(hist)]
               /\ task \in [Requests -> [Services -> TaskRec]]
               /\ alive \in BOOLEAN
BY DEF TypeOK, ReqRec, TaskRec

LEMMA NoTaskType == NoTask \in TaskRec
BY Seen0Type, NoStatusType DEF NoTask, TaskRec, Labels

LEMMA IdleType == ASSUME TypeOK PROVE Idle \in ReqRec(hist)
<1>1. 0 \in 0..Len(hist) /\ [s \in Services |-> NoStatus] \in [Services -> Status]
  BY NoStatusType, TypeFacts
<1> QED BY <1>1 DEF Idle, ReqRec

LEMMA TypeInit == Init => TypeOK
<1> SUFFICES ASSUME Init PROVE TypeOK
  OBVIOUS
<1>1. hist \in Seq(World) /\ Len(hist) = 1
  BY World0Type DEF Init
<1>2. Idle \in ReqRec(hist)
  BY <1>1, NoStatusType DEF Idle, ReqRec
<1>3. 1 \in 1..(MaxChanges + 1)
  BY StatusBounds
<1> QED BY <1>1, <1>2, <1>3, NoTaskType, TypeFacts DEF Init

LEMMA TaskOf == ASSUME NEW s \in Services PROVE Task(s) \in TaskRec
BY NoTaskType DEF Task, TaskRec, Labels

LEMMA AskedType ==
    ASSUME TypeOK, NEW r \in Requests, NEW kind \in {"all", "one", "notfound"},
           Asked(r, kind)
    PROVE  req' \in [Requests -> ReqRec(hist)]
<1>1. Len(hist) \in 0..Len(hist)
  BY TypeFacts
<1>2. [Idle EXCEPT !.pc = kind, !.from = Len(hist)] \in ReqRec(hist)
  BY <1>1, IdleType DEF ReqRec
<1> QED BY <1>2, TypeFacts DEF Asked

(* What Collect and ReplyOne do to a request.                              *)
LEMMA KeptType ==
    ASSUME TypeOK, NEW r \in Requests, NEW k \in Services, NEW n \in Nat,
           NEW pc \in {"all", "answered", "replied"},
           req' = [req EXCEPT ![r] =
                     [@ EXCEPT !.n = n, !.upto = Len(hist), !.pc = pc,
                               !.result[task[r][k].svc] = task[r][k].status]]
    PROVE  req' \in [Requests -> ReqRec(hist)]
<1>1. Len(hist) \in 0..Len(hist) /\ req[r] \in ReqRec(hist)
  BY TypeFacts
<1>2. task[r][k].status \in Status
  BY TaskType DEF TaskRec
<1>3. [req[r] EXCEPT !.n = n, !.upto = Len(hist), !.pc = pc,
                     !.result[task[r][k].svc] = task[r][k].status] \in ReqRec(hist)
  BY <1>1, <1>2 DEF ReqRec
<1> QED BY <1>3, TypeFacts

LEMMA TypeStep == TypeOK /\ [Next]_vars => TypeOK'
<1> SUFFICES ASSUME TypeOK, [Next]_vars PROVE TypeOK'
  OBVIOUS
<1> USE TypeFacts
<1>1. ASSUME UNCHANGED hist,
             req' \in [Requests -> ReqRec(hist)],
             task' \in [Requests -> [Services -> TaskRec]],
             alive' \in BOOLEAN
      PROVE  TypeOK'
  BY <1>1 DEF TypeOK, ReqRec, TaskRec
<1>2. ASSUME NEW r \in Requests, NEW k \in Services, NEW label \in Labels,
             task' = [task EXCEPT ![r][k].at = label]
      PROVE  task' \in [Requests -> [Services -> TaskRec]]
  <2>1. [task[r][k] EXCEPT !.at = label] \in TaskRec
    BY TaskType DEF TaskRec
  <2> QED BY <1>2, <2>1
<1>3. "gone" \in Labels
  BY DEF Labels
<1>4. CASE Change
  <2>1. PICK w \in Changed(Now) : hist' = Append(hist, w)
    BY <1>4 DEF Change
  <2>2. w \in World
    BY ChangedType, NowType
  <2>3. hist' \in Seq(World) /\ Len(hist') = Len(hist) + 1 /\ Len(hist) <= MaxChanges
    BY <1>4, <2>1, <2>2 DEF Change
  <2>4. Len(hist') \in 1..(MaxChanges + 1) /\ 0..Len(hist) \subseteq 0..Len(hist')
    BY <2>3, StatusBounds
  <2>5. req \in [Requests -> ReqRec(hist')]
    BY <2>4 DEF ReqRec
  <2> QED BY <1>4, <2>3, <2>4, <2>5 DEF Change, TypeOK, ReqRec, TaskRec
<1>5. ASSUME NEW r \in Requests, AskAll(r) PROVE TypeOK'
  <2>1. Spawned \in [Services -> TaskRec]
    BY TaskOf DEF Spawned
  <2>2. task' \in [Requests -> [Services -> TaskRec]]
    BY <1>5, <2>1 DEF AskAll
  <2> QED BY <1>1, <1>5, <2>2, AskedType DEF AskAll
<1>6. ASSUME NEW r \in Requests, AskOne(r) PROVE TypeOK'
  <2>1. req' \in [Requests -> ReqRec(hist)] /\ UNCHANGED <<hist, alive>>
    BY <1>6, AskedType DEF AskOne
  <2>2. CASE UNCHANGED task
    BY <1>1, <2>1, <2>2
  <2>3. ASSUME NEW s \in Services, task' = [task EXCEPT ![r][s] = Task(s)]
        PROVE  TypeOK'
    BY <1>1, <2>1, <2>3, TaskOf
  <2> QED BY <1>6, <2>2, <2>3 DEF AskOne
<1>7. ASSUME NEW r \in Requests, NEW k \in Services, Collect(r, k) PROVE TypeOK'
  <2> DEFINE n == req[r].n + 1
             pc == IF Enough(n) THEN "answered" ELSE "all"
  <2>1. n \in Nat /\ pc \in {"all", "answered", "replied"}
    BY DEF ReqRec
  <2>2. req' = [req EXCEPT ![r] =
                  [@ EXCEPT !.n = n, !.upto = Len(hist), !.pc = pc,
                            !.result[task[r][k].svc] = task[r][k].status]]
    BY <1>7 DEF Collect
  <2> HIDE DEF n, pc
  <2>3. req' \in [Requests -> ReqRec(hist)]
    BY <2>1, <2>2, KeptType
  <2>4. task' \in [Requests -> [Services -> TaskRec]]
    BY <1>2, <1>3, <1>7 DEF Collect
  <2> QED BY <1>1, <1>7, <2>3, <2>4 DEF Collect
<1>8. ASSUME NEW r \in Requests, NEW k \in Services, ReplyOne(r, k) PROVE TypeOK'
  <2> DEFINE n == req[r].n
  <2>1. n \in Nat
    BY DEF ReqRec
  <2>2. req' = [req EXCEPT ![r] =
                  [@ EXCEPT !.n = n, !.upto = Len(hist), !.pc = "replied",
                            !.result[task[r][k].svc] = task[r][k].status]]
    BY <1>8 DEF ReplyOne, ReqRec
  <2> HIDE DEF n
  <2>3. req' \in [Requests -> ReqRec(hist)]
    BY <2>1, <2>2, KeptType
  <2>4. task' \in [Requests -> [Services -> TaskRec]]
    BY <1>2, <1>3, <1>8 DEF ReplyOne
  <2> QED BY <1>1, <1>8, <2>3, <2>4 DEF ReplyOne
<1>9. ASSUME NEW r \in Requests, NEW k \in Services, NEW t, Moves(r, k, t) PROVE TypeOK'
  BY <1>1, <1>9 DEF Moves
<1>10. ASSUME NEW r \in Requests, NEW k \in Services, Panic(r, k) PROVE TypeOK'
  <2>1. [req[r] EXCEPT !.pc = "failed"] \in ReqRec(hist)
    BY DEF ReqRec
  <2>2. \/ UNCHANGED req /\ alive' = FALSE
        \/ req' = [req EXCEPT ![r] = [req[r] EXCEPT !.pc = "failed"]] /\ UNCHANGED alive
    BY <1>10 DEF Panic
  <2>3. req' \in [Requests -> ReqRec(hist)] /\ alive' \in BOOLEAN
    BY <2>1, <2>2
  <2> QED BY <1>1, <1>2, <1>3, <1>10, <2>3 DEF Panic
<1>11. CASE UNCHANGED vars
  BY <1>11 DEF vars, TypeOK
<1> QED
  BY <1>4, <1>5, <1>6, <1>7, <1>8, <1>9, <1>10, <1>11, ObserveSteps DEF Next, Work, Steps

(* Every request and every goroutine keeps to its type.                    *)
THEOREM TypeCorrect == Spec => []TypeOK
BY TypeInit, TypeStep, PTL DEF Spec

-----------------------------------------------------------------------------
(* Every answer is a service's own.  While the results of a request come   *)
(* in, each goroutine is still at work for its own service, or its status  *)
(* is among the results; as many are as were counted, so that with the     *)
(* last of them nobody is left.                                            *)
Gone(r) == {k \in Services : task[r][k].at = "gone"}

Delivered(r, k) == /\ task[r][k].svc = k
                   /\ req[r].result[k] = task[r][k].status
                   /\ task[r][k].status.text # ""

OwnTask(r, k) ==
    /\ task[r][k].svc = k /\ task[r][k].at # "none"
    /\ task[r][k].at = "send" => task[r][k].status.text # ""
    /\ alive /\ task[r][k].at = "gone" => Delivered(r, k)

Collecting(r) == /\ \A k \in Services : OwnTask(r, k)
                 /\ alive => req[r].n = Cardinality(Gone(r))

Complete(r) == \A k \in Services : task[r][k].at = "gone" /\ Delivered(r, k)

Own(r) == /\ req[r].pc = "all" => Collecting(r)
          /\ req[r].pc = "answered" => Complete(r)

OwnInv == \A r \in Requests : Own(r)

LEMMA ServicesFinite == IsFiniteSet(Services)
<1>1. IsFiniteSet({"opendexd", "connext", "boltz"})
  <2>1. IsFiniteSet({"opendexd"} \cup {"connext"})
    BY FS_Singleton, FS_Union
  <2>2. IsFiniteSet(({"opendexd"} \cup {"connext"}) \cup {"boltz"})
    BY <2>1, FS_Singleton, FS_Union
  <2>3. ({"opendexd"} \cup {"connext"}) \cup {"boltz"} = {"opendexd", "connext", "boltz"}
    OBVIOUS
  <2> QED BY <2>2, <2>3
<1>2. IsFiniteSet({"lnd", "geth", "bitcoind"})
  <2>1. IsFiniteSet({"lnd"} \cup {"geth"})
    BY FS_Singleton, FS_Union
  <2>2. IsFiniteSet(({"lnd"} \cup {"geth"}) \cup {"bitcoind"})
    BY <2>1, FS_Singleton, FS_Union
  <2>3. ({"lnd"} \cup {"geth"}) \cup {"bitcoind"} = {"lnd", "geth", "bitcoind"}
    OBVIOUS
  <2> QED BY <2>2, <2>3
<1>3. IsFiniteSet({"arby", "webui", "proxy"})
  <2>1. IsFiniteSet({"arby"} \cup {"webui"})
    BY FS_Singleton, FS_Union
  <2>2. IsFiniteSet(({"arby"} \cup {"webui"}) \cup {"proxy"})
    BY <2>1, FS_Singleton, FS_Union
  <2>3. ({"arby"} \cup {"webui"}) \cup {"proxy"} = {"arby", "webui", "proxy"}
    OBVIOUS
  <2> QED BY <2>2, <2>3
<1>4. IsFiniteSet(({"opendexd", "connext", "boltz"} \cup {"lnd", "geth", "bitcoind"})
                     \cup {"arby", "webui", "proxy"})
  BY <1>1, <1>2, <1>3, FS_Union
<1>5. Services \subseteq ({"opendexd", "connext", "boltz"} \cup {"lnd", "geth", "bitcoind"})
                     \cup {"arby", "webui", "proxy"}
  BY ServicesKnown DEF Names
<1> QED BY <1>4, <1>5, FS_Subset

LEMMA OwnImplies == OwnInv => OwnStatus
<1> SUFFICES ASSUME OwnInv, NEW r \in Requests, req[r].pc = "answered",
                    NEW s \in Services
             PROVE  /\ task[r][s].at = "gone"
                    /\ task[r][s].svc = s /\ req[r].result[s] = task[r][s].status
                    /\ req[r].result[s] # NoStatus
  BY DEF OwnStatus
<1>1. NoStatus.text = ""
  BY DEF NoStatus, Plain
<1>2. task[r][s].at = "gone" /\ Delivered(r, s)
  BY DEF OwnInv, Own, Complete
<1> QED BY <1>1, <1>2 DEF Delivered

LEMMA OwnInit == Init => OwnInv
<1> SUFFICES ASSUME Init, NEW r \in Requests PROVE req[r].pc = "idle"
  BY DEF OwnInv, Own
<1> QED BY DEF Init, Idle

(* What does not touch a request leaves it as it is.                       *)
LEMMA OwnFrame ==
    ASSUME NEW q \in Requests, Own(q), req'[q] = req[q], task'[q] = task[q],
           alive' => alive
    PROVE  Own(q)'
<1>1. Gone(q)' = Gone(q)
  BY DEF Gone
<1> QED BY <1>1 DEF Own, Collecting, Complete, OwnTask, Delivered

LEMMA OwnAskAll ==
    ASSUME TypeOK, NEW r \in Requests, AskAll(r)
    PROVE  Own(r)'
<1>1. req'[r].pc = "all" /\ req'[r].n = 0
  BY TypeFacts DEF AskAll, Asked, Idle
<1>2. task'[r] = [s \in Services |-> Task(s)]
  BY TypeFacts DEF AskAll, Spawned
<1>3. ASSUME NEW k \in Services
      PROVE  task'[r][k].svc = k /\ task'[r][k].at = "start"
  <2>1. task'[r][k] = Task(k)
    BY <1>2
  <2> QED BY <2>1 DEF Task, NoTask
<1>4. Gone(r)' = {}
  BY <1>3 DEF Gone
<1>5. \A k \in Services : OwnTask(r, k)'
  BY <1>3 DEF OwnTask
<1> QED BY <1>1, <1>4, <1>5, FS_EmptySet DEF Own, Collecting

LEMMA OwnCollect ==
    ASSUME TypeOK, NEW r \in Requests, NEW k \in Services, Own(r), Collect(r, k)
    PROVE  Own(r)'
<1> DEFINE n == req[r].n + 1
<1>1. alive /\ alive' /\ req[r].pc = "all" /\ task[r][k].at = "send"
  BY DEF Collect
<1>2. Collecting(r)
  BY <1>1 DEF Own
<1>3. /\ task[r][k].svc = k /\ task[r][k].status.text # ""
      /\ req[r].n = Cardinality(Gone(r)) /\ k \notin Gone(r)
  BY <1>1, <1>2 DEF Collecting, OwnTask, Gone
<1>4. req'[r] = [req[r] EXCEPT !.n = n, !.upto = Len(hist),
                               !.pc = IF Enough(n) THEN "answered" ELSE "all",
                               !.result[k] = task[r][k].status]
  BY <1>3, TypeFacts DEF Collect
<1>5. /\ req'[r].n = n
      /\ req'[r].pc = IF Enough(n) THEN "answered" ELSE "all"
      /\ req'[r].result[k] = task[r][k].status
      /\ \A s \in Services \ {k} : req'[r].result[s] = req[r].result[s]
  BY <1>4, TypeFacts DEF ReqRec
<1>6. /\ task'[r][k] = [task[r][k] EXCEPT !.at = "gone"]
      /\ \A s \in Services \ {k} : task'[r][s] = task[r][s]
  BY TypeFacts DEF Collect
<1>7. /\ task'[r][k].at = "gone" /\ task'[r][k].svc = k
      /\ task'[r][k].status = task[r][k].status
  <2>1. task[r][k] \in TaskRec
    BY TaskType
  <2> QED BY <1>3, <1>6, <2>1 DEF TaskRec
<1>8. Gone(r)' = Gone(r) \cup {k}
  BY <1>6, <1>7 DEF Gone
<1>9. IsFiniteSet(Gone(r)) /\ Gone(r) \cup {k} \subseteq Services
  BY ServicesFinite, FS_Subset DEF Gone
<1>10. n = Cardinality(Gone(r)')
  BY <1>3, <1>8, <1>9, FS_AddElement
<1>11. Delivered(r, k)'
  BY <1>3, <1>5, <1>7 DEF Delivered
<1>12. ASSUME NEW s \in Services \ {k}
       PROVE  OwnTask(r, s)' /\ (task'[r][s].at = "gone" => Delivered(r, s)')
  <2>1. req'[r].result[s] = req[r].result[s] /\ task'[r][s] = task[r][s]
    BY <1>5, <1>6
  <2>2. OwnTask(r, s)
    BY <1>2 DEF Collecting
  <2> QED BY <1>1, <2>1, <2>2 DEF OwnTask, Delivered
<1>13. OwnTask(r, k)'
  BY <1>7, <1>11 DEF OwnTask
<1>14. CASE Enough(n)
  <2>1. Gone(r)' = Services
    BY <1>8, <1>9, <1>10, <1>14, ServicesFinite, FS_Subset DEF Enough
  <2>2. Complete(r)'
    BY <1>11, <1>12, <2>1 DEF Complete, Gone
  <2> QED BY <1>5, <1>14, <2>2 DEF Own
<1>15. CASE ~Enough(n)
  <2>1. Collecting(r)'
    BY <1>5, <1>10, <1>12, <1>13 DEF Collecting
  <2> QED BY <1>5, <1>15, <2>1 DEF Own
<1> QED BY <1>14, <1>15

LEMMA OwnMoves ==
    ASSUME TypeOK, NEW r \in Requests, NEW k \in Services, Own(r),
           NEW t, Moves(r, k, t)
    PROVE  Own(r)'
<1>1. req'[r] = req[r] /\ (alive' <=> alive)
  BY DEF Moves
<1>2. task'[r][k] = t /\ \A s \in Services \ {k} : task'[r][s] = task[r][s]
  BY TypeFacts DEF Moves
<1>3. /\ task[r][k].at # "gone" /\ t.at \notin {"none", "gone"}
      /\ t.svc = task[r][k].svc
      /\ t.at = "send" => t.status.text # ""
  BY DEF Moves, Middle
<1>4. Gone(r)' = Gone(r)
  BY <1>2, <1>3 DEF Gone
<1>5. ~Complete(r)
  BY <1>3 DEF Complete
<1>6. ASSUME Collecting(r) PROVE Collecting(r)'
  <2>1. \A s \in Services \ {k} : OwnTask(r, s)'
    BY <1>1, <1>2, <1>6 DEF Collecting, OwnTask, Delivered
  <2>2. OwnTask(r, k)'
    BY <1>2, <1>3, <1>6 DEF Collecting, OwnTask
  <2> QED BY <1>1, <1>4, <1>6, <2>1, <2>2 DEF Collecting
<1> QED BY <1>1, <1>5, <1>6 DEF Own

LEMMA OwnPanic ==
    ASSUME TypeOK, NEW r \in Requests, NEW k \in Services, Own(r),
           task[r][k].at \in Middle, Panic(r, k)
    PROVE  Own(r)'
<1>1. CASE req[r].pc = "all"
  <2>1. ~alive' /\ req'[r] = req[r] /\ Collecting(r)
    BY <1>1 DEF Panic, Own
  <2>2. /\ task'[r][k] = [task[r][k] EXCEPT !.at = "gone"]
        /\ \A s \in Services \ {k} : task'[r][s] = task[r][s]
    BY TypeFacts DEF Panic
  <2>3. task[r][k] \in TaskRec
    BY TaskType
  <2>4. task'[r][k].at = "gone" /\ task'[r][k].svc = task[r][k].svc
    BY <2>2, <2>3 DEF TaskRec
  <2>5. \A s \in Services : OwnTask(r, s)'
    BY <2>1, <2>2, <2>4 DEF Collecting, OwnTask
  <2> QED BY <1>1, <2>1, <2>5 DEF Own, Collecting
<1>2. CASE req[r].pc # "all"
  <2>1. req'[r].pc = "failed"
    BY <1>2, TypeFacts DEF Panic, ReqRec
  <2> QED BY <2>1 DEF Own
<1> QED BY <1>1, <1>2

LEMMA OwnStep == TypeOK /\ OwnInv /\ [Next]_vars => OwnInv'
<1> SUFFICES ASSUME TypeOK, OwnInv, [Next]_vars PROVE OwnInv'
  OBVIOUS
<1>1. ASSUME NEW r \in Requests, Own(r)', alive' => alive,
             \A q \in Requests \ {r} : req'[q] = req[q] /\ task'[q] = task[q]
      PROVE  OwnInv'
  <2>1. \A q \in Requests \ {r} : Own(q)'
    BY <1>1, OwnFrame DEF OwnInv
  <2> QED BY <1>1, <2>1 DEF OwnInv
<1>2. CASE Change \/ UNCHANGED vars
  BY <1>2, OwnFrame DEF Change, vars, OwnInv
<1>3. ASSUME NEW r \in Requests, AskAll(r) PROVE OwnInv'
  <2>1. \A q \in Requests \ {r} : req'[q] = req[q] /\ task'[q] = task[q]
    BY <1>3, TypeFacts DEF AskAll, Asked
  <2> QED BY <1>1, <1>3, <2>1, OwnAskAll DEF AskAll
<1>4. ASSUME NEW r \in Requests, AskOne(r) PROVE OwnInv'
  <2>1. \A q \in Requests \ {r} : req'[q] = req[q] /\ task'[q] = task[q]
    BY <1>4, TypeFacts DEF AskOne, Asked
  <2>2. req'[r].pc \in {"one", "notfound"}
    BY <1>4, TypeFacts DEF AskOne, Asked, Idle
  <2> QED BY <1>1, <1>4, <2>1, <2>2 DEF AskOne, Own
<1>5. ASSUME NEW r \in Requests, NEW k \in Services, Collect(r, k) PROVE OwnInv'
  <2>1. \A q \in Requests \ {r} : req'[q] = req[q] /\ task'[q] = task[q]
    BY <1>5, TypeFacts DEF Collect
  <2> QED BY <1>1, <1>5, <2>1, OwnCollect DEF Collect, OwnInv
<1>6. ASSUME NEW r \in Requests, NEW k \in Services, ReplyOne(r, k) PROVE OwnInv'
  <2>1. \A q \in Requests \ {r} : req'[q] = req[q] /\ task'[q] = task[q]
    BY <1>6, TypeFacts DEF ReplyOne
  <2>2. req'[r].pc = "replied"
    BY <1>6, TypeFacts DEF ReplyOne, ReqRec
  <2> QED BY <1>1, <1>6, <2>1, <2>2 DEF ReplyOne, Own
<1>7. ASSUME NEW r \in Requests, NEW k \in Services, NEW t, Moves(r, k, t) PROVE OwnInv'
  <2>1. \A q \in Requests \ {r} : req'[q] = req[q] /\ task'[q] = task[q]
    BY <1>7, TypeFacts DEF Moves
  <2>2. alive' => alive
    BY <1>7 DEF Moves
  <2> QED BY <1>1, <1>7, <2>1, <2>2, OwnMoves DEF OwnInv
<1>8. ASSUME NEW r \in Requests, NEW k \in Services,
             alive, task[r][k].at \in Middle, Panic(r, k)
      PROVE  OwnInv'
  <2>1. \A q \in Requests \ {r} : req'[q] = req[q] /\ task'[q] = task[q]
    BY <1>8, TypeFacts DEF Panic
  <2> QED BY <1>1, <1>8, <2>1, OwnPanic DEF OwnInv
<1> QED
  BY <1>2, <1>3, <1>4, <1>5, <1>6, <1>7, <1>8, ObserveSteps DEF Next, Work, Steps

(* An answer to /v1/status comes when every goroutine of its request has   *)
(* ended, and holds for each service the status that service's own         *)
(* GetStatus returned in this request, however the goroutines of all the   *)
(* requests interleave and whatever panics.                                *)
THEOREM AnswersAreOwn == Spec => []OwnStatus
<1>1. TypeOK /\ OwnInv /\ [Next]_vars => (TypeOK /\ OwnInv)'
  BY TypeStep, OwnStep
<1>2. Init => TypeOK /\ OwnInv
  BY TypeInit, OwnInit
<1> QED BY <1>1, <1>2, OwnImplies, PTL DEF Spec

-----------------------------------------------------------------------------
(* What brings the process down.  Each step of GetStatus is reached only   *)
(* for the service it belongs to, so that a panic blames a backend of the  *)
(* configuration.                                                          *)
Place(label, s) ==
    /\ label # "none" => s \in Services
    /\ label \in {"info", "connext.info"} => "opendexd" \in Services
    /\ label = "mode" => s = "geth"
    /\ label \in {"conf", "rpchost", "getblockchaininfo"} => s = "bitcoind"
    /\ label = "container" => s # "proxy"

PlaceInv ==
    \A r \in Requests, k \in Services : Place(task[r][k].at, task[r][k].svc)

Anywhere == Labels \ {"none", "info", "connext.info", "mode", "conf", "rpchost",
                      "getblockchaininfo", "container"}

Blames == \/ /\ "opendexd" \in Services
             /\ Now.opendexd.kind = "info" /\ Lacks(Now.opendexd)
          \/ "bitcoind" \in Services /\ Now.bitcoind.kind = "malformed"

(* A step that keeps to its place, and can say why if it ends the process. *)
Placed(r, k) == /\ Place(task'[r][k].at, task'[r][k].svc)
                /\ alive' \/ (req[r].pc = "all" /\ Blames)

Here(r, k) == Place(task[r][k].at, task[r][k].svc)

LEMMA FinishPlaced ==
    ASSUME TypeOK, NEW r \in Requests, NEW k \in Services, alive, Here(r, k),
           task[r][k].at # "none", NEW st, Finish(r, k, st)
    PROVE  Placed(r, k)
<1>1. task[r][k] \in TaskRec
  BY TaskType
<1>2. task'[r][k] = [task[r][k] EXCEPT !.at = "send", !.status = st, !.seen = Seen0]
  BY TypeFacts DEF Finish
<1>3. task'[r][k].at = "send" /\ task'[r][k].svc = task[r][k].svc
  BY <1>1, <1>2 DEF TaskRec
<1> QED BY <1>3 DEF Placed, Place, Here, Finish

LEMMA GotoPlaced ==
    ASSUME TypeOK, NEW r \in Requests, NEW k \in Services, alive,
           NEW label, Place(label, task[r][k].svc),
           \/ Goto(r, k, label)
           \/ \E seen : GotoWith(r, k, label, seen)
    PROVE  Placed(r, k)
<1>1. task[r][k] \in TaskRec
  BY TaskType
<1>2. CASE Goto(r, k, label)
  <2>1. task'[r][k] = [task[r][k] EXCEPT !.at = label]
    BY <1>2, TypeFacts DEF Goto
  <2>2. task'[r][k].at = label /\ task'[r][k].svc = task[r][k].svc
    BY <1>1, <2>1 DEF TaskRec
  <2> QED BY <1>2, <2>2 DEF Placed, Goto
<1>3. ASSUME NEW seen, GotoWith(r, k, label, seen) PROVE Placed(r, k)
  <2>1. task'[r][k] = [task[r][k] EXCEPT !.at = label, !.seen = seen]
    BY <1>3, TypeFacts DEF GotoWith
  <2>2. task'[r][k].at = label /\ task'[r][k].svc = task[r][k].svc
    BY <1>1, <2>1 DEF TaskRec
  <2> QED BY <1>3, <2>2 DEF Placed, GotoWith
<1> QED BY <1>2, <1>3

LEMMA AnywherePlaced ==
    ASSUME TypeOK, NEW r \in Requests, NEW k \in Services, alive, Here(r, k),
           task[r][k].at # "none", NEW label \in Anywhere,
           \/ Goto(r, k, label)
           \/ \E seen : GotoWith(r, k, label, seen)
    PROVE  Placed(r, k)
<1>1. Place(label, task[r][k].svc)
  BY DEF Anywhere, Here, Place
<1> QED BY <1>1, GotoPlaced

LEMMA PanicPlaced ==
    ASSUME TypeOK, NEW r \in Requests, NEW k \in Services, alive, Here(r, k),
           task[r][k].at # "none", Blames, Panic(r, k)
    PROVE  Placed(r, k)
<1>1. task[r][k] \in TaskRec
  BY TaskType
<1>2. task'[r][k] = [task[r][k] EXCEPT !.at = "gone"]
  BY TypeFacts DEF Panic
<1>3. task'[r][k].at = "gone" /\ task'[r][k].svc = task[r][k].svc
  BY <1>1, <1>2 DEF TaskRec
<1>4. alive' \/ req[r].pc = "all"
  BY DEF Panic
<1> QED BY <1>3, <1>4 DEF Placed, Place, Here

(* The steps that end or go on to a place of no particular service.        *)
LEMMA EndingsPlaced ==
    ASSUME TypeOK, NEW r \in Requests, NEW k \in Services, Here(r, k),
           \/ StatNodekey(r, k) \/ IsHealthy(r, k)
           \/ ExecBtc(r, k) \/ ExecLtc(r, k)
           \/ LndGetInfo(r, k) \/ CurrentHeight(r, k)
           \/ ReadCurrent(r, k) \/ ReadTotal(r, k)
           \/ GetProvider(r, k) \/ CheckEthRpc(r, k)
           \/ EthSyncing(r, k) \/ EthBlockNumber(r, k)
    PROVE  Placed(r, k)
<1>1. alive /\ task[r][k].at # "none"
  BY DEF StatNodekey, IsHealthy, ExecBtc, ExecLtc, LndGetInfo, CurrentHeight,
     ReadCurrent, ReadTotal, GetProvider, CheckEthRpc, EthSyncing, EthBlockNumber, At
<1>2. {"ltc", "height", "current", "total", "check", "eth_blockNumber"} \subseteq Anywhere
  BY DEF Anywhere, Labels
<1>3. ASSUME NEW st, Finish(r, k, st) PROVE Placed(r, k)
  BY <1>1, <1>3, FinishPlaced
<1>4. ASSUME NEW label \in Anywhere,
             Goto(r, k, label) \/ \E seen : GotoWith(r, k, label, seen)
      PROVE  Placed(r, k)
  BY <1>1, <1>4, AnywherePlaced
<1>5. CASE StatNodekey(r, k) \/ IsHealthy(r, k) \/ ExecLtc(r, k) \/ CurrentHeight(r, k)
           \/ ReadTotal(r, k) \/ CheckEthRpc(r, k) \/ EthBlockNumber(r, k)
  BY <1>3, <1>5, Zenon DEF StatNodekey, IsHealthy, ExecLtc, CurrentHeight, ReadTotal,
     CheckEthRpc, EthBlockNumber
<1>6. CASE ExecBtc(r, k) \/ ReadCurrent(r, k)
  BY <1>2, <1>4, <1>6 DEF ExecBtc, ReadCurrent
<1>7. CASE LndGetInfo(r, k)
  <2>1. \/ \E st : Finish(r, k, st) \/ \E seen : GotoWith(r, k, "height", seen)
        \/ Goto(r, k, "current")
    BY <1>7, Zenon DEF LndGetInfo
  <2> QED BY <1>2, <1>3, <1>4, <2>1
<1>8. CASE GetProvider(r, k)
  BY <1>2, <1>3, <1>4, <1>8 DEF GetProvider
<1>9. CASE EthSyncing(r, k)
  <2>1. \/ \E st : Finish(r, k, st) \/ Goto(r, k, "eth_blockNumber")
    BY <1>9, Zenon DEF EthSyncing
  <2> QED BY <1>2, <1>3, <1>4, <2>1
<1> QED BY <1>5, <1>6, <1>7, <1>8, <1>9

LEMMA StartPlaced ==
    ASSUME TypeOK, NEW r \in Requests, NEW k \in Services, Here(r, k), Start(r, k)
    PROVE  Placed(r, k)
<1> DEFINE s == task[r][k].svc
<1>1. task[r][k] \in TaskRec /\ s \in Services
  BY TaskType DEF Start, At, Here, Place
<1>2. task'[r][k] = [task[r][k] EXCEPT !.at = First(s), !.setup = Now.setup,
                        !.status = IF s = "proxy" THEN Plain("Ready") ELSE NoStatus]
  BY TypeFacts DEF Start
<1>3. task'[r][k].at = First(s) /\ task'[r][k].svc = s
  BY <1>1, <1>2 DEF TaskRec
<1>4. Place(First(s), s)
  BY <1>1 DEF First, Place
<1> HIDE DEF s
<1> QED BY <1>3, <1>4 DEF Placed, Start, At

LEMMA ContainerPlaced ==
    ASSUME TypeOK, NEW r \in Requests, NEW k \in Services, Here(r, k), Container(r, k)
    PROVE  Placed(r, k)
<1> DEFINE s == task[r][k].svc
<1>1. alive /\ task[r][k].at = "container"
  BY DEF Container, At
<1>2. s \in Services /\ s # "proxy"
  BY <1>1 DEF Here, Place
<1>3. \/ \E st : Finish(r, k, st)
      \/ s \notin {"arby", "webui"} /\ Goto(r, k, AfterContainer(s))
  BY DEF Container
<1>4. CASE \E st : Finish(r, k, st)
  BY <1>1, <1>4, FinishPlaced
<1>5. CASE s \notin {"arby", "webui"} /\ Goto(r, k, AfterContainer(s))
  <2>1. s \in {"opendexd", "connext", "boltz", "lnd", "geth", "bitcoind"}
    BY <1>2, <1>5, ServicesKnown DEF Names
  <2>2. Place(AfterContainer(s), s)
    BY <1>2, <2>1 DEF AfterContainer, Place
  <2> QED BY <1>1, <1>5, <2>2, GotoPlaced
<1> QED BY <1>3, <1>4, <1>5

LEMMA XudGetInfoPlaced ==
    ASSUME TypeOK, NEW r \in Requests, NEW k \in Services, Here(r, k), XudGetInfo(r, k)
    PROVE  Placed(r, k)
<1>1. alive /\ task[r][k].at = "info" /\ "opendexd" \in Services
  BY DEF XudGetInfo, At, Here, Place
<1>2. Now.opendexd \in XudInfo
  BY NowType DEF World
<1>3. \/ \E st : Finish(r, k, st)
      \/ Goto(r, k, "nodekey")
      \/ Now.opendexd.kind = "info" /\ Lacks(Now.opendexd) /\ Panic(r, k)
  BY <1>2 DEF XudGetInfo, XudInfo
<1>4. "nodekey" \in Anywhere
  BY DEF Anywhere, Labels
<1>5. CASE \E st : Finish(r, k, st)
  BY <1>1, <1>5, FinishPlaced
<1>6. CASE Goto(r, k, "nodekey")
  BY <1>1, <1>4, <1>6, AnywherePlaced
<1>7. CASE Now.opendexd.kind = "info" /\ Lacks(Now.opendexd) /\ Panic(r, k)
  BY <1>1, <1>7, PanicPlaced DEF Blames
<1> QED BY <1>3, <1>5, <1>6, <1>7

LEMMA ConnextGetInfoPlaced ==
    ASSUME TypeOK, NEW r \in Requests, NEW k \in Services, Here(r, k),
           ConnextGetInfo(r, k)
    PROVE  Placed(r, k)
<1>1. alive /\ task[r][k].at = "connext.info" /\ "opendexd" \in Services
  BY DEF ConnextGetInfo, At, Here, Place
<1>2. \/ Goto(r, k, "health")
      \/ \E st : Finish(r, k, st)
      \/ Now.opendexd.kind = "info" /\ Lacks(Now.opendexd) /\ Panic(r, k)
  BY DEF ConnextGetInfo, Lacks
<1>3. "health" \in Anywhere
  BY DEF Anywhere, Labels
<1>4. CASE Goto(r, k, "health")
  BY <1>1, <1>3, <1>4, AnywherePlaced
<1>5. CASE \E st : Finish(r, k, st)
  BY <1>1, <1>5, FinishPlaced
<1>6. CASE Now.opendexd.kind = "info" /\ Lacks(Now.opendexd) /\ Panic(r, k)
  BY <1>1, <1>6, PanicPlaced DEF Blames
<1> QED BY <1>2, <1>4, <1>5, <1>6

LEMMA ModesPlaced ==
    ASSUME TypeOK, NEW r \in Requests, NEW k \in Services, Here(r, k),
           GetMode(r, k) \/ GetBackendNode(r, k) \/ GetRpcHost(r, k)
    PROVE  Placed(r, k)
<1> DEFINE s == task[r][k].svc
<1>1. alive /\ task[r][k].at \in {"mode", "conf", "rpchost"}
  BY DEF GetMode, GetBackendNode, GetRpcHost, At
<1>2. s \in Services
  BY <1>1 DEF Here, Place
<1>3. ASSUME NEW st, Finish(r, k, st) PROVE Placed(r, k)
  BY <1>1, <1>3, FinishPlaced
<1>4. CASE GetMode(r, k)
  <2>1. s = "geth"
    BY <1>4 DEF GetMode, At, Here, Place
  <2>2. Place("container", s) /\ Place("provider", s)
    BY <1>2, <2>1 DEF Place
  <2>3. \/ \E st : Finish(r, k, st) \/ Goto(r, k, "container")
        \/ \E seen : GotoWith(r, k, "provider", seen)
    BY <1>4, Zenon DEF GetMode
  <2> QED BY <1>1, <1>3, <2>2, <2>3, GotoPlaced
<1>5. CASE GetBackendNode(r, k)
  <2>1. s = "bitcoind"
    BY <1>5 DEF GetBackendNode, At, Here, Place
  <2>2. Place("rpchost", s)
    BY <1>2, <2>1 DEF Place
  <2>3. \/ \E st : Finish(r, k, st) \/ Goto(r, k, "rpchost")
    BY <1>5, Zenon DEF GetBackendNode
  <2> QED BY <1>1, <1>3, <2>2, <2>3, GotoPlaced
<1>6. CASE GetRpcHost(r, k)
  <2>1. s = "bitcoind"
    BY <1>6 DEF GetRpcHost, At, Here, Place
  <2>2. Place("container", s)
    BY <1>2, <2>1 DEF Place
  <2>3. \/ \E st : Finish(r, k, st) \/ Goto(r, k, "container")
    BY <1>6, Zenon DEF GetRpcHost
  <2> QED BY <1>1, <1>3, <2>2, <2>3, GotoPlaced
<1> QED BY <1>4, <1>5, <1>6

LEMMA GetBlockchainInfoPlaced ==
    ASSUME TypeOK, NEW r \in Requests, NEW k \in Services, Here(r, k),
           GetBlockchainInfo(r, k)
    PROVE  Placed(r, k)
<1>1. alive /\ task[r][k].at = "getblockchaininfo" /\ "bitcoind" \in Services
  BY DEF GetBlockchainInfo, At, Here, Place
<1>2. Now.bitcoind \in Chain
  BY NowType DEF World
<1>3. \/ \E st : Finish(r, k, st)
      \/ Now.bitcoind.kind = "malformed" /\ Panic(r, k)
  BY <1>2 DEF GetBlockchainInfo, Chain
<1>4. CASE \E st : Finish(r, k, st)
  BY <1>1, <1>4, FinishPlaced
<1>5. CASE Now.bitcoind.kind = "malformed" /\ Panic(r, k)
  BY <1>1, <1>5, PanicPlaced DEF Blames
<1> QED BY <1>3, <1>4, <1>5

LEMMA ObservePlaced ==
    ASSUME TypeOK, NEW r \in Requests, NEW k \in Services, Here(r, k), Observe(r, k)
    PROVE  Placed(r, k)
BY EndingsPlaced, StartPlaced, ContainerPlaced, XudGetInfoPlaced, ConnextGetInfoPlaced,
   ModesPlaced, GetBlockchainInfoPlaced, Zenon DEF Observe

LEMMA PlaceInit == Init => PlaceInv
BY DEF Init, PlaceInv, Place, NoTask

LEMMA PlaceStep == TypeOK /\ PlaceInv /\ [Next]_vars => PlaceInv'
<1> SUFFICES ASSUME TypeOK, PlaceInv, [Next]_vars PROVE PlaceInv'
  OBVIOUS
<1>1. ASSUME UNCHANGED task PROVE PlaceInv'
  BY <1>1 DEF PlaceInv
<1>2. ASSUME NEW r \in Requests, NEW k \in Services,
             Place(task'[r][k].at, task'[r][k].svc),
             NEW t, task' = [task EXCEPT ![r][k] = t]
      PROVE  PlaceInv'
  BY <1>2, TypeFacts DEF PlaceInv
<1>3. ASSUME NEW r \in Requests, NEW k \in Services, task[r][k].at # "none",
             NEW label \in {"gone"}, task' = [task EXCEPT ![r][k].at = label]
      PROVE  PlaceInv'
  <2>1. task' = [task EXCEPT ![r][k] = [task[r][k] EXCEPT !.at = label]]
    BY <1>3
  <2>2. task[r][k] \in TaskRec /\ task'[r][k] = [task[r][k] EXCEPT !.at = label]
    BY <2>1, TaskType, TypeFacts
  <2>3. task'[r][k].at = "gone" /\ task'[r][k].svc = task[r][k].svc
    BY <1>3, <2>2 DEF TaskRec
  <2>4. Place(task'[r][k].at, task'[r][k].svc)
    BY <1>3, <2>3 DEF PlaceInv, Place
  <2> QED BY <1>2, <2>1, <2>4
<1>4. ASSUME NEW s \in Services PROVE Place(Task(s).at, Task(s).svc)
  BY DEF Task, NoTask, Place
<1>5. CASE Change \/ UNCHANGED vars
  BY <1>1, <1>5 DEF Change, vars
<1>6. ASSUME NEW r \in Requests, AskAll(r) PROVE PlaceInv'
  <2>1. \A k \in Services : task'[r][k] = Task(k)
    BY <1>6, TypeFacts DEF AskAll, Spawned
  <2>2. \A q \in Requests \ {r} : task'[q] = task[q]
    BY <1>6, TypeFacts DEF AskAll
  <2> QED BY <1>4, <2>1, <2>2 DEF PlaceInv
<1>7. ASSUME NEW r \in Requests, AskOne(r) PROVE PlaceInv'
  <2>1. CASE UNCHANGED task
    BY <1>1, <2>1
  <2>2. ASSUME NEW s \in Services, task' = [task EXCEPT ![r][s] = Task(s)]
        PROVE  PlaceInv'
    <3>1. task'[r][s] = Task(s)
      BY <2>2, TypeFacts
    <3> QED BY <1>2, <1>4, <2>2, <3>1
  <2> QED BY <1>7, <2>1, <2>2 DEF AskOne
<1>8. ASSUME NEW r \in Requests, NEW k \in Services, Collect(r, k) \/ ReplyOne(r, k)
      PROVE  PlaceInv'
  BY <1>3, <1>8 DEF Collect, ReplyOne
<1>9. ASSUME NEW r \in Requests, NEW k \in Services, Observe(r, k) PROVE PlaceInv'
  <2>1. Place(task'[r][k].at, task'[r][k].svc)
    BY <1>9, ObservePlaced DEF PlaceInv, Here, Placed
  <2>2. \E t : task' = [task EXCEPT ![r][k] = t]
    <3>1. CASE \E t : Moves(r, k, t)
      BY <3>1 DEF Moves
    <3>2. CASE Panic(r, k)
      <4>1. task' = [task EXCEPT ![r][k] = [task[r][k] EXCEPT !.at = "gone"]]
        BY <3>2 DEF Panic
      <4> QED BY <4>1
    <3> QED BY <1>9, <3>1, <3>2, ObserveSteps DEF Steps
  <2> QED BY <1>2, <2>1, <2>2
<1> QED BY <1>5, <1>6, <1>7, <1>8, <1>9 DEF Next, Work

LEMMA CrashStep == TypeOK /\ PlaceInv /\ CrashExplained /\ [Next]_vars => CrashExplained'
<1> SUFFICES ASSUME TypeOK, PlaceInv, CrashExplained, [Next]_vars, ~alive'
             PROVE  CrashExplained'
  BY DEF CrashExplained
<1>1. CASE UNCHANGED vars
  BY <1>1 DEF vars, CrashExplained
<1>2. ASSUME NEW r \in Requests, NEW k \in Services, Observe(r, k)
      PROVE  CrashExplained'
  <2>1. req[r].pc = "all" /\ Blames
    BY <1>2, ObservePlaced DEF PlaceInv, Here, Placed
  <2>2. UNCHANGED <<hist, req>>
    <3>1. CASE \E t : Moves(r, k, t)
      BY <3>1 DEF Moves
    <3>2. CASE Panic(r, k)
      BY <2>1, <3>2 DEF Panic
    <3> QED BY <1>2, <3>1, <3>2, ObserveSteps DEF Steps
  <2>3. Len(hist) \in req[r].from..Len(hist)
    BY TypeFacts DEF ReqRec
  <2>4. /\ req'[r].pc = "all" /\ Len(hist) \in req'[r].from..Len(hist')
        /\ \/ "opendexd" \in Services /\ hist'[Len(hist)].opendexd.kind = "info"
              /\ Lacks(hist'[Len(hist)].opendexd)
           \/ "bitcoind" \in Services /\ hist'[Len(hist)].bitcoind.kind = "malformed"
    BY <2>1, <2>2, <2>3 DEF Blames, Now
  <2> QED BY <2>4 DEF CrashExplained
<1>3. CASE Change \/ \E r \in Requests : AskAll(r) \/ AskOne(r)
  BY <1>3 DEF Change, AskAll, AskOne
<1>4. ASSUME NEW r \in Requests, NEW k \in Services, Collect(r, k) \/ ReplyOne(r, k)
      PROVE  FALSE
  BY <1>4 DEF Collect, ReplyOne
<1> QED BY <1>1, <1>2, <1>3, <1>4 DEF Next, Work

(* Only a backend of the configuration whose answer lacks a part GetStatus *)
(* relies on brings the process down, and only during a request for all    *)
(* services, whatever else happens meanwhile.                              *)
THEOREM CrashIsExplained == Spec => []CrashExplained
<1>1. TypeOK /\ PlaceInv /\ CrashExplained /\ [Next]_vars
         => (TypeOK /\ PlaceInv /\ CrashExplained)'
  BY TypeStep, PlaceStep, CrashStep
<1>2. Init => TypeOK /\ PlaceInv /\ CrashExplained
  BY TypeInit, PlaceInit DEF Init, CrashExplained
<1> QED BY <1>1, <1>2, PTL DEF Spec

-----------------------------------------------------------------------------
(* What a status says was so during the request.  A call of GetStatus at t *)
(* knows, of the worlds W its request has seen, what its next steps rely   *)
(* on; a status it has left is justified by them; and both stay so when    *)
(* more worlds are seen.  Inside are the steps made once a container runs. *)
Inside == {"info", "connext.info", "health", "btc", "ltc", "lnd.info", "height",
           "current", "total", "eth_syncing", "eth_blockNumber", "getblockchaininfo"}

(* The service a step belongs to.                                          *)
OwnerOf(t) ==
    /\ t.at = "info" => t.svc = "opendexd"
    /\ t.at \in {"connext.info", "health"} => t.svc = "connext"
    /\ t.at \in {"btc", "ltc"} => t.svc = "boltz"
    /\ t.at \in {"lnd.info", "height", "current", "total"} => t.svc = "lnd"
    /\ t.at \in {"mode", "provider", "check", "eth_syncing", "eth_blockNumber"} =>
          t.svc = "geth"
    /\ t.at \in {"conf", "rpchost", "getblockchaininfo"} => t.svc = "bitcoind"

Known(t, W) ==
    /\ t.at \in Inside => \E w \in W : w.cont[t.svc] = "running"
    /\ t.at = "health" /\ "opendexd" \in Services => \E w \in W : w.opendexd.kind # "info"
    /\ t.at = "ltc" /\ t.seen.btc = "up" => \E w \in W : w.boltz.btc = "up"
    /\ t.at = "height" => \E w \in W : /\ w.lnd.kind = "info"
                                       /\ w.lnd.synced = t.seen.synced
                                       /\ w.lnd.height = t.seen.h
    /\ t.at = "total" => \E w \in W : w.progress.current = t.seen.h
    /\ t.at \in {"container", "eth_syncing", "eth_blockNumber"} /\ t.svc = "geth" =>
          \E w \in W : w.provider = "native"
    /\ t.at = "eth_blockNumber" => \E w \in W : w.geth \in {"zero", "synced"}
    /\ t.at \in {"provider", "check"} => /\ t.seen.mode \in Providers \ {"native"}
                                         /\ \E w \in W : w.provider = t.seen.mode
    /\ t.at = "check" => \E w \in W : w.provider = t.seen.provider
    /\ t.at \in {"rpchost", "container", "getblockchaininfo"} /\ t.svc = "bitcoind" =>
          \E w \in W : w.conf.node = "full"
    /\ t.at \in {"container", "getblockchaininfo"} /\ t.svc = "bitcoind" =>
          \E w \in W : w.conf.rpchost = "own"

(* What the text "Synced 100%" stands for.                                 *)
SyncSeen(W) ==
    \E w, x \in W : w.progress.current > 0 /\ w.progress.current >= x.progress.total

Founded(s, text, W) ==
    IF AsksBackend(s, text) THEN Earned(s, text, W) ELSE Unasked(s, text, W)

Justified(s, text, W) ==
    /\ text \in ReadyTexts => Founded(s, text, W)
    /\ text = Synced100 => SyncSeen(W)

Notes(t, W) == OwnerOf(t) /\ Known(t, W) /\ Justified(t.svc, t.status.text, W)

(* What was so since the request came.                                     *)
Since(r) == {hist[i] : i \in req[r].from..Len(hist)}

Begun(r) == /\ req[r].from >= 1
            /\ \A k \in Services : Notes(task[r][k], Since(r))
            /\ \A s \in Services : Justified(s, req[r].result[s].text, Saw(r))

(* The results of a request are justified by what it saw until the last of *)
(* them was collected, its goroutines by what it has seen by now.          *)
EarnInv == \A r \in Requests :
    IF req[r].pc = "idle" THEN \A k \in Services : task[r][k] = NoTask
    ELSE Begun(r)

(* A request that has seen more has earned no less.                        *)
LEMMA EarnedMore ==
    ASSUME NEW s, NEW x, NEW W, NEW V, W \subseteq V, Justified(s, x, W)
    PROVE  Justified(s, x, V)
<1>3. Earned(s, x, W) => Earned(s, x, V)
  BY DEF Earned
<1>4. Unasked(s, x, W) => Unasked(s, x, V)
  BY DEF Unasked
<1>1. Founded(s, x, W) => Founded(s, x, V)
  BY <1>3, <1>4 DEF Founded
<1>2. SyncSeen(W) => SyncSeen(V)
  BY DEF SyncSeen
<1> QED BY <1>1, <1>2 DEF Justified

LEMMA KnownMore ==
    ASSUME NEW t, NEW W, NEW V, W \subseteq V, Known(t, W)
    PROVE  Known(t, V)
BY DEF Known

LEMMA NotesMore ==
    ASSUME NEW t, NEW W, NEW V, W \subseteq V, Notes(t, W)
    PROVE  Notes(t, V)
BY EarnedMore, KnownMore DEF Notes

(* A text that promises nothing needs no reason.                           *)
LEMMA Unpretentious ==
    ASSUME NEW s, NEW W, NEW x, x \notin ReadyTexts, x # Synced100
    PROVE  Justified(s, x, W)
BY DEF Justified

(* The ways a step goes on.                                                *)
LEMMA FinishNotes ==
    ASSUME TypeOK, NEW r \in Requests, NEW k \in Services, NEW st, Finish(r, k, st),
           NEW W, Justified(task[r][k].svc, st.text, W)
    PROVE  Notes(task'[r][k], W)
<1>1. task[r][k] \in TaskRec
  BY TaskType
<1>2. task'[r][k] = [task[r][k] EXCEPT !.at = "send", !.status = st, !.seen = Seen0]
  BY TypeFacts DEF Finish
<1>3. /\ task'[r][k].at = "send" /\ task'[r][k].svc = task[r][k].svc
      /\ task'[r][k].status = st
  BY <1>1, <1>2 DEF TaskRec
<1> QED BY <1>3 DEF Notes, OwnerOf, Known, Inside

LEMMA SaysNotes ==
    ASSUME TypeOK, NEW r \in Requests, NEW k \in Services, NEW x, Finish(r, k, Plain(x)),
           NEW W, Justified(task[r][k].svc, x, W)
    PROVE  Notes(task'[r][k], W)
<1>1. Plain(x).text = x
  BY DEF Plain
<1> QED BY <1>1, FinishNotes

(* A call that goes on to label, with what it has seen.                    *)
GoesOn(r, k, label, seen) ==
    /\ task'[r][k].at = label /\ task'[r][k].svc = task[r][k].svc
    /\ task'[r][k].seen = seen /\ task'[r][k].status = task[r][k].status

LEMMA GotoGoesOn ==
    ASSUME TypeOK, NEW r \in Requests, NEW k \in Services, NEW label, Goto(r, k, label)
    PROVE  GoesOn(r, k, label, task[r][k].seen)
<1>1. task[r][k] \in TaskRec
  BY TaskType
<1>2. task'[r][k] = [task[r][k] EXCEPT !.at = label]
  BY TypeFacts DEF Goto
<1> QED BY <1>1, <1>2 DEF TaskRec, GoesOn

LEMMA GotoWithGoesOn ==
    ASSUME TypeOK, NEW r \in Requests, NEW k \in Services, NEW label, NEW seen,
           GotoWith(r, k, label, seen)
    PROVE  GoesOn(r, k, label, seen)
<1>1. task[r][k] \in TaskRec
  BY TaskType
<1>2. task'[r][k] = [task[r][k] EXCEPT !.at = label, !.seen = seen]
  BY TypeFacts DEF GotoWith
<1> QED BY <1>1, <1>2 DEF TaskRec, GoesOn

LEMMA PanicNotes ==
    ASSUME TypeOK, NEW r \in Requests, NEW k \in Services, NEW W,
           Notes(task[r][k], W), task' = [task EXCEPT ![r][k].at = "gone"]
    PROVE  Notes(task'[r][k], W)
<1>1. task[r][k] \in TaskRec
  BY TaskType
<1>2. task'[r][k] = [task[r][k] EXCEPT !.at = "gone"]
  BY TypeFacts
<1>3. /\ task'[r][k].at = "gone" /\ task'[r][k].svc = task[r][k].svc
      /\ task'[r][k].status = task[r][k].status
  BY <1>1, <1>2 DEF TaskRec
<1> QED BY <1>3 DEF Notes, OwnerOf, Known, Inside

-----------------------------------------------------------------------------
(* Step by step, W being the worlds seen with the present one among them.  *)
LEMMA StartNotes ==
    ASSUME TypeOK, NEW r \in Requests, NEW k \in Services, NEW W,
           Start(r, k)
    PROVE  Notes(task'[r][k], W)
<1> DEFINE s == task[r][k].svc
<1>1. task[r][k] \in TaskRec
  BY TaskType
<1>2. task'[r][k] = [task[r][k] EXCEPT !.at = First(s), !.setup = Now.setup,
                        !.status = IF s = "proxy" THEN Plain("Ready") ELSE NoStatus]
  BY TypeFacts DEF Start
<1>3. /\ task'[r][k].at = First(s) /\ task'[r][k].svc = s
      /\ task'[r][k].status = IF s = "proxy" THEN Plain("Ready") ELSE NoStatus
  BY <1>1, <1>2 DEF TaskRec
<1> HIDE DEF s
<1>4. CASE s = "proxy"
  <2>1. task'[r][k].at = "send" /\ task'[r][k].status.text = "Ready"
    BY <1>3, <1>4 DEF First, Plain
  <2>2. Founded("proxy", "Ready", W)
    BY DEF Founded, AsksBackend, Unasked
  <2>3. Justified(s, "Ready", W)
    BY <1>4, <2>2 DEF Justified, Synced100
  <2> QED BY <1>3, <2>1, <2>3 DEF Notes, OwnerOf, Known, Inside
<1>5. CASE s # "proxy"
  <2>1. task'[r][k].status = NoStatus /\ NoStatus.text = ""
    BY <1>3, <1>5 DEF NoStatus, Plain
  <2>2. Justified(s, "", W)
    BY Unpretentious DEF ReadyTexts, Synced100
  <2>3. /\ First(s) \in {"mode", "conf", "container"}
        /\ First(s) = "mode" => s = "geth"
        /\ First(s) = "conf" => s = "bitcoind"
        /\ First(s) = "container" => s # "geth" /\ s # "bitcoind"
    BY <1>5 DEF First
  <2> QED BY <1>3, <2>1, <2>2, <2>3 DEF Notes, OwnerOf, Known, Inside
<1> QED BY <1>4, <1>5

LEMMA ContainerNotes ==
    ASSUME TypeOK, NEW r \in Requests, NEW k \in Services, NEW W, Now \in W, Here(r, k),
           Notes(task[r][k], W), Container(r, k)
    PROVE  Notes(task'[r][k], W)
<1> DEFINE t == task[r][k]
           s == task[r][k].svc
<1>1. t.at = "container" /\ OwnerOf(t) /\ Known(t, W) /\ Justified(s, t.status.text, W)
  BY DEF Container, At, Notes
<1>2. s \in {"opendexd", "connext", "boltz", "lnd", "geth", "bitcoind", "arby", "webui"}
  BY <1>1, ServicesKnown DEF Here, Place, Names
<1>3. CASE s \in {"arby", "webui"} /\ Now.cont[s] = "running" /\ Finish(r, k, Plain("Ready"))
  <2>1. Founded(s, "Ready", W)
    BY <1>3 DEF Founded, AsksBackend, Unasked
  <2>2. Justified(s, "Ready", W)
    BY <2>1 DEF Justified, Synced100
  <2> QED BY <1>3, <2>2, SaysNotes
<1>4. CASE s \notin {"arby", "webui"} /\ Now.cont[s] = "running"
           /\ Goto(r, k, AfterContainer(s))
  <2>1. GoesOn(r, k, AfterContainer(s), t.seen)
    BY <1>4, GotoGoesOn
  <2> DEFINE u == task'[r][k]
  <2>2. u.svc = s /\ u.at = AfterContainer(s) /\ u.status = t.status
    BY <2>1 DEF GoesOn
  <2>3. OwnerOf(u)
    BY <1>2, <1>4, <2>2 DEF OwnerOf, AfterContainer
  <2>4. \E w \in W : w.cont[s] = "running"
    BY <1>4
  <2>5. /\ AfterContainer(s) \notin {"ltc", "height", "total", "eth_blockNumber",
                                     "provider", "check", "container"}
        /\ AfterContainer(s) = "health" => "opendexd" \notin Services
        /\ AfterContainer(s) = "eth_syncing" => s = "geth"
        /\ AfterContainer(s) = "getblockchaininfo" => s = "bitcoind"
    BY <1>2, <1>4 DEF AfterContainer
  <2>6. /\ s = "geth" => \E w \in W : w.provider = "native"
        /\ s = "bitcoind" => /\ \E w \in W : w.conf.node = "full"
                             /\ \E w \in W : w.conf.rpchost = "own"
    BY <1>1 DEF Known
  <2> HIDE DEF u
  <2>7. Known(u, W)
    BY <2>2, <2>4, <2>5, <2>6 DEF Known
  <2> QED BY <1>1, <2>2, <2>3, <2>7 DEF Notes, u
<1>5. CASE Finish(r, k, Plain("Waiting for sync"))
  <2>1. Justified(s, "Waiting for sync", W)
    BY Unpretentious DEF ReadyTexts, Synced100
  <2> QED BY <1>5, <2>1, SaysNotes
<1>6. CASE Finish(r, k, NotRunning(s, Now.cont[s]))
  <2>1. PICK x \in {"Container exited", "Disabled", "Container missing"} :
           NotRunning(s, Now.cont[s]) = Plain(x)
    BY Zenon DEF NotRunning
  <2>2. Justified(s, x, W)
    BY Unpretentious DEF ReadyTexts, Synced100
  <2> QED BY <1>6, <2>1, <2>2, SaysNotes
<1> QED BY <1>3, <1>4, <1>5, <1>6 DEF Container

LEMMA XudGetInfoNotes ==
    ASSUME TypeOK, NEW r \in Requests, NEW k \in Services, NEW W, Now \in W,
           Notes(task[r][k], W), XudGetInfo(r, k)
    PROVE  Notes(task'[r][k], W)
<1> DEFINE i == Now.opendexd
<1>1. /\ task[r][k].svc = "opendexd" /\ \E w \in W : w.cont["opendexd"] = "running"
      /\ Justified(task[r][k].svc, task[r][k].status.text, W)
  BY DEF XudGetInfo, At, Notes, OwnerOf, Known, Inside
<1>2. i \in XudInfo
  BY NowType DEF World
<1>3. \/ Finish(r, k, Plain("Error")) \/ Finish(r, k, Plain("Starting..."))
      \/ Goto(r, k, "nodekey") \/ Panic(r, k)
      \/ i.kind = "info" /\ Finish(r, k, XudStatus(i))
  BY <1>2 DEF XudGetInfo, XudInfo
<1>4. Justified("opendexd", "Error", W) /\ Justified("opendexd", "Starting...", W)
  BY Unpretentious DEF ReadyTexts, Synced100
<1>5. CASE Goto(r, k, "nodekey")
  <2>1. GoesOn(r, k, "nodekey", task[r][k].seen)
    BY <1>5, GotoGoesOn
  <2> QED BY <1>1, <2>1 DEF GoesOn, Notes, OwnerOf, Known, Inside
<1>6. CASE Panic(r, k)
  BY <1>6, PanicNotes DEF Panic
<1>7. CASE i.kind = "info" /\ Finish(r, k, XudStatus(i))
  <2>1. XudStatus(i).text \in {"Ready", "Waiting for channels", "Waiting for"}
    BY DEF XudStatus, Plain, WaitingFor
  <2>2. XudStatus(i).text = "Ready" => {i.btc, i.ltc, i.connext} = {"Ready"}
    <3> DEFINE said == [lndbtc |-> i.btc, lndltc |-> i.ltc, connext |-> i.connext]
               late == {p \in DOMAIN said : said[p] # "Ready"}
    <3>1. \/ late = {}
          \/ XudStatus(i) \in {Plain("Waiting for channels"), WaitingFor(late)}
      BY Zenon DEF XudStatus
    <3>2. /\ Plain("Waiting for channels").text # "Ready"
          /\ WaitingFor(late).text # "Ready"
      BY DEF Plain, WaitingFor
    <3>3. late = {} => i.btc = "Ready" /\ i.ltc = "Ready" /\ i.connext = "Ready"
      OBVIOUS
    <3> HIDE DEF late
    <3> QED BY <3>1, <3>2, <3>3
  <2>3. XudStatus(i).text = "Ready" => Founded("opendexd", "Ready", W)
    BY <1>1, <1>7, <2>2 DEF Founded, AsksBackend, Earned, AllSaidReady
  <2>4. Justified("opendexd", XudStatus(i).text, W)
    BY <2>1, <2>3 DEF Justified, ReadyTexts, Synced100
  <2> QED BY <1>1, <1>7, <2>4, FinishNotes
<1> QED BY <1>1, <1>3, <1>4, <1>5, <1>6, <1>7, SaysNotes

LEMMA StatNodekeyNotes ==
    ASSUME TypeOK, NEW r \in Requests, NEW k \in Services, NEW W, StatNodekey(r, k)
    PROVE  Notes(task'[r][k], W)
<1>1. \A s : Justified(s, "Wallet locked", W) /\ Justified(s, "Wallet missing", W)
  BY Unpretentious DEF ReadyTexts, Synced100
<1>2. Finish(r, k, Plain("Wallet locked")) \/ Finish(r, k, Plain("Wallet missing"))
  BY DEF StatNodekey
<1> QED BY <1>1, <1>2, SaysNotes

LEMMA ConnextGetInfoNotes ==
    ASSUME TypeOK, NEW r \in Requests, NEW k \in Services, NEW W, Now \in W, Here(r, k),
           Notes(task[r][k], W), ConnextGetInfo(r, k)
    PROVE  Notes(task'[r][k], W)
<1> DEFINE i == Now.opendexd
           t == task[r][k]
<1>1. /\ t.svc = "connext" /\ \E w \in W : w.cont["connext"] = "running"
      /\ "opendexd" \in Services /\ Justified(t.svc, t.status.text, W)
  BY DEF ConnextGetInfo, At, Notes, OwnerOf, Known, Inside, Here, Place
<1>2. i.connext \in Said
  BY NowType DEF World, XudInfo
<1>3. \/ i.kind # "info" /\ Goto(r, k, "health")
      \/ Panic(r, k)
      \/ i.kind = "info" /\ Finish(r, k, Plain(i.connext))
  BY DEF ConnextGetInfo
<1>4. CASE i.kind # "info" /\ Goto(r, k, "health")
  <2>1. GoesOn(r, k, "health", t.seen)
    BY <1>4, GotoGoesOn
  <2>2. \E w \in W : w.opendexd.kind # "info"
    BY <1>4
  <2> QED BY <1>1, <2>1, <2>2 DEF GoesOn, Notes, OwnerOf, Known, Inside
<1>5. CASE Panic(r, k)
  BY <1>5, PanicNotes DEF Panic
<1>6. CASE i.kind = "info" /\ Finish(r, k, Plain(i.connext))
  <2>1. i.connext = "Ready" => Founded("connext", "Ready", W)
    BY <1>1, <1>6 DEF Founded, AsksBackend, Earned
  <2>2. i.connext # "Ready" => i.connext \notin ReadyTexts
    BY <1>2 DEF Said, ReadyTexts
  <2>3. i.connext # Synced100
    BY <1>2 DEF Said, Synced100
  <2>4. Justified("connext", i.connext, W)
    BY <2>1, <2>2, <2>3 DEF Justified
  <2> QED BY <1>1, <1>6, <2>4, SaysNotes
<1> QED BY <1>3, <1>4, <1>5, <1>6

LEMMA IsHealthyNotes ==
    ASSUME TypeOK, NEW r \in Requests, NEW k \in Services, NEW W, Now \in W,
           Notes(task[r][k], W), IsHealthy(r, k)
    PROVE  Notes(task'[r][k], W)
<1>1. /\ task[r][k].svc = "connext" /\ \E w \in W : w.cont["connext"] = "running"
      /\ "opendexd" \in Services => \E w \in W : w.opendexd.kind # "info"
  BY DEF IsHealthy, At, Notes, OwnerOf, Known, Inside
<1>2. Justified("connext", "Starting...", W)
  BY Unpretentious DEF ReadyTexts, Synced100
<1>3. Now.connext => Founded("connext", "Ready", W)
  BY <1>1 DEF Founded, AsksBackend, Earned
<1>4. Now.connext => Justified("connext", "Ready", W)
  BY <1>3 DEF Justified, Synced100
<1>5. \/ Now.connext /\ Finish(r, k, Plain("Ready"))
      \/ Finish(r, k, Plain("Starting..."))
  BY DEF IsHealthy
<1> QED BY <1>1, <1>2, <1>4, <1>5, SaysNotes

LEMMA BoltzNotes ==
    ASSUME TypeOK, NEW r \in Requests, NEW k \in Services, NEW W, Now \in W,
           Notes(task[r][k], W), ExecBtc(r, k) \/ ExecLtc(r, k)
    PROVE  Notes(task'[r][k], W)
<1> DEFINE t == task[r][k]
<1>1. /\ t.svc = "boltz" /\ \E w \in W : w.cont["boltz"] = "running"
      /\ Justified(t.svc, t.status.text, W)
  BY DEF ExecBtc, ExecLtc, At, Notes, OwnerOf, Known, Inside
<1>2. CASE ExecBtc(r, k)
  <2> DEFINE seen == [Seen0 EXCEPT !.btc = Now.boltz.btc]
  <2>1. seen.btc = Now.boltz.btc
    BY DEF Seen0
  <2>2. seen.btc = "up" => \E w \in W : w.boltz.btc = "up"
    BY <2>1
  <2>3. GoesOn(r, k, "ltc", seen)
    BY <1>2, GotoWithGoesOn DEF ExecBtc
  <2> HIDE DEF seen
  <2> QED BY <1>1, <2>2, <2>3 DEF GoesOn, Notes, OwnerOf, Known, Inside
<1>3. CASE ExecLtc(r, k)
  <2>1. \/ t.seen.btc = "up" /\ Now.boltz.ltc = "up" /\ Finish(r, k, Plain("Ready"))
        \/ Finish(r, k, Plain("btc, ltc up or down"))
    BY <1>3 DEF ExecLtc
  <2>2. t.seen.btc = "up" => \E w \in W : w.boltz.btc = "up"
    BY <1>3 DEF ExecLtc, At, Notes, Known
  <2>3. t.seen.btc = "up" /\ Now.boltz.ltc = "up" => Founded("boltz", "Ready", W)
    BY <1>1, <2>2 DEF Founded, AsksBackend, Earned
  <2>4. t.seen.btc = "up" /\ Now.boltz.ltc = "up" => Justified("boltz", "Ready", W)
    BY <2>3 DEF Justified, Synced100
  <2>5. Justified("boltz", "btc, ltc up or down", W)
    BY Unpretentious DEF ReadyTexts, Synced100
  <2> QED BY <1>1, <2>1, <2>4, <2>5, SaysNotes
<1> QED BY <1>2, <1>3

-----------------------------------------------------------------------------
(* lnd.                                                                    *)
LEMMA SyncingTextIs ==
    ASSUME NEW c, NEW n
    PROVE  \/ SyncingText(c, n).text = "Syncing"
           \/ SyncingText(c, n).text = Synced100 /\ (IF n < c THEN c ELSE n) = c
              /\ (IF n < c THEN c ELSE n) > 0
BY DEF SyncingText, Plain, Syncing

LEMMA LndGetInfoNotes ==
    ASSUME TypeOK, NEW r \in Requests, NEW k \in Services, NEW W, Now \in W,
           Notes(task[r][k], W), LndGetInfo(r, k)
    PROVE  Notes(task'[r][k], W)
<1> DEFINE t == task[r][k]
           seen == [Seen0 EXCEPT !.synced = Now.lnd.synced, !.h = Now.lnd.height]
<1>1. /\ t.svc = "lnd" /\ \E w \in W : w.cont["lnd"] = "running"
      /\ Justified(t.svc, t.status.text, W)
  BY DEF LndGetInfo, At, Notes, OwnerOf, Known, Inside
<1>2. \/ Finish(r, k, Plain("Error")) \/ Finish(r, k, Plain("Wallet locked"))
      \/ Now.lnd.kind = "info" /\ GotoWith(r, k, "height", seen)
      \/ Goto(r, k, "current")
  BY Zenon DEF LndGetInfo
<1>3. Justified("lnd", "Error", W) /\ Justified("lnd", "Wallet locked", W)
  BY Unpretentious DEF ReadyTexts, Synced100
<1>4. CASE Now.lnd.kind = "info" /\ GotoWith(r, k, "height", seen)
  <2>1. seen.synced = Now.lnd.synced /\ seen.h = Now.lnd.height
    BY DEF Seen0
  <2>2. GoesOn(r, k, "height", seen)
    BY <1>4, GotoWithGoesOn
  <2>3. \E w \in W : /\ w.lnd.kind = "info" /\ w.lnd.synced = seen.synced
                     /\ w.lnd.height = seen.h
    BY <1>4, <2>1
  <2> HIDE DEF seen
  <2> QED BY <1>1, <2>2, <2>3 DEF GoesOn, Notes, OwnerOf, Known, Inside
<1>5. CASE Goto(r, k, "current")
  <2>1. GoesOn(r, k, "current", t.seen)
    BY <1>5, GotoGoesOn
  <2> QED BY <1>1, <2>1 DEF GoesOn, Notes, OwnerOf, Known, Inside
<1> QED BY <1>1, <1>2, <1>3, <1>4, <1>5, SaysNotes

LEMMA CurrentHeightNotes ==
    ASSUME TypeOK, NEW r \in Requests, NEW k \in Services, NEW W, Now \in W,
           Notes(task[r][k], W), CurrentHeight(r, k)
    PROVE  Notes(task'[r][k], W)
<1> DEFINE seen == task[r][k].seen
<1>1. /\ task[r][k].svc = "lnd" /\ \E w \in W : w.cont["lnd"] = "running"
      /\ \E w \in W : /\ w.lnd.kind = "info" /\ w.lnd.synced = seen.synced
                      /\ w.lnd.height = seen.h
  BY DEF CurrentHeight, At, Notes, OwnerOf, Known, Inside
<1>2. PICK h \in {0, Now.newBlock} : Finish(r, k, LndVerdict(seen.synced, seen.h, h))
  BY DEF CurrentHeight
<1>3. seen.synced \in BOOLEAN /\ seen.h \in Int /\ h \in Int
  BY TaskType, NowType, StatusBounds DEF TaskRec, Seen, World, Height
<1>4. PICK x : x = LndVerdict(seen.synced, seen.h, h)
  OBVIOUS
<1> HIDE DEF seen
<1>5. \/ x.text = "Syncing"
      \/ x.text = "Ready" /\ (seen.synced \/ (h > 0 /\ seen.h <= h))
  <2>1. CASE h > 0 /\ seen.h <= h
    BY <1>4, <2>1 DEF LndVerdict, Plain
  <2>2. CASE h > 0 /\ ~(seen.h <= h)
    <3>1. x = SyncingText(h, seen.h)
      BY <1>4, <2>2 DEF LndVerdict
    <3>2. ~(seen.h < h) /\ seen.h # h
      BY <1>3, <2>2
    <3> QED BY <3>1, <3>2, SyncingTextIs
  <2>3. CASE ~(h > 0)
    BY <1>3, <1>4, <2>3 DEF LndVerdict, Plain
  <2> QED BY <2>1, <2>2, <2>3
<1>6. x.text = "Ready" => Founded("lnd", "Ready", W)
  <2>1. h > 0 => h = Now.newBlock
    BY <1>2
  <2>2. x.text = "Ready" => seen.synced \/ (Now.newBlock > 0 /\ seen.h <= Now.newBlock)
    BY <1>5, <2>1
  <2> QED BY <1>1, <2>2 DEF Founded, AsksBackend, Earned
<1>7. Justified("lnd", x.text, W)
  BY <1>5, <1>6 DEF Justified, ReadyTexts, Synced100
<1> QED BY <1>1, <1>2, <1>4, <1>7, FinishNotes DEF seen

LEMMA ReadCurrentNotes ==
    ASSUME TypeOK, NEW r \in Requests, NEW k \in Services, NEW W, Now \in W,
           Notes(task[r][k], W), ReadCurrent(r, k)
    PROVE  Notes(task'[r][k], W)
<1> DEFINE t == task[r][k]
           seen == [Seen0 EXCEPT !.h = Now.progress.current]
<1>1. /\ t.svc = "lnd" /\ \E w \in W : w.cont["lnd"] = "running"
      /\ Justified(t.svc, t.status.text, W)
  BY DEF ReadCurrent, At, Notes, OwnerOf, Known, Inside
<1>2. seen.h = Now.progress.current
  BY DEF Seen0
<1>3. GoesOn(r, k, "total", seen)
  BY GotoWithGoesOn DEF ReadCurrent
<1>4. \E w \in W : w.progress.current = seen.h
  BY <1>2
<1> HIDE DEF seen
<1> QED BY <1>1, <1>3, <1>4 DEF GoesOn, Notes, OwnerOf, Known, Inside

LEMMA ReadTotalNotes ==
    ASSUME TypeOK, NEW r \in Requests, NEW k \in Services, NEW W, Now \in W,
           Notes(task[r][k], W), ReadTotal(r, k)
    PROVE  Notes(task'[r][k], W)
<1> DEFINE c == task[r][k].seen.h
           n == Now.progress.total
<1>1. PICK w \in W : w.progress.current = c
  BY DEF ReadTotal, At, Notes, Known
<1>2. c \in Int /\ n \in Int
  BY TaskType, NowType, StatusBounds DEF TaskRec, Seen, World, Height
<1>3. PICK x : x = SyncingText(c, n)
  OBVIOUS
<1> HIDE DEF c, n
<1>4. x.text = "Syncing" \/ (x.text = Synced100 /\ c > 0 /\ c >= n)
  BY <1>2, <1>3, SyncingTextIs
<1>5. c > 0 /\ c >= n => SyncSeen(W)
  BY <1>1 DEF SyncSeen, n
<1>6. Justified(task[r][k].svc, x.text, W)
  BY <1>4, <1>5 DEF Justified, ReadyTexts, Synced100
<1> QED BY <1>3, <1>6, FinishNotes DEF ReadTotal, c, n

-----------------------------------------------------------------------------
(* geth.                                                                   *)
LEMMA ReadyTextIs ==
    ASSUME NEW m
    PROVE  /\ ReadyText(m) \in ReadyTexts /\ ReadyText(m) # "Ready"
           /\ ReadyText(m) # Synced100
BY DEF ReadyText, ReadyTexts, Synced100

LEMMA ProviderIs ==
    ASSUME NEW W, Now \in W, Provider # "unset"
    PROVE  \E w \in W : w.provider = Provider
BY DEF Provider

LEMMA GetModeNotes ==
    ASSUME TypeOK, NEW r \in Requests, NEW k \in Services, NEW W, Now \in W,
           Notes(task[r][k], W), GetMode(r, k)
    PROVE  Notes(task'[r][k], W)
<1> DEFINE t == task[r][k]
           seen == [Seen0 EXCEPT !.mode = Provider]
<1>1. t.svc = "geth" /\ Justified(t.svc, t.status.text, W)
  BY DEF GetMode, At, Notes, OwnerOf
<1>2. \/ Finish(r, k, Plain("Error"))
      \/ Provider = "native" /\ Goto(r, k, "container")
      \/ Provider \notin {"native", "unset"} /\ GotoWith(r, k, "provider", seen)
  BY DEF GetMode
<1>3. Justified("geth", "Error", W)
  BY Unpretentious DEF ReadyTexts, Synced100
<1>4. CASE Provider = "native" /\ Goto(r, k, "container")
  <2>1. GoesOn(r, k, "container", t.seen)
    BY <1>4, GotoGoesOn
  <2>2. \E w \in W : w.provider = "native"
    BY <1>4, ProviderIs
  <2> QED BY <1>1, <2>1, <2>2 DEF GoesOn, Notes, OwnerOf, Known, Inside
<1>5. CASE Provider \notin {"native", "unset"} /\ GotoWith(r, k, "provider", seen)
  <2>1. seen.mode = Provider
    BY DEF Seen0
  <2>2. GoesOn(r, k, "provider", seen)
    BY <1>5, GotoWithGoesOn
  <2>3. Provider \in Providers \ {"native"}
    BY <1>5, NowType DEF Provider, World
  <2>4. \E w \in W : w.provider = seen.mode
    BY <1>5, <2>1, ProviderIs
  <2> HIDE DEF seen
  <2> QED BY <1>1, <2>1, <2>2, <2>3, <2>4 DEF GoesOn, Notes, OwnerOf, Known, Inside
<1> QED BY <1>1, <1>2, <1>3, <1>4, <1>5, SaysNotes

LEMMA GetProviderNotes ==
    ASSUME TypeOK, NEW r \in Requests, NEW k \in Services, NEW W, Now \in W,
           Notes(task[r][k], W), GetProvider(r, k)
    PROVE  Notes(task'[r][k], W)
<1> DEFINE t == task[r][k]
           seen == [t.seen EXCEPT !.provider = Provider]
<1>1. /\ t.svc = "geth" /\ Justified(t.svc, t.status.text, W)
      /\ t.seen.mode \in Providers \ {"native"} /\ \E w \in W : w.provider = t.seen.mode
  BY DEF GetProvider, At, Notes, OwnerOf, Known
<1>2. \/ Finish(r, k, Plain("No provider"))
      \/ Provider # "unset" /\ GotoWith(r, k, "check", seen)
  BY DEF GetProvider
<1>3. Justified("geth", "No provider", W)
  BY Unpretentious DEF ReadyTexts, Synced100
<1>4. CASE Provider # "unset" /\ GotoWith(r, k, "check", seen)
  <2>1. t.seen \in Seen
    BY TaskType DEF TaskRec
  <2>2. seen.mode = t.seen.mode /\ seen.provider = Provider
    BY <2>1 DEF Seen
  <2>3. GoesOn(r, k, "check", seen)
    BY <1>4, GotoWithGoesOn
  <2>4. \E w \in W : w.provider = seen.provider
    BY <1>4, <2>2, ProviderIs
  <2> HIDE DEF seen
  <2> QED BY <1>1, <2>2, <2>3, <2>4 DEF GoesOn, Notes, OwnerOf, Known, Inside
<1> QED BY <1>1, <1>2, <1>3, <1>4, SaysNotes

LEMMA CheckEthRpcNotes ==
    ASSUME TypeOK, NEW r \in Requests, NEW k \in Services, NEW W, Now \in W,
           Notes(task[r][k], W), CheckEthRpc(r, k)
    PROVE  Notes(task'[r][k], W)
<1> DEFINE seen == task[r][k].seen
<1>1. /\ task[r][k].svc = "geth"
      /\ seen.mode \in Providers \ {"native"} /\ \E w \in W : w.provider = seen.mode
      /\ \E w \in W : w.provider = seen.provider
  BY DEF CheckEthRpc, At, Notes, OwnerOf, Known
<1>2. \/ Now.eth[seen.provider] = "up" /\ Finish(r, k, Plain(ReadyText(seen.mode)))
      \/ Finish(r, k, Plain("Unavailable"))
  BY DEF CheckEthRpc
<1> HIDE DEF seen
<1>3. Now.eth[seen.provider] = "up" => Founded("geth", ReadyText(seen.mode), W)
  <2>1. ReadyText(seen.mode) # "Ready"
    BY ReadyTextIs
  <2>2. Now.eth[seen.provider] = "up" => \E x, w \in W : w.eth[x.provider] = "up"
    BY <1>1
  <2> QED BY <1>1, <2>1, <2>2 DEF Founded, AsksBackend, Earned
<1>4. Now.eth[seen.provider] = "up" => Justified("geth", ReadyText(seen.mode), W)
  BY <1>3, ReadyTextIs DEF Justified
<1>5. Justified("geth", "Unavailable", W)
  BY Unpretentious DEF ReadyTexts, Synced100
<1> QED BY <1>1, <1>2, <1>4, <1>5, SaysNotes

LEMMA EthSyncingNotes ==
    ASSUME TypeOK, NEW r \in Requests, NEW k \in Services, NEW W, Now \in W,
           Notes(task[r][k], W), EthSyncing(r, k)
    PROVE  Notes(task'[r][k], W)
<1> DEFINE t == task[r][k]
<1>1. /\ t.svc = "geth" /\ Justified(t.svc, t.status.text, W)
      /\ \E w \in W : w.cont["geth"] = "running"
      /\ \E w \in W : w.provider = "native"
  BY DEF EthSyncing, At, Notes, OwnerOf, Known, Inside
<1>2. Now.geth \in {"error", "syncing", "zero", "synced", "hang"}
  BY NowType DEF World
<1>3. \/ Finish(r, k, Plain("Waiting to come up")) \/ Finish(r, k, Plain("Syncing"))
      \/ Now.geth \in {"zero", "synced"} /\ Goto(r, k, "eth_blockNumber")
  BY <1>2 DEF EthSyncing
<1>4. Justified("geth", "Waiting to come up", W) /\ Justified("geth", "Syncing", W)
  BY Unpretentious DEF ReadyTexts, Synced100
<1>5. CASE Now.geth \in {"zero", "synced"} /\ Goto(r, k, "eth_blockNumber")
  <2>1. GoesOn(r, k, "eth_blockNumber", t.seen)
    BY <1>5, GotoGoesOn
  <2>2. \E w \in W : w.geth \in {"zero", "synced"}
    BY <1>5
  <2> QED BY <1>1, <2>1, <2>2 DEF GoesOn, Notes, OwnerOf, Known, Inside
<1> QED BY <1>1, <1>3, <1>4, <1>5, SaysNotes

LEMMA EthBlockNumberNotes ==
    ASSUME TypeOK, NEW r \in Requests, NEW k \in Services, NEW W, Now \in W,
           Notes(task[r][k], W), EthBlockNumber(r, k)
    PROVE  Notes(task'[r][k], W)
<1>1. /\ task[r][k].svc = "geth" /\ \E w \in W : w.cont["geth"] = "running"
      /\ \E w \in W : w.provider = "native"
      /\ \E w \in W : w.geth \in {"zero", "synced"}
  BY DEF EthBlockNumber, At, Notes, OwnerOf, Known, Inside
<1>2. Now.geth \in {"error", "syncing", "zero", "synced", "hang"}
  BY NowType DEF World
<1>3. \/ Finish(r, k, Plain("Waiting to come up"))
      \/ Finish(r, k, Plain("Waiting for sync"))
      \/ Now.geth \in {"syncing", "synced"} /\ Finish(r, k, Plain("Ready"))
  BY <1>2 DEF EthBlockNumber
<1>4. /\ Justified("geth", "Waiting to come up", W)
      /\ Justified("geth", "Waiting for sync", W)
  BY Unpretentious DEF ReadyTexts, Synced100
<1>5. Now.geth \in {"syncing", "synced"} => Founded("geth", "Ready", W)
  BY <1>1 DEF Founded, AsksBackend, Earned
<1>6. Now.geth \in {"syncing", "synced"} => Justified("geth", "Ready", W)
  BY <1>5 DEF Justified, Synced100
<1> QED BY <1>1, <1>3, <1>4, <1>6, SaysNotes

-----------------------------------------------------------------------------
(* bitcoind.                                                               *)
LEMMA GetBackendNodeNotes ==
    ASSUME TypeOK, NEW r \in Requests, NEW k \in Services, NEW W, Now \in W,
           Notes(task[r][k], W), GetBackendNode(r, k)
    PROVE  Notes(task'[r][k], W)
<1> DEFINE t == task[r][k]
<1>1. t.svc = "bitcoind" /\ Justified(t.svc, t.status.text, W)
  BY DEF GetBackendNode, At, Notes, OwnerOf
<1>2. \/ Finish(r, k, Plain("Error"))
      \/ Now.conf.node = "neutrino" /\ Finish(r, k, Plain("Ready (light mode)"))
      \/ Now.conf.node = "full" /\ Goto(r, k, "rpchost")
  BY NowType DEF GetBackendNode, World, Conf
<1>3. Justified("bitcoind", "Error", W)
  BY Unpretentious DEF ReadyTexts, Synced100
<1>4. Now.conf.node = "neutrino" => Founded("bitcoind", "Ready (light mode)", W)
  BY DEF Founded, AsksBackend, Unasked
<1>5. Now.conf.node = "neutrino" => Justified("bitcoind", "Ready (light mode)", W)
  BY <1>4 DEF Justified, Synced100
<1>6. CASE Now.conf.node = "full" /\ Goto(r, k, "rpchost")
  <2>1. GoesOn(r, k, "rpchost", t.seen)
    BY <1>6, GotoGoesOn
  <2>2. \E w \in W : w.conf.node = "full"
    BY <1>6
  <2> QED BY <1>1, <2>1, <2>2 DEF GoesOn, Notes, OwnerOf, Known, Inside
<1> QED BY <1>1, <1>2, <1>3, <1>5, <1>6, SaysNotes

LEMMA GetRpcHostNotes ==
    ASSUME TypeOK, NEW r \in Requests, NEW k \in Services, NEW W, Now \in W,
           Notes(task[r][k], W), GetRpcHost(r, k)
    PROVE  Notes(task'[r][k], W)
<1> DEFINE t == task[r][k]
           x == "Ready (connected to external)"
<1>1. /\ t.svc = "bitcoind" /\ Justified(t.svc, t.status.text, W)
      /\ \E w \in W : w.conf.node = "full"
  BY DEF GetRpcHost, At, Notes, OwnerOf, Known
<1>2. \/ Finish(r, k, Plain("Error"))
      \/ Now.conf.rpchost = "other" /\ Finish(r, k, Plain(x))
      \/ Now.conf.rpchost = "own" /\ Goto(r, k, "container")
  BY DEF GetRpcHost
<1>3. Justified("bitcoind", "Error", W)
  BY Unpretentious DEF ReadyTexts, Synced100
<1>4. Now.conf.rpchost = "other" => Founded("bitcoind", x, W)
  BY <1>1 DEF Founded, AsksBackend, Unasked
<1>5. Now.conf.rpchost = "other" => Justified("bitcoind", x, W)
  BY <1>4 DEF Justified, Synced100
<1>6. CASE Now.conf.rpchost = "own" /\ Goto(r, k, "container")
  <2>1. GoesOn(r, k, "container", t.seen)
    BY <1>6, GotoGoesOn
  <2>2. \E w \in W : w.conf.rpchost = "own"
    BY <1>6
  <2> QED BY <1>1, <2>1, <2>2 DEF GoesOn, Notes, OwnerOf, Known, Inside
<1> QED BY <1>1, <1>2, <1>3, <1>5, <1>6, SaysNotes

LEMMA GetBlockchainInfoNotes ==
    ASSUME TypeOK, NEW r \in Requests, NEW k \in Services, NEW W, Now \in W,
           Notes(task[r][k], W), GetBlockchainInfo(r, k)
    PROVE  Notes(task'[r][k], W)
<1> DEFINE i == Now.bitcoind
<1>1. /\ task[r][k].svc = "bitcoind" /\ \E w \in W : w.cont["bitcoind"] = "running"
      /\ \E w \in W : w.conf.node = "full"
      /\ \E w \in W : w.conf.rpchost = "own"
  BY DEF GetBlockchainInfo, At, Notes, OwnerOf, Known, Inside
<1>2. i \in Chain
  BY NowType DEF World
<1>3. \/ Finish(r, k, Plain("Waiting to come up")) \/ Finish(r, k, Plain("Loading"))
      \/ Panic(r, k) \/ Finish(r, k, ChainStatus(i))
  BY <1>2 DEF GetBlockchainInfo, Chain
<1>4. Justified("bitcoind", "Waiting to come up", W) /\ Justified("bitcoind", "Loading", W)
  BY Unpretentious DEF ReadyTexts, Synced100
<1>5. CASE Panic(r, k)
  BY <1>5, PanicNotes DEF Panic
<1>6. CASE Finish(r, k, ChainStatus(i))
  <2>1. \/ ChainStatus(i).text = "Syncing"
        \/ ChainStatus(i).text = "Ready" /\ i.blocks > 0 /\ i.blocks = i.headers
    BY DEF ChainStatus, Plain, Syncing
  <2>2. i.blocks > 0 /\ i.blocks = i.headers => Founded("bitcoind", "Ready", W)
    BY <1>1 DEF Founded, AsksBackend, Earned
  <2>3. Justified("bitcoind", ChainStatus(i).text, W)
    BY <2>1, <2>2 DEF Justified, ReadyTexts, Synced100
  <2> QED BY <1>1, <1>6, <2>3, FinishNotes
<1> QED BY <1>1, <1>3, <1>4, <1>5, <1>6, SaysNotes

LEMMA ObserveNotes ==
    ASSUME TypeOK, NEW r \in Requests, NEW k \in Services, NEW W, Now \in W, Here(r, k),
           Notes(task[r][k], W), Observe(r, k)
    PROVE  Notes(task'[r][k], W)
BY StartNotes, ContainerNotes, XudGetInfoNotes, StatNodekeyNotes, ConnextGetInfoNotes,
   IsHealthyNotes, BoltzNotes, LndGetInfoNotes, CurrentHeightNotes, ReadCurrentNotes,
   ReadTotalNotes, GetModeNotes, GetProviderNotes, CheckEthRpcNotes, EthSyncingNotes,
   EthBlockNumberNotes, GetBackendNodeNotes, GetRpcHostNotes, GetBlockchainInfoNotes,
   Zenon DEF Observe

-----------------------------------------------------------------------------
LEMMA NothingSaid == ASSUME NEW s, NEW W PROVE Justified(s, NoStatus.text, W)
<1>1. NoStatus.text = ""
  BY DEF NoStatus, Plain
<1> QED BY <1>1, Unpretentious DEF ReadyTexts, Synced100

LEMMA NewTaskNotes ==
    ASSUME NEW W, NEW s PROVE Notes(NoTask, W) /\ Notes(Task(s), W)
<1>1. /\ NoTask.at = "none" /\ NoTask.svc = "none" /\ NoTask.status = NoStatus
      /\ Task(s).at = "start" /\ Task(s).svc = s /\ Task(s).status = NoStatus
  BY DEF NoTask, Task
<1> QED BY <1>1, NothingSaid DEF Notes, OwnerOf, Known, Inside

LEMMA EarnInit == Init => EarnInv
BY DEF Init, EarnInv, Idle

LEMMA NowSeen ==
    ASSUME TypeOK, NEW r \in Requests
    PROVE  Now \in Since(r) /\ Saw(r) \subseteq Since(r)
<1>1. /\ req[r].from \in 0..Len(hist) /\ req[r].upto \in 0..Len(hist)
      /\ Len(hist) \in Nat
  BY TypeFacts DEF ReqRec
<1>2. Len(hist) \in req[r].from..Len(hist)
      /\ req[r].from..req[r].upto \subseteq req[r].from..Len(hist)
  BY <1>1
<1> QED BY <1>2 DEF Now, Since, Saw

(* A step of one request.                                                  *)
LEMMA EarnFrame ==
    ASSUME TypeOK, EarnInv, NEW r \in Requests, NEW k \in Services, UNCHANGED hist,
           req[r].pc # "idle", req'[r].pc # "idle", req'[r].from = req[r].from,
           \A q \in Requests \ {r} : req'[q] = req[q],
           \A s \in Services : Justified(s, req'[r].result[s].text, Saw(r)'),
           NEW t, task' = [task EXCEPT ![r][k] = t], Notes(t, Since(r))
    PROVE  EarnInv'
<1>1. Since(r)' = Since(r)
  BY DEF Since
<1>2. \A j \in Services : Notes(task[r][j], Since(r))
  BY DEF EarnInv, Begun
<1>3. \A j \in Services : task'[r][j] = t \/ task'[r][j] = task[r][j]
  BY TypeFacts
<1>4. Begun(r)'
  BY <1>1, <1>2, <1>3 DEF EarnInv, Begun
<1>5. ASSUME NEW q \in Requests \ {r}
      PROVE  IF req'[q].pc = "idle" THEN \A j \in Services : task'[q][j] = NoTask
             ELSE Begun(q)'
  <2>1. req'[q] = req[q] /\ task'[q] = task[q]
    BY TypeFacts
  <2>2. Since(q)' = Since(q) /\ Saw(q)' = Saw(q)
    BY <2>1 DEF Since, Saw
  <2> QED BY <2>1, <2>2 DEF EarnInv, Begun
<1> QED BY <1>4, <1>5 DEF EarnInv

LEMMA EarnChange == ASSUME TypeOK, EarnInv, Change PROVE EarnInv'
<1>1. PICK w \in Changed(Now) : hist' = Append(hist, w)
  BY DEF Change
<1>2. /\ hist \in Seq(World) /\ w \in World /\ Len(hist) \in Nat /\ UNCHANGED <<req, task>>
  BY ChangedType, NowType, TypeFacts DEF Change
<1>3. Len(hist') = Len(hist) + 1 /\ \A i \in 1..Len(hist) : hist'[i] = hist[i]
  BY <1>1, <1>2
<1>4. ASSUME NEW r \in Requests, req[r].pc # "idle" PROVE Begun(r)'
  <2>1. Begun(r)
    BY <1>4 DEF EarnInv
  <2>2. req[r].from \in 1..Len(hist) /\ req[r].upto \in 0..Len(hist)
    BY <2>1, TypeFacts DEF Begun, ReqRec
  <2>3. /\ \A i \in req[r].from..Len(hist) : /\ hist'[i] = hist[i]
                                             /\ i \in req[r].from..Len(hist')
        /\ \A i \in req[r].from..req[r].upto : hist'[i] = hist[i]
    BY <1>2, <1>3, <2>2
  <2>4. Since(r) \subseteq Since(r)' /\ Saw(r)' = Saw(r)
    BY <1>2, <2>3 DEF Since, Saw
  <2>5. \A k \in Services : Notes(task[r][k], Since(r)')
    BY <2>1, <2>4, NotesMore DEF Begun
  <2> QED BY <1>2, <2>1, <2>4, <2>5 DEF Begun
<1> QED BY <1>2, <1>4 DEF EarnInv

LEMMA EarnAsk ==
    ASSUME TypeOK, EarnInv, NEW r \in Requests, AskAll(r) \/ AskOne(r)
    PROVE  EarnInv'
<1>1. PICK kind \in {"all", "one", "notfound"} :
         req' = [req EXCEPT ![r] = [Idle EXCEPT !.pc = kind, !.from = Len(hist)]]
  BY DEF AskAll, AskOne, Asked
<1>2. /\ req'[r].pc = kind /\ req'[r].from = Len(hist)
      /\ \A s \in Services : req'[r].result[s] = NoStatus
      /\ \A q \in Requests \ {r} : req'[q] = req[q]
  BY <1>1, TypeFacts DEF Idle
<1>3. /\ \A k \in Services : task'[r][k] = NoTask \/ \E s \in Services : task'[r][k] = Task(s)
      /\ \A q \in Requests \ {r} : task'[q] = task[q]
      /\ UNCHANGED hist /\ Len(hist) >= 1
  <2>1. \A k \in Services : task[r][k] = NoTask
    BY DEF AskAll, AskOne, EarnInv
  <2>2. CASE AskAll(r)
    BY <2>2, TypeFacts DEF AskAll, Spawned
  <2>3. CASE AskOne(r)
    BY <2>1, <2>3, TypeFacts DEF AskOne
  <2> QED BY <2>2, <2>3
<1>4. Begun(r)'
  BY <1>2, <1>3, NewTaskNotes, NothingSaid DEF Begun
<1>5. ASSUME NEW q \in Requests \ {r}
      PROVE  IF req'[q].pc = "idle" THEN \A j \in Services : task'[q][j] = NoTask
             ELSE Begun(q)'
  <2>1. Since(q)' = Since(q) /\ Saw(q)' = Saw(q)
    BY <1>2, <1>3 DEF Since, Saw
  <2> QED BY <1>2, <1>3, <2>1 DEF EarnInv, Begun
<1> QED BY <1>2, <1>4, <1>5 DEF EarnInv

LEMMA EarnCollect ==
    ASSUME TypeOK, EarnInv, NEW r \in Requests, NEW k \in Services,
           Collect(r, k) \/ ReplyOne(r, k)
    PROVE  EarnInv'
<1> DEFINE s == task[r][k].svc
           st == task[r][k].status
           t == [task[r][k] EXCEPT !.at = "gone"]
<1>1. req[r] \in ReqRec(hist) /\ task[r][k] \in TaskRec
  BY TypeFacts, TaskType
<1>2. req[r].pc # "idle" /\ UNCHANGED hist /\ task' = [task EXCEPT ![r][k] = t]
  BY DEF Collect, ReplyOne
<1>5. /\ req'[r].pc # "idle" /\ req'[r].from = req[r].from /\ req'[r].upto = Len(hist)
      /\ \A x \in Services : req'[r].result[x] = IF x = s THEN st ELSE req[r].result[x]
  <2>1. CASE Collect(r, k)
    <3>1. PICK n, pc : /\ req'[r] = [req[r] EXCEPT !.n = n, !.upto = Len(hist), !.pc = pc,
                                                   !.result[s] = st]
                       /\ pc \in {"all", "answered"}
      BY <2>1, TypeFacts DEF Collect
    <3> QED BY <1>1, <3>1 DEF ReqRec
  <2>2. CASE ReplyOne(r, k)
    <3>1. req'[r] = [req[r] EXCEPT !.pc = "replied", !.upto = Len(hist), !.result[s] = st]
      BY <2>2, TypeFacts DEF ReplyOne
    <3> QED BY <1>1, <3>1 DEF ReqRec
  <2> QED BY <2>1, <2>2
<1>6. \A q \in Requests \ {r} : req'[q] = req[q]
  BY TypeFacts DEF Collect, ReplyOne
<1>7. Saw(r)' = Since(r)
  BY <1>2, <1>5 DEF Saw, Since
<1>8. Notes(task[r][k], Since(r)) /\ \A x \in Services : Justified(x, req[r].result[x].text, Saw(r))
  BY <1>2 DEF EarnInv, Begun
<1>9. ASSUME NEW x \in Services PROVE Justified(x, req'[r].result[x].text, Saw(r)')
  BY <1>5, <1>7, <1>8, NowSeen, EarnedMore DEF Notes
<1>10. Notes(t, Since(r))
  <2>1. task'[r][k] = t
    BY <1>2, TypeFacts
  <2>2. task' = [task EXCEPT ![r][k].at = "gone"]
    BY DEF Collect, ReplyOne
  <2>3. Notes(task'[r][k], Since(r))
    BY <1>8, <2>2, PanicNotes
  <2> QED BY <2>1, <2>3
<1> HIDE DEF t
<1> QED BY <1>2, <1>5, <1>6, <1>9, <1>10, EarnFrame

LEMMA EarnObserve ==
    ASSUME TypeOK, PlaceInv, EarnInv, NEW r \in Requests, NEW k \in Services, Observe(r, k)
    PROVE  EarnInv'
<1>1. task[r][k].at \in Middle /\ UNCHANGED hist
      /\ \E t : task' = [task EXCEPT ![r][k] = t]
  <2>1. CASE \E t : Moves(r, k, t)
    BY <2>1 DEF Moves
  <2>2. CASE task[r][k].at \in Middle /\ Panic(r, k)
    <3>1. task' = [task EXCEPT ![r][k] = [task[r][k] EXCEPT !.at = "gone"]]
      BY <2>2 DEF Panic
    <3> QED BY <2>2, <3>1 DEF Panic
  <2> QED BY <2>1, <2>2, ObserveSteps DEF Steps
<1>2. PICK t : task' = [task EXCEPT ![r][k] = t]
  BY <1>1
<1>3. task'[r][k] = t
  BY <1>2, TypeFacts
<1>4. req[r].pc # "idle"
  BY <1>1 DEF EarnInv, NoTask, Middle
<1>5. Begun(r)
  BY <1>4 DEF EarnInv
<1>6. Notes(t, Since(r))
  BY <1>3, <1>5, NowSeen, ObserveNotes DEF Begun, PlaceInv, Here
<1>7. req' = req \/ req' = [req EXCEPT ![r] = [req[r] EXCEPT !.pc = "failed"]]
  BY ObserveSteps DEF Steps, Moves, Panic
<1>8. /\ req'[r].pc # "idle" /\ req'[r].from = req[r].from /\ req'[r].upto = req[r].upto
      /\ req'[r].result = req[r].result /\ \A q \in Requests \ {r} : req'[q] = req[q]
  <2>1. CASE req' = req
    BY <1>4, <2>1
  <2>2. CASE req' = [req EXCEPT ![r] = [req[r] EXCEPT !.pc = "failed"]]
    <3>1. req'[r] = [req[r] EXCEPT !.pc = "failed"] /\ req[r] \in ReqRec(hist)
      BY <2>2, TypeFacts
    <3>2. \A q \in Requests \ {r} : req'[q] = req[q]
      BY <2>2, TypeFacts
    <3> QED BY <3>1, <3>2 DEF ReqRec
  <2> QED BY <1>7, <2>1, <2>2
<1>9. Saw(r)' = Saw(r)
  BY <1>1, <1>8 DEF Saw
<1>10. \A s \in Services : Justified(s, req'[r].result[s].text, Saw(r)')
  BY <1>5, <1>8, <1>9 DEF Begun
<1> QED BY <1>1, <1>2, <1>4, <1>6, <1>8, <1>10, EarnFrame

LEMMA EarnStep == TypeOK /\ PlaceInv /\ EarnInv /\ [Next]_vars => EarnInv'
<1> SUFFICES ASSUME TypeOK, PlaceInv, EarnInv, [Next]_vars PROVE EarnInv'
  OBVIOUS
<1>1. CASE UNCHANGED vars
  <2>1. UNCHANGED <<hist, req, task>>
    BY <1>1 DEF vars
  <2> QED BY <2>1 DEF EarnInv, Begun, Since, Saw
<1>2. CASE Next
  BY <1>2, EarnChange, EarnAsk, EarnCollect, EarnObserve DEF Next, Work
<1> QED BY <1>1, <1>2

LEMMA EarnImplies == EarnInv => ReadyIsEarned /\ SyncedIsSynced
<1> SUFFICES ASSUME EarnInv, NEW r \in Requests, NEW s \in Services, Ended(r)
             PROVE  /\ req[r].result[s].text \in ReadyTexts =>
                          Founded(s, req[r].result[s].text, Saw(r))
                    /\ req[r].result[s].text = Synced100 => SyncSeen(Saw(r))
  BY DEF ReadyIsEarned, SyncedIsSynced, SyncSeen, Founded
<1>1. Begun(r)
  BY DEF EarnInv, Ended
<1> QED BY <1>1 DEF Begun, Justified

LEMMA EarnAlways == Spec => []EarnInv
<1>1. Init => TypeOK /\ PlaceInv /\ EarnInv
  BY TypeInit, PlaceInit, EarnInit
<1>2. TypeOK /\ PlaceInv /\ EarnInv /\ [Next]_vars => (TypeOK /\ PlaceInv /\ EarnInv)'
  BY TypeStep, PlaceStep, EarnStep
<1> QED BY <1>1, <1>2, PTL DEF Spec

(* Whatever changes between the observations of a GetStatus and whatever   *)
(* other requests do, a service that asks a backend is reported ready only *)
(* if this request saw that backend say what the text stands for, and its  *)
(* container run where it has one; one that asks nobody, only if its       *)
(* container ran or its configuration was such.                            *)
THEOREM ReadyWasEarned == Spec => []ReadyIsEarned
BY EarnAlways, EarnImplies, PTL

(* lnd is reported as synced only if this request saw the log watcher at a *)
(* height that is not below a total it saw, though perhaps not together.   *)
THEOREM SyncedWasSynced == Spec => []SyncedIsSynced
BY EarnAlways, EarnImplies, PTL
=============================================================================
