--------------------------- MODULE ContractStream ---------------------------
(***************************************************************************)
(* The execution of contract transactions: the calls of Execute on the     *)
(* node (contracts/core/chaincode_support.go), the node's handler of a     *)
(* contract's stream (contracts/core/handler.go) and the shim that runs in *)
(* the contract's container (contracts/shim/handler.go, chaincode.go).     *)
(*                                                                         *)
(* The stream has been launched and both state machines are in the state   *)
(* ready.  Every message is sent by a goroutine of its own                 *)
(* (serialSendAsync), so the two directions of the stream are sets.        *)
(* A message names the call of Execute it belongs to and the number of its *)
(* request; the code knows only the transaction id.                        *)
(***************************************************************************)
EXTENDS Naturals, Sequences, FiniteSets

CONSTANTS
  Callers,      \* the calls of Execute
  Txids, None,
  Environments, \* the calls of Execute and the faults of a behaviour
  MaxRequests   \* bound: requests made by one run of a contract

\* The requests a contract makes, as the events of the node's state machine.
RequestTypes ==
  {"GET_STATE", "PUT_STATE", "DEL_STATE", "INVOKE_CHAINCODE", "GET_TOKEN_BALANCE", "PAY_OUT_TOKEN",
   "OUTCHAIN_ADDRESS", "OUTCHAIN_TRANSACTION", "OUTCHAIN_QUERY",
   "GET_STATE_BY_RANGE", "QUERY_STATE_NEXT", "QUERY_STATE_CLOSE",
   "GET_QUERY_RESULT", "GET_HISTORY_FOR_KEY", "GET_SYSTEM_CONFIG_REQUEST", "GET_CONTRACT_ALL_STATE"}

Messages == [type : RequestTypes \union {"INIT", "TRANSACTION", "COMPLETED", "RESPONSE", "ERROR"},
             run : Callers, n : Nat]

ASSUME StreamAssumption ==
  /\ None \notin Callers /\ None \notin Seq(Messages)
  /\ Environments \subseteq
       [txOf : [Callers -> Txids],   \* a retry has the id of the first try
        types : SUBSET RequestTypes, \* the requests its contracts make
        deploys : SUBSET Callers,    \* the calls that send INIT, the others send TRANSACTION
        called : SUBSET Callers,     \* the calls made for a contract: without a simulator
        faults : SUBSET {"callFails", "dies"}]
  /\ MaxRequests \in Nat

VARIABLES
  env,          \* the environment of this behaviour
  up,           \* the container is running
  \* the node
  exec,         \* where each call of Execute is
  result,       \* the message a call of Execute took from its notifier, or None
  txCtxs,       \* for each transaction the buffer of its responseNotifier, or None
  txidMap,      \* transactions with a request in progress
  loop,         \* processStream: pc, and the message notify is blocked with
  requests,     \* the goroutines that serve requests
  toShim,
  \* the contract's container
  runs,         \* the goroutines that run contracts: pc, requests made, and the request
                \* that is waited for or the answer received
  channels,     \* responseChannel: the run that waits on the transaction's channel
  shim,         \* chatWithPeer: pc, and the message sendChannel is blocked with
  toPeer

nodeVars == <<exec, result, txCtxs, txidMap, loop, requests>>
shimVars == <<runs, channels, shim>>
vars == <<env, up, nodeVars, toShim, shimVars, toPeer>>

TxOf(c) == env.txOf[c]
Tx(m) == TxOf(m.run)
Answer(m, a) == [type |-> a, run |-> m.run, n |-> m.n]

\* Calls, requests and runs are at one of their points, and the channel of a
\* context holds no more than one message.
TypeOK ==
  /\ env \in Environments /\ up \in BOOLEAN
  /\ exec \in [Callers -> {"idle", "found", "sending", "waiting", "returning", "returned", "failed"}]
  /\ result \in [Callers -> Messages \union {None}]
  /\ \A t \in Txids : txCtxs[t] # None => txCtxs[t] \in Seq(Messages) /\ Len(txCtxs[t]) <= 1
  /\ txidMap \subseteq Txids
  /\ loop \in [pc : {"select", "notify", "ended"}, msg : Messages \union {None}, send : BOOLEAN]
  /\ requests \subseteq [pc : {"arrived", "unique", "served", "trigger"}, msg : Messages,
                        answer : {"RESPONSE", "ERROR", None}]
  /\ toShim \subseteq Messages /\ toPeer \subseteq Messages
  /\ runs \in [Callers -> [pc : {"none", "running", "calling", "received", "done"},
                           n : 0..MaxRequests, msg : Messages \union {None}]]
  /\ channels \in [Txids -> Callers \union {None}]
  /\ shim \in [pc : {"select", "sendChannel"}, msg : Messages \union {None}, send : BOOLEAN]

Selecting == [pc |-> "select", msg |-> None, send |-> FALSE]

\* A stream whose contract has registered and been sent READY.
Init ==
  /\ env \in Environments /\ up = TRUE
  /\ exec = [c \in Callers |-> "idle"] /\ result = [c \in Callers |-> None]
  /\ txCtxs = [t \in Txids |-> None] /\ txidMap = {}
  /\ loop = Selecting /\ requests = {} /\ toShim = {}
  /\ runs = [c \in Callers |-> [pc |-> "none", n |-> 0, msg |-> None]]
  /\ channels = [t \in Txids |-> None] /\ shim = Selecting /\ toPeer = {}

-----------------------------------------------------------------------------
(* What the node answers a request of transaction t *)

\* isValidTxSim
ValidTxSim(t) == txCtxs[t] # None /\ \E c \in Callers :
  TxOf(c) = t /\ exec[c] \in {"sending", "waiting", "returning"} /\ c \notin env.called

WithTxSim(t, answers) == IF ValidTxSim(t) THEN answers ELSE {"ERROR"}

\* The payloads are the shim's own, so that Unmarshal does not fail.
enterGetSystemConfig(t) == {"RESPONSE"}
enterGetContractAllState(t) == WithTxSim(t, {"RESPONSE", "ERROR"})
handleGetTokenBalance(t) == WithTxSim(t, {"RESPONSE"})
handlePayOutToken(t) == WithTxSim(t, {"RESPONSE"})
handleGetState(t) == WithTxSim(t, {"RESPONSE"})
\* No handler creates a query iterator.
handleQueryStateNext(t) == {"ERROR"}
handleQueryStateClose(t) == IF txCtxs[t] = None THEN {"ERROR"} ELSE {"RESPONSE"}
enterOutChainAddress(t) == WithTxSim(t, {"RESPONSE", "ERROR"})
enterOutChainTransaction(t) == WithTxSim(t, {"RESPONSE", "ERROR"})
enterOutChainQuery(t) == WithTxSim(t, {"RESPONSE", "ERROR"})
\* SetState and DeleteState succeed; Launch or Execute of another contract may fail.
\* The transaction has a channel, so that getTxContextForMessage is isValidTxSim.
enterBusyState(type, t) ==
  WithTxSim(t, IF type = "INVOKE_CHAINCODE" /\ "callFails" \in env.faults
               THEN {"RESPONSE", "ERROR"} ELSE {"RESPONSE"})

BusyRequests == {"PUT_STATE", "DEL_STATE", "INVOKE_CHAINCODE"}
Unanswered == {"GET_STATE_BY_RANGE", "GET_QUERY_RESULT", "GET_HISTORY_FOR_KEY"}

Answers(type, t) ==
  CASE type = "GET_SYSTEM_CONFIG_REQUEST" -> enterGetSystemConfig(t)
    [] type = "GET_CONTRACT_ALL_STATE" -> enterGetContractAllState(t)
    [] type = "GET_TOKEN_BALANCE" -> handleGetTokenBalance(t)
    [] type = "PAY_OUT_TOKEN" -> handlePayOutToken(t)
    [] type = "GET_STATE" -> handleGetState(t)
    [] type = "QUERY_STATE_NEXT" -> handleQueryStateNext(t)
    [] type = "QUERY_STATE_CLOSE" -> handleQueryStateClose(t)
    [] type = "OUTCHAIN_ADDRESS" -> enterOutChainAddress(t)
    [] type = "OUTCHAIN_TRANSACTION" -> enterOutChainTransaction(t)
    [] type = "OUTCHAIN_QUERY" -> enterOutChainQuery(t)
    [] type \in BusyRequests -> enterBusyState(type, t)

-----------------------------------------------------------------------------
(* The node *)

\* notify sends on the notifier while it holds the handler's mutex.
Unlocked == loop.pc # "notify"

\* serialSendAsync: what is sent to a container that has died is lost.
SendToShim(ms) == toShim' = IF up THEN toShim \union ms ELSE toShim

\* ChaincodeSupport.Execute, to the lookup: a contract whose stream has ended is
\* not in chaincodeMap.
Execute(c) ==
  /\ exec[c] = "idle"
  /\ exec' = [exec EXCEPT ![c] = IF loop.pc = "ended" THEN "failed" ELSE "found"]
  /\ UNCHANGED <<env, up, result, txCtxs, txidMap, loop, requests, toShim, shimVars, toPeer>>

\* Mutant: createTxContext replaces the context of an id that is in use.
CreateTxContextAnyway(c) ==
  /\ exec[c] = "found" /\ Unlocked
  /\ exec' = [exec EXCEPT ![c] = "sending"]
  /\ txCtxs' = [txCtxs EXCEPT ![TxOf(c)] = <<>>]
  /\ UNCHANGED <<env, up, result, txidMap, loop, requests, toShim, shimVars, toPeer>>

\* sendExecuteMessage: createTxContext refuses an id that is in use.
CreateTxContext(c) ==
  /\ exec[c] = "found" /\ Unlocked
  /\ IF txCtxs[TxOf(c)] # None
     THEN exec' = [exec EXCEPT ![c] = "failed"] /\ UNCHANGED txCtxs
     ELSE /\ exec' = [exec EXCEPT ![c] = "sending"]
          /\ txCtxs' = [txCtxs EXCEPT ![TxOf(c)] = <<>>]
  /\ UNCHANGED <<env, up, result, txidMap, loop, requests, toShim, shimVars, toPeer>>

\* triggerNextState: the channel nextState has no buffer, the send meets the select.
TriggerExecute(c) ==
  /\ exec[c] = "sending" /\ loop.pc = "select"
  /\ exec' = [exec EXCEPT ![c] = "waiting"]
  /\ SendToShim({[type |-> IF c \in env.deploys THEN "INIT" ELSE "TRANSACTION", run |-> c, n |-> 0]})
  /\ UNCHANGED <<env, up, result, txCtxs, txidMap, loop, requests, shimVars, toPeer>>

\* The select of Execute: a message from the notifier,
ReceiveResponse(c) ==
  /\ exec[c] = "waiting" /\ txCtxs[TxOf(c)] # <<>>
  /\ exec' = [exec EXCEPT ![c] = "returning"]
  /\ result' = [result EXCEPT ![c] = Head(txCtxs[TxOf(c)])]
  /\ txCtxs' = [txCtxs EXCEPT ![TxOf(c)] = <<>>]
  /\ UNCHANGED <<env, up, txidMap, loop, requests, toShim, shimVars, toPeer>>

\* Mutant: the select has no timer.
TimeoutNever(c) == FALSE /\ UNCHANGED vars

\* or the timeout.
Timeout(c) ==
  /\ exec[c] = "waiting"
  /\ exec' = [exec EXCEPT ![c] = "returning"]
  /\ UNCHANGED <<env, up, result, txCtxs, txidMap, loop, requests, toShim, shimVars, toPeer>>

\* deleteTxContext, and the return of Execute.
DeleteTxContext(c) ==
  /\ exec[c] = "returning" /\ Unlocked
  /\ exec' = [exec EXCEPT ![c] = "returned"]
  /\ txCtxs' = [txCtxs EXCEPT ![TxOf(c)] = None]
  /\ UNCHANGED <<env, up, result, txidMap, loop, requests, toShim, shimVars, toPeer>>

\* handleMessage for COMPLETED and ERROR: notify fills the notifier's buffer of
\* one message, or blocks; a message that came through nextState is sent on.
Notify(m, send) ==
  LET ctx == txCtxs[Tx(m)]
  IN IF ctx \notin {None, <<>>}
     THEN /\ loop' = [pc |-> "notify", msg |-> m, send |-> send]
          /\ UNCHANGED <<txCtxs, toShim>>
     ELSE /\ txCtxs' = IF ctx = None THEN txCtxs ELSE [txCtxs EXCEPT ![Tx(m)] = <<m>>]
          /\ SendToShim(IF send THEN {m} ELSE {})
          /\ loop' = Selecting

\* The blocked send goes on when Execute has taken the earlier message.
NotifyResumes ==
  /\ loop.pc = "notify" /\ txCtxs[Tx(loop.msg)] = <<>>
  /\ Notify(loop.msg, loop.send)
  /\ UNCHANGED <<env, up, exec, result, txidMap, requests, shimVars, toPeer>>

\* handleMessage for a request: the handlers of GET_STATE_BY_RANGE, GET_QUERY_RESULT
\* and GET_HISTORY_FOR_KEY are empty; each of the others starts a goroutine.
ProcessMessage(m) ==
  /\ loop.pc = "select" /\ m \in toPeer
  /\ toPeer' = toPeer \ {m}
  /\ \/ /\ m.type \in {"COMPLETED", "ERROR"}
        /\ Notify(m, FALSE)
        /\ UNCHANGED requests
     \/ /\ m.type \in RequestTypes
        /\ requests' = IF m.type \in Unanswered THEN requests
                       ELSE requests \union {[pc |-> "arrived", msg |-> m, answer |-> None]}
        /\ UNCHANGED <<txCtxs, loop, toShim>>
  /\ UNCHANGED <<env, up, exec, result, txidMap, shimVars>>

\* createTXIDEntry: a second request of a transaction is dropped.
CreateTXIDEntry(r) ==
  /\ r \in requests /\ r.pc = "arrived" /\ Unlocked
  /\ IF Tx(r.msg) \in txidMap
     THEN requests' = requests \ {r} /\ UNCHANGED txidMap
     ELSE /\ requests' = (requests \ {r}) \union {[r EXCEPT !.pc = "unique"]}
          /\ txidMap' = txidMap \union {Tx(r.msg)}
  /\ UNCHANGED <<env, up, exec, result, txCtxs, loop, toShim, shimVars, toPeer>>

\* The body of a request's goroutine, from the look at the transaction's context.
Serve(r, a) ==
  /\ r \in requests /\ r.pc = "unique" /\ Unlocked
  /\ a \in Answers(r.msg.type, Tx(r.msg))
  /\ requests' = (requests \ {r}) \union {[pc |-> "served", msg |-> r.msg, answer |-> a]}
  /\ UNCHANGED <<env, up, exec, result, txCtxs, txidMap, loop, toShim, shimVars, toPeer>>

\* Mutant: the entry of the transaction stays.
DeleteTXIDEntryNever(r) ==
  /\ r \in requests /\ r.pc = "served" /\ Unlocked
  /\ requests' = requests \ {r} /\ SendToShim({Answer(r.msg, r.answer)})
  /\ UNCHANGED <<env, up, exec, result, txCtxs, txidMap, loop, shimVars, toPeer>>

\* Mutant: enterBusyState sends its answer itself, and through nextState.
DeleteTXIDEntryTwice(r) ==
  /\ r \in requests /\ r.pc = "served" /\ Unlocked
  /\ txidMap' = txidMap \ {Tx(r.msg)}
  /\ requests' = (requests \ {r}) \union
       (IF r.msg.type \in BusyRequests THEN {[r EXCEPT !.pc = "trigger"]} ELSE {})
  /\ SendToShim({Answer(r.msg, r.answer)})
  /\ UNCHANGED <<env, up, exec, result, txCtxs, loop, shimVars, toPeer>>

\* Mutant: a request without a valid context is not answered.
DeleteTXIDEntrySilent(r) ==
  /\ r \in requests /\ r.pc = "served" /\ Unlocked
  /\ txidMap' = txidMap \ {Tx(r.msg)}
  /\ requests' = requests \ {r}
  /\ IF r.answer = "ERROR" THEN UNCHANGED toShim ELSE SendToShim({Answer(r.msg, r.answer)})
  /\ UNCHANGED <<env, up, exec, result, txCtxs, loop, shimVars, toPeer>>

\* The deferred deleteTXIDEntry, and the answer: sent at once, or by the stream's
\* loop after enterBusyState.
DeleteTXIDEntry(r) ==
  /\ r \in requests /\ r.pc = "served" /\ Unlocked
  /\ txidMap' = txidMap \ {Tx(r.msg)}
  /\ IF r.msg.type \in BusyRequests
     THEN /\ requests' = (requests \ {r}) \union {[r EXCEPT !.pc = "trigger"]}
          /\ UNCHANGED toShim
     ELSE requests' = requests \ {r} /\ SendToShim({Answer(r.msg, r.answer)})
  /\ UNCHANGED <<env, up, exec, result, txCtxs, loop, shimVars, toPeer>>

\* Mutant: every answer of enterBusyState reaches the notifier.
TriggerAnswerNotifies(r) ==
  /\ r \in requests /\ r.pc = "trigger" /\ loop.pc = "select"
  /\ requests' = requests \ {r}
  /\ Notify(Answer(r.msg, r.answer), TRUE)
  /\ UNCHANGED <<env, up, exec, result, txidMap, shimVars, toPeer>>

\* nextState: the loop handles the answer of enterBusyState, an ERROR like the one
\* a contract ends with, and sends it on.
TriggerAnswer(r) ==
  /\ r \in requests /\ r.pc = "trigger" /\ loop.pc = "select"
  /\ requests' = requests \ {r}
  /\ IF r.answer = "ERROR" THEN Notify(Answer(r.msg, "ERROR"), TRUE)
     ELSE SendToShim({Answer(r.msg, r.answer)}) /\ UNCHANGED <<txCtxs, loop>>
  /\ UNCHANGED <<env, up, exec, result, txidMap, shimVars, toPeer>>

\* The container dies, with what was sent to it.
ContainerDies ==
  /\ "dies" \in env.faults /\ up
  /\ up' = FALSE /\ toShim' = {}
  /\ UNCHANGED <<env, nodeVars, shimVars, toPeer>>

\* Recv fails: processStream returns and deregisters the handler.
StreamEnds ==
  /\ ~up /\ loop.pc = "select"
  /\ loop' = [Selecting EXCEPT !.pc = "ended"]
  /\ UNCHANGED <<env, up, exec, result, txCtxs, txidMap, requests, toShim, shimVars, toPeer>>

-----------------------------------------------------------------------------
(* The contract's container *)

\* handleMessage of the shim: INIT and TRANSACTION start the contract, RESPONSE and
\* ERROR go to the transaction's channel.
ShimReceive(m) ==
  /\ up /\ shim.pc = "select" /\ m \in toShim
  /\ toShim' = toShim \ {m}
  /\ \/ /\ m.type \in {"INIT", "TRANSACTION"}
        /\ runs' = [runs EXCEPT ![m.run].pc = "running"]
        /\ UNCHANGED shim
     \/ /\ m.type \in {"RESPONSE", "ERROR"}
        /\ shim' = IF channels[Tx(m)] = None THEN shim
                   ELSE [pc |-> "sendChannel", msg |-> m, send |-> FALSE]
        /\ UNCHANGED runs
  /\ UNCHANGED <<env, up, nodeVars, channels, toPeer>>

\* sendChannel holds the shim's mutex while it sends on a channel without a buffer.
SendChannel ==
  /\ up /\ shim.pc = "sendChannel"
  /\ LET c == channels[Tx(shim.msg)]
     IN /\ runs[c].pc = "calling"
        /\ runs' = [runs EXCEPT ![c] = [pc |-> "received", n |-> runs[c].n, msg |-> shim.msg]]
  /\ toPeer' = IF shim.send THEN toPeer \union {shim.msg} ELSE toPeer
  /\ shim' = Selecting
  /\ UNCHANGED <<env, up, nodeVars, toShim, channels>>

\* Mutant: createChannel replaces the channel of a transaction.
ContractCallsAnyway(c, type) ==
  /\ up /\ runs[c].pc = "running" /\ runs[c].n < MaxRequests /\ shim.pc # "sendChannel"
  /\ LET request == [type |-> type, run |-> c, n |-> runs[c].n + 1]
     IN /\ runs' = [runs EXCEPT ![c] = [pc |-> "calling", n |-> request.n, msg |-> request]]
        /\ channels' = [channels EXCEPT ![TxOf(c)] = c]
        /\ toPeer' = toPeer \union {request}
  /\ UNCHANGED <<env, up, nodeVars, toShim, shim>>

\* callPeerWithChaincodeMsg: createChannel refuses a transaction that has a channel,
\* and the contract sees an error.
ContractCalls(c, type) ==
  /\ up /\ runs[c].pc = "running" /\ runs[c].n < MaxRequests /\ shim.pc # "sendChannel"
  /\ LET request == [type |-> type, run |-> c, n |-> runs[c].n + 1] IN
     IF channels[TxOf(c)] # None
     THEN runs' = [runs EXCEPT ![c].n = @ + 1] /\ UNCHANGED <<channels, toPeer>>
     ELSE /\ runs' = [runs EXCEPT ![c] = [pc |-> "calling", n |-> request.n, msg |-> request]]
          /\ channels' = [channels EXCEPT ![TxOf(c)] = c]
          /\ toPeer' = toPeer \union {request}
  /\ UNCHANGED <<env, up, nodeVars, toShim, shim>>

\* The deferred deleteChannel; the contract goes on with the answer.
DeleteChannel(c) ==
  /\ up /\ runs[c].pc = "received" /\ shim.pc # "sendChannel"
  /\ channels' = [channels EXCEPT ![TxOf(c)] = None]
  /\ runs' = [runs EXCEPT ![c] = [pc |-> "running", n |-> runs[c].n, msg |-> None]]
  /\ UNCHANGED <<env, up, nodeVars, toShim, shim, toPeer>>

\* The deferred triggerNextState of handleInit and handleTransaction: chatWithPeer
\* handles the outcome, an ERROR like one from the node, and sends it.
ContractEnds(c, type) ==
  /\ up /\ runs[c].pc = "running" /\ shim.pc = "select"
  /\ type = "ERROR" => c \in env.deploys
  /\ LET m == [type |-> type, run |-> c, n |-> 0]
     IN IF type = "ERROR" /\ channels[TxOf(c)] # None
        THEN shim' = [pc |-> "sendChannel", msg |-> m, send |-> TRUE] /\ UNCHANGED toPeer
        ELSE toPeer' = toPeer \union {m} /\ UNCHANGED shim
  /\ runs' = [runs EXCEPT ![c].pc = "done"]
  /\ UNCHANGED <<env, up, nodeVars, toShim, channels>>

-----------------------------------------------------------------------------
\* The steps that only wait for a lock, a channel or a goroutine to be scheduled.
CallerStep(c) == Execute(c) \/ CreateTxContext(c) \/ TriggerExecute(c)
                 \/ ReceiveResponse(c) \/ Timeout(c) \/ DeleteTxContext(c)
RequestStep(r) == CreateTXIDEntry(r) \/ (\E a \in {"RESPONSE", "ERROR"} : Serve(r, a))
                  \/ DeleteTXIDEntry(r) \/ TriggerAnswer(r)
ContractStep(c) == \/ \E type \in env.types : ContractCalls(c, type)
                   \/ DeleteChannel(c)
                   \/ \E type \in {"COMPLETED", "ERROR"} : ContractEnds(c, type)

Next ==
  \/ \E c \in Callers : CallerStep(c) \/ ContractStep(c)
  \/ \E m \in toPeer : ProcessMessage(m)
  \/ \E r \in requests : RequestStep(r)
  \/ \E m \in toShim : ShimReceive(m)
  \/ NotifyResumes \/ SendChannel \/ ContainerDies \/ StreamEnds

Spec == Init /\ [][Next]_vars

\* Goroutines are scheduled, the loops take what waits for them while they select,
\* and time.After fires.  Contracts need not end: ContractCalls and ContractEnds have
\* no fairness.
Fairness ==
  /\ \A c \in Callers : WF_vars(CreateTxContext(c) \/ TriggerExecute(c) \/ Timeout(c) \/ DeleteTxContext(c))
  /\ \A c \in Callers : WF_vars(DeleteChannel(c))
  /\ WF_vars(\E m \in toPeer : ProcessMessage(m))
  /\ WF_vars(\E m \in toShim : ShimReceive(m))
  /\ WF_vars(\E r \in requests : RequestStep(r))
  /\ WF_vars(NotifyResumes \/ StreamEnds)
  /\ WF_vars(SendChannel)
FairSpec == Spec /\ Fairness

-----------------------------------------------------------------------------
(* Properties *)

\* Two calls share a transaction id.
Retries == \E c, d \in Callers : c # d /\ TxOf(c) = TxOf(d)
\* Nothing makes the node fail a request, and no id is used twice.
Calm == ~Retries /\ env.called = {} /\ env.faults = {}

\* createTxContext and deleteTxContext: a transaction has a context exactly while
\* one call of Execute with its id is between the two, and never two such calls.
\* Its responseNotifier keeps to its capacity of one.
ContextOwned ==
  /\ TypeOK
  /\ \A t \in Txids :
       LET inside == {c \in Callers : TxOf(c) = t /\ exec[c] \in {"sending", "waiting", "returning"}}
       IN IF txCtxs[t] = None THEN inside = {} ELSE \E c \in Callers : inside = {c}

\* A deploy with an id that another call uses: the ERROR of a failed Init goes through
\* afterError to whatever channel has that id.
DeployRetried == Retries /\ env.deploys # {}

\* createChannel, callPeerWithChaincodeMsg and sendChannel: what a contract receives
\* is the answer to the request it is waiting for, also when the transaction was
\* retried while the first run goes on.
AnswerIsMine ==
  \A c \in Callers :
    runs[c].pc = "received" /\ ~DeployRetried =>
      runs[c].msg.run = c /\ runs[c].msg.n = runs[c].n

\* createTXIDEntry and the order of the deferred calls: the entry of a request is
\* deleted before its answer is sent, so a contract's next request is never
\* dropped as a second one.
NoRequestDropped ==
  \A r \in requests : r.pc = "arrived" /\ ~DeployRetried => Tx(r.msg) \notin txidMap

\* sendChannel holds the shim's mutex: it is never left with a channel whose contract
\* has its answer already, which would wait for that mutex in deleteChannel.
SendChannelReceived ==
  shim.pc = "sendChannel" /\ ~DeployRetried => runs[channels[Tx(shim.msg)]].pc = "calling"

\* notify: with no failed request and no retry, the message Execute returns is the
\* outcome of its own run, and that run is over.
OutcomeReported ==
  \A c \in Callers :
    Calm /\ result[c] # None => result[c].run = c /\ runs[c].pc = "done" /\ result[c].n = 0

\* Execute comes back, within its timeout if the contract does not end.
ExecuteReturns ==
  \A c \in Callers : Calm /\ exec[c] = "found" ~> exec[c] \in {"returned", "failed"}

\* A request that has a handler is answered, though the transaction timed out.
CallAnswered ==
  \A c \in Callers :
    Calm /\ runs[c].pc = "calling" /\ runs[c].msg.type \notin Unanswered ~> runs[c].pc = "received"
=============================================================================
