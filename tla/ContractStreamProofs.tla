------------------------ MODULE ContractStreamProofs ------------------------
(***************************************************************************)
(* The exchange of messages between Execute, the stream's handler and the  *)
(* shim, for any number of calls, transactions and requests, and whatever  *)
(* ids are shared and faults occur.                                        *)
(***************************************************************************)
EXTENDS ContractStream, TLAPS

\* The provers of a step that names none, in the order they are tried.
USE Zenon, SMT, Z3

-----------------------------------------------------------------------------
(* The invariant *)

Contexts == {None, <<>>} \union {<<m>> : m \in Messages}
Outcomes == {"COMPLETED", "ERROR"}
Replies == {"RESPONSE", "ERROR"}
Starts == {"INIT", "TRANSACTION"}

NodeType ==
  /\ exec \in [Callers -> {"idle", "found", "sending", "waiting", "returning", "returned", "failed"}]
  /\ result \in [Callers -> Messages \union {None}]
  /\ txCtxs \in [Txids -> Contexts]
  /\ txidMap \subseteq Txids

LoopType ==
  /\ loop \in [pc : {"select", "notify", "ended"}, msg : Messages \union {None}, send : BOOLEAN]
  /\ loop.pc = "notify" => loop.msg \in Messages /\ loop.msg.type \in Outcomes

RequestType ==
  /\ requests \subseteq [pc : {"arrived", "unique", "served", "trigger"}, msg : Messages,
                        answer : {"RESPONSE", "ERROR", None}]
  /\ \A r \in requests : r.pc \in {"served", "trigger"} => r.answer \in Replies

ShimType ==
  /\ runs \in [Callers -> [pc : {"none", "running", "calling", "received", "done"},
                           n : 0 .. MaxRequests, msg : Messages \union {None}]]
  /\ channels \in [Txids -> Callers \union {None}]
  /\ shim \in [pc : {"select", "sendChannel"}, msg : Messages \union {None}, send : BOOLEAN]
  /\ shim.pc = "sendChannel" => shim.msg \in Messages

WireType == env \in Environments /\ up \in BOOLEAN /\ toShim \subseteq Messages /\ toPeer \subseteq Messages

StreamType == NodeType /\ LoopType /\ RequestType /\ ShimType /\ WireType

\* The calls of Execute that are between createTxContext and deleteTxContext.
Inside(t) == {c \in Callers : TxOf(c) = t /\ exec[c] \in {"sending", "waiting", "returning"}}
Owned == \A t \in Txids : IF txCtxs[t] = None THEN Inside(t) = {} ELSE \E c \in Callers : Inside(t) = {c}

\* A contract is started once, by the message of its call of Execute.
StartMsg(c) == [type |-> IF c \in env.deploys THEN "INIT" ELSE "TRANSACTION", run |-> c, n |-> 0]
Sent(c) == exec[c] \in {"waiting", "returning", "returned"}
Started ==
  /\ \A c \in Callers : runs[c].pc # "none" => Sent(c)
  /\ \A m \in toShim : m.type \in Starts => m = StartMsg(m.run) /\ runs[m.run].pc = "none" /\ Sent(m.run)

\* A transaction's channel belongs to the run that made it, until it has its answer.
Channelled ==
  /\ \A t \in Txids : channels[t] # None => TxOf(channels[t]) = t /\ runs[channels[t]].pc \in {"calling", "received"}
  /\ \A c \in Callers : runs[c].pc \in {"calling", "received"} => channels[TxOf(c)] = c
  /\ shim.pc = "sendChannel" => channels[Tx(shim.msg)] # None

\* A transaction in txidMap has a request in progress.
Marked == \A t \in txidMap : \E r \in requests : Tx(r.msg) = t /\ r.pc \in {"unique", "served"}

StreamInv == StreamType /\ Owned /\ Started /\ Channelled /\ Marked

-----------------------------------------------------------------------------
(* Facts about the operators *)

(* A call of Execute has a transaction id. *)
LEMMA TxTypes ==
  ASSUME env \in Environments
  PROVE  /\ env.txOf \in [Callers -> Txids] /\ env.types \subseteq RequestTypes /\ env.deploys \subseteq Callers
         /\ \A c \in Callers : TxOf(c) \in Txids
         /\ \A m \in Messages : m.run \in Callers /\ m.n \in Nat /\ Tx(m) \in Txids
BY StreamAssumption DEF TxOf, Tx, Messages

(* The answer to a message is a message of the same run. *)
LEMMA AnswerFacts ==
  ASSUME NEW m \in Messages, NEW a \in Replies
  PROVE  /\ Answer(m, a) \in Messages /\ Answer(m, a).run = m.run /\ Answer(m, a).n = m.n
         /\ Answer(m, a).type = a
BY DEF Answer, Messages, Replies

(* The buffer of a notifier is empty, or has one message. *)
LEMMA ContextFacts ==
  /\ None \in Contexts /\ <<>> \in Contexts /\ None # <<>>
  /\ \A m \in Messages : <<m>> \in Contexts /\ <<m>> # None /\ <<m>> # <<>> /\ Head(<<m>>) = m
  /\ \A x \in Contexts : x \in {None, <<>>} \/ \E m \in Messages : x = <<m>>
<1>1. None \notin Seq(Messages)
  BY StreamAssumption
<1>2. <<>> \in Seq(Messages) /\ \A m \in Messages : <<m>> \in Seq(Messages)
  OBVIOUS
<1>3. \A m \in Messages : <<m>> # <<>> /\ Head(<<m>>) = m
  OBVIOUS
<1> QED BY <1>1, <1>2, <1>3, Zenon DEF Contexts

(* What notify does to the contexts, the loop and the stream. *)
LEMMA NotifyFacts ==
  ASSUME StreamType, NEW m \in Messages, NEW send \in BOOLEAN, Notify(m, send)
  PROVE  \/ /\ loop' = [pc |-> "notify", msg |-> m, send |-> send] /\ UNCHANGED <<txCtxs, toShim>>
            /\ txCtxs[Tx(m)] \notin {None, <<>>}
         \/ /\ loop' = Selecting
            /\ toShim \subseteq toShim' /\ toShim' \subseteq toShim \union (IF send THEN {m} ELSE {})
            /\ \/ txCtxs[Tx(m)] = None /\ UNCHANGED txCtxs
               \/ txCtxs[Tx(m)] = <<>> /\ txCtxs' = [txCtxs EXCEPT ![Tx(m)] = <<m>>]
BY DEF Notify, SendToShim

-----------------------------------------------------------------------------
(* Types *)

(* The stream begins well typed. *)
LEMMA TypeInit == Init => StreamType
<1> SUFFICES ASSUME Init PROVE StreamType
  OBVIOUS
<1>1. NodeType
  BY ContextFacts DEF Init, NodeType
<1>2. LoopType /\ RequestType
  BY DEF Init, LoopType, RequestType, Selecting
<1>3. ShimType
  <2>1. 0 \in 0 .. MaxRequests
    BY StreamAssumption, SMT, Z3
  <2> QED BY <2>1 DEF Init, ShimType, Selecting
<1>4. WireType
  BY DEF Init, WireType
<1> QED BY <1>1, <1>2, <1>3, <1>4 DEF StreamType

(* A call that is inside has its context. *)
LEMMA InsideHasContext ==
  ASSUME StreamType, Owned, NEW c \in Callers, exec[c] \in {"sending", "waiting", "returning"}
  PROVE  TxOf(c) \in Txids /\ txCtxs[TxOf(c)] # None /\ Inside(TxOf(c)) = {c}
<1>1. TxOf(c) \in Txids
  BY TxTypes DEF StreamType, WireType
<1>2. c \in Inside(TxOf(c))
  BY DEF Inside
<1> QED BY <1>1, <1>2 DEF Owned

(* The message that Execute takes from its notifier. *)
LEMMA ReceivedMessage ==
  ASSUME StreamType, Owned, NEW c \in Callers, ReceiveResponse(c)
  PROVE  \E m \in Messages : txCtxs[TxOf(c)] = <<m>> /\ result' = [result EXCEPT ![c] = m]
<1>1. TxOf(c) \in Txids /\ txCtxs[TxOf(c)] # None /\ txCtxs[TxOf(c)] # <<>>
  BY InsideHasContext DEF ReceiveResponse
<1>2. txCtxs[TxOf(c)] \in Contexts
  BY <1>1 DEF StreamType, NodeType
<1>3. PICK m \in Messages : txCtxs[TxOf(c)] = <<m>>
  BY <1>1, <1>2, ContextFacts
<1>4. Head(txCtxs[TxOf(c)]) = m
  BY <1>3, ContextFacts
<1> QED BY <1>3, <1>4, Zenon DEF ReceiveResponse

(* The steps of a call of Execute keep the types. *)
LEMMA TypeCaller ==
  ASSUME StreamType, Owned, NEW c \in Callers, CallerStep(c)
  PROVE  StreamType'
<1>0. UNCHANGED <<env, up, txidMap, loop, requests, shimVars, toPeer>>
  BY DEF CallerStep, Execute, CreateTxContext, TriggerExecute, ReceiveResponse, Timeout, DeleteTxContext, nodeVars
<1>1. TxOf(c) \in Txids
  BY TxTypes DEF StreamType, WireType
<1>2. exec' \in [Callers -> {"idle", "found", "sending", "waiting", "returning", "returned", "failed"}]
  BY DEF CallerStep, Execute, CreateTxContext, TriggerExecute, ReceiveResponse, Timeout, DeleteTxContext,
         StreamType, NodeType
<1>3. txCtxs' \in [Txids -> Contexts]
  BY <1>1, ContextFacts, SMT, Zenon DEF CallerStep, Execute, CreateTxContext, TriggerExecute, ReceiveResponse, Timeout,
         DeleteTxContext, StreamType, NodeType
<1>4. result' \in [Callers -> Messages \union {None}]
  <2>1. CASE ReceiveResponse(c)
    BY <2>1, ReceivedMessage DEF StreamType, NodeType
  <2>2. CASE ~ReceiveResponse(c)
    BY <2>2 DEF CallerStep, Execute, CreateTxContext, TriggerExecute, Timeout, DeleteTxContext, StreamType, NodeType
  <2> QED BY <2>1, <2>2
<1>5. toShim' \subseteq Messages
  <2>1. StartMsg(c) \in Messages
    BY DEF StartMsg, Messages
  <2> QED BY <2>1 DEF CallerStep, Execute, CreateTxContext, TriggerExecute, ReceiveResponse, Timeout,
         DeleteTxContext, StreamType, WireType, SendToShim, StartMsg
<1>6. NodeType' /\ WireType'
  BY <1>0, <1>2, <1>3, <1>4, <1>5 DEF StreamType, NodeType, WireType
<1>7. LoopType' /\ RequestType' /\ ShimType'
  BY <1>0 DEF StreamType, LoopType, RequestType, ShimType, shimVars
<1> QED BY <1>6, <1>7 DEF StreamType

(* The messages that go through notify, and what it leaves typed. *)
LEMMA TypeNotify ==
  ASSUME StreamType, NEW m \in Messages, m.type \in Outcomes, NEW send \in BOOLEAN, Notify(m, send)
  PROVE  txCtxs' \in [Txids -> Contexts] /\ LoopType' /\ toShim' \subseteq Messages
<1>1. Tx(m) \in Txids /\ txCtxs \in [Txids -> Contexts] /\ toShim \subseteq Messages
  BY TxTypes DEF StreamType, NodeType, WireType
<1>2. txCtxs' \in [Txids -> Contexts]
  BY <1>1, NotifyFacts, ContextFacts, SMT, Z3
<1>3. toShim' \subseteq Messages
  BY <1>1, NotifyFacts
<1>4. LoopType'
  <2>1. CASE loop' = [pc |-> "notify", msg |-> m, send |-> send]
    BY <2>1 DEF LoopType
  <2>2. CASE loop' = Selecting
    BY <2>2 DEF LoopType, Selecting
  <2> QED BY <2>1, <2>2, NotifyFacts
<1> QED BY <1>2, <1>3, <1>4

(* The steps of the stream's loop keep the types. *)
LEMMA TypeLoop ==
  ASSUME StreamType, NotifyResumes \/ StreamEnds \/ \E m \in toPeer : ProcessMessage(m)
  PROVE  StreamType'
<1>0. UNCHANGED <<env, up, exec, result, txidMap, shimVars>>
  BY Zenon DEF NotifyResumes, StreamEnds, ProcessMessage
<1>1. txCtxs' \in [Txids -> Contexts] /\ LoopType' /\ toShim' \subseteq Messages
  <2>1. CASE NotifyResumes
    <3>1. loop.msg \in Messages /\ loop.msg.type \in Outcomes /\ loop.send \in BOOLEAN /\ Notify(loop.msg, loop.send)
      BY <2>1 DEF NotifyResumes, StreamType, LoopType
    <3> QED BY <3>1, TypeNotify
  <2>2. CASE StreamEnds
    BY <2>2, Zenon DEF StreamEnds, StreamType, NodeType, LoopType, WireType, Selecting
  <2>3. ASSUME NEW m \in toPeer, ProcessMessage(m)
        PROVE  txCtxs' \in [Txids -> Contexts] /\ LoopType' /\ toShim' \subseteq Messages
    <3>1. m \in Messages
      BY DEF StreamType, WireType
    <3>2. CASE m.type \in Outcomes /\ Notify(m, FALSE)
      BY <3>1, <3>2, TypeNotify, Zenon
    <3>3. CASE UNCHANGED <<txCtxs, loop, toShim>>
      BY <3>3 DEF StreamType, NodeType, LoopType, WireType
    <3> QED BY <2>3, <3>2, <3>3, Zenon DEF ProcessMessage, Outcomes
  <2> QED BY <2>1, <2>2, <2>3
<1>2. RequestType'
  <2>1. CASE requests' = requests
    BY <2>1 DEF StreamType, RequestType
  <2>2. ASSUME NEW m \in toPeer, requests' = requests \union {[pc |-> "arrived", msg |-> m, answer |-> None]}
        PROVE  RequestType'
    <3>1. m \in Messages
      BY DEF StreamType, WireType
    <3> QED BY <2>2, <3>1, SMT, Z3 DEF StreamType, RequestType
  <2> QED BY <2>1, <2>2, Zenon DEF NotifyResumes, StreamEnds, ProcessMessage
<1>3. toPeer' \subseteq Messages
  BY Zenon DEF NotifyResumes, StreamEnds, ProcessMessage, StreamType, WireType
<1>4. NodeType' /\ WireType' /\ ShimType'
  BY <1>0, <1>1, <1>3 DEF StreamType, NodeType, WireType, ShimType, shimVars
<1> QED BY <1>1, <1>2, <1>4 DEF StreamType

(* The goroutines that serve requests keep the types. *)
LEMMA TypeRequest ==
  ASSUME StreamType, NEW r \in requests, RequestStep(r)
  PROVE  StreamType'
<1>0. UNCHANGED <<env, up, exec, result, shimVars, toPeer>>
  BY Zenon DEF RequestStep, CreateTXIDEntry, Serve, DeleteTXIDEntry, TriggerAnswer
<1>1. r.msg \in Messages /\ Tx(r.msg) \in Txids /\ (r.pc \in {"served", "trigger"} => r.answer \in Replies)
  BY TxTypes DEF StreamType, RequestType, WireType
<1>2. RequestType'
  <2>1. ASSUME NEW q \in [pc : {"arrived", "unique", "served", "trigger"}, msg : Messages,
                          answer : {"RESPONSE", "ERROR", None}],
               q.pc \in {"served", "trigger"} => q.answer \in Replies,
               requests' \subseteq requests \union {q}
        PROVE  RequestType'
    BY <2>1 DEF StreamType, RequestType
  <2>2. CASE requests' \subseteq requests
    BY <2>2 DEF StreamType, RequestType
  <2>3. CASE r.pc = "arrived" /\ requests' = (requests \ {r}) \union {[r EXCEPT !.pc = "unique"]}
    BY <2>1, <2>3, SMT, Zenon DEF StreamType, RequestType
  <2>4. CASE r.pc = "served" /\ requests' = (requests \ {r}) \union {[r EXCEPT !.pc = "trigger"]}
    BY <1>1, <2>1, <2>4, SMT, Zenon DEF StreamType, RequestType
  <2>5. ASSUME NEW a \in Replies,
               requests' = (requests \ {r}) \union {[pc |-> "served", msg |-> r.msg, answer |-> a]}
        PROVE  RequestType'
    BY <1>1, <2>1, <2>5, Zenon DEF Replies
  <2> QED BY <2>2, <2>3, <2>4, <2>5, Zenon
          DEF RequestStep, CreateTXIDEntry, Serve, DeleteTXIDEntry, TriggerAnswer, Replies
<1>3. txCtxs' \in [Txids -> Contexts] /\ LoopType' /\ toShim' \subseteq Messages
  <2>1. CASE r.pc \in {"served", "trigger"}
    <3>1. Answer(r.msg, r.answer) \in Messages
      BY <1>1, <2>1, AnswerFacts
    <3>2. CASE Notify(Answer(r.msg, "ERROR"), TRUE) /\ r.answer = "ERROR"
      BY <1>1, <3>2, AnswerFacts, TypeNotify, Zenon DEF Replies, Outcomes
    <3>3. CASE UNCHANGED <<txCtxs, loop>> /\ (toShim' = toShim \/ SendToShim({Answer(r.msg, r.answer)}))
      BY <3>1, <3>3 DEF SendToShim, StreamType, NodeType, LoopType, WireType
    <3> QED BY <2>1, <3>2, <3>3, Zenon DEF RequestStep, CreateTXIDEntry, Serve, DeleteTXIDEntry, TriggerAnswer
  <2>2. CASE r.pc \notin {"served", "trigger"}
    BY <2>2, Zenon DEF RequestStep, CreateTXIDEntry, Serve, DeleteTXIDEntry, TriggerAnswer,
                StreamType, NodeType, LoopType, WireType
  <2> QED BY <2>1, <2>2
<1>4. txidMap' \subseteq Txids
  BY <1>1, Zenon DEF RequestStep, CreateTXIDEntry, Serve, DeleteTXIDEntry, TriggerAnswer, StreamType, NodeType
<1>5. NodeType' /\ WireType' /\ ShimType'
  BY <1>0, <1>3, <1>4 DEF StreamType, NodeType, WireType, ShimType, shimVars
<1> QED BY <1>2, <1>3, <1>5 DEF StreamType

(* The steps of the container keep the types. *)
LEMMA TypeShim ==
  ASSUME StreamType, Channelled,
         \/ \E m \in toShim : ShimReceive(m)
         \/ \E c \in Callers : ContractStep(c)
         \/ SendChannel \/ ContainerDies
  PROVE  StreamType'
<1>0. UNCHANGED <<env, nodeVars>>
  BY Zenon DEF ShimReceive, ContractStep, ContractCalls, DeleteChannel, ContractEnds, SendChannel, ContainerDies
<1> DEFINE Run == [pc : {"none", "running", "calling", "received", "done"},
                   n : 0 .. MaxRequests, msg : Messages \union {None}]
<1>1. /\ runs \in [Callers -> Run] /\ channels \in [Txids -> Callers \union {None}] /\ MaxRequests \in Nat
      /\ toShim \subseteq Messages /\ toPeer \subseteq Messages /\ env \in Environments
      /\ \A c \in Callers : runs[c].n \in 0 .. MaxRequests
  BY StreamAssumption DEF StreamType, ShimType, WireType
<1>2. NodeType' /\ LoopType' /\ RequestType'
  BY <1>0 DEF nodeVars, StreamType, NodeType, LoopType, RequestType
<1>3. ASSUME NEW m \in toShim, ShimReceive(m) PROVE ShimType' /\ WireType'
  <2>1. m \in Messages /\ m.run \in Callers
    BY <1>1, TxTypes
  <2>2. WireType'
    BY <1>3 DEF ShimReceive, StreamType, WireType
  <2>3. runs' \in [Callers -> Run] /\ channels' = channels
    BY <1>1, <1>3, <2>1, SMT, Zenon DEF ShimReceive
  <2>4. shim' = shim \/ shim' = [pc |-> "sendChannel", msg |-> m, send |-> FALSE]
    BY <1>3 DEF ShimReceive
  <2>5. shim' \in [pc : {"select", "sendChannel"}, msg : Messages \union {None}, send : BOOLEAN]
        /\ (shim'.pc = "sendChannel" => shim'.msg \in Messages)
    <3>1. CASE shim' = shim
      BY <3>1 DEF StreamType, ShimType
    <3>2. CASE shim' = [pc |-> "sendChannel", msg |-> m, send |-> FALSE]
      BY <2>1, <3>2
    <3> QED BY <2>4, <3>1, <3>2
  <2> QED BY <1>1, <2>2, <2>3, <2>5 DEF ShimType
<1>4. ASSUME NEW c \in Callers, NEW type \in env.types, ContractCalls(c, type) PROVE ShimType' /\ WireType'
  <2> DEFINE request == [type |-> type, run |-> c, n |-> runs[c].n + 1]
  <2>1. runs[c].n + 1 \in 0 .. MaxRequests /\ runs[c].n + 1 \in Nat
    BY <1>1, <1>4, SMT, Z3 DEF ContractCalls
  <2>2. request \in Messages
    BY <1>1, <2>1, TxTypes DEF Messages
  <2>3. TxOf(c) \in Txids
    BY <1>1, TxTypes
  <2>4. runs' \in [Callers -> Run]
    <3>1. [runs[c] EXCEPT !.n = runs[c].n + 1] \in Run
      BY <1>1, <2>1
    <3>2. [pc |-> "calling", n |-> request.n, msg |-> request] \in Run
      BY <2>1, <2>2
    <3>3. \/ runs' = [runs EXCEPT ![c] = [runs[c] EXCEPT !.n = runs[c].n + 1]]
          \/ runs' = [runs EXCEPT ![c] = [pc |-> "calling", n |-> request.n, msg |-> request]]
      BY <1>1, <1>4 DEF ContractCalls
    <3> HIDE DEF Run, request
    <3> QED BY <1>1, <3>1, <3>2, <3>3
  <2>5. channels' \in [Txids -> Callers \union {None}] /\ toPeer' \subseteq Messages
    BY <1>1, <1>4, <2>2, <2>3 DEF ContractCalls
  <2>6. UNCHANGED <<up, toShim, shim>>
    BY <1>4 DEF ContractCalls
  <2> QED BY <1>0, <2>4, <2>5, <2>6 DEF StreamType, ShimType, WireType
<1>5. ASSUME NEW c \in Callers, DeleteChannel(c) PROVE ShimType' /\ WireType'
  <2>1. [pc |-> "running", n |-> runs[c].n, msg |-> None] \in Run /\ TxOf(c) \in Txids
    BY <1>1, TxTypes
  <2>2. runs' \in [Callers -> Run] /\ channels' \in [Txids -> Callers \union {None}]
    BY <1>1, <1>5, <2>1 DEF DeleteChannel
  <2> QED BY <1>0, <1>5, <2>2 DEF DeleteChannel, StreamType, ShimType, WireType
<1>6. ASSUME NEW c \in Callers, NEW type \in Outcomes, ContractEnds(c, type) PROVE ShimType' /\ WireType'
  <2> DEFINE m == [type |-> type, run |-> c, n |-> 0]
  <2>1. m \in Messages
    BY DEF Messages, Outcomes
  <2>2. runs' \in [Callers -> Run] /\ channels' = channels
    BY <1>1, <1>6, SMT, Zenon DEF ContractEnds
  <2>3. shim' = shim \/ shim' = [pc |-> "sendChannel", msg |-> m, send |-> TRUE]
    BY <1>6 DEF ContractEnds
  <2>4. toPeer' \subseteq Messages /\ UNCHANGED <<up, toShim>>
    BY <1>1, <1>6, <2>1 DEF ContractEnds
  <2> HIDE DEF m
  <2>5. shim' \in [pc : {"select", "sendChannel"}, msg : Messages \union {None}, send : BOOLEAN]
        /\ (shim'.pc = "sendChannel" => shim'.msg \in Messages)
    <3>1. CASE shim' = shim
      BY <3>1 DEF StreamType, ShimType
    <3>2. CASE shim' = [pc |-> "sendChannel", msg |-> m, send |-> TRUE]
      BY <2>1, <3>2
    <3> QED BY <2>3, <3>1, <3>2
  <2> QED BY <1>0, <1>1, <2>2, <2>4, <2>5 DEF StreamType, ShimType, WireType
<1>7. CASE SendChannel
  <2> DEFINE c == channels[Tx(shim.msg)]
  <2>1. shim.msg \in Messages /\ Tx(shim.msg) \in Txids
    BY <1>1, <1>7, TxTypes DEF SendChannel, StreamType, ShimType
  <2>2. c \in Callers
    BY <1>1, <1>7, <2>1 DEF SendChannel, Channelled
  <2>3. [pc |-> "received", n |-> runs[c].n, msg |-> shim.msg] \in Run
    BY <1>1, <2>1, <2>2
  <2>4. runs' \in [Callers -> Run]
    BY <1>1, <1>7, <2>2, <2>3 DEF SendChannel
  <2>5. toPeer' \subseteq Messages /\ shim' = Selecting /\ UNCHANGED <<up, toShim, channels>>
    BY <1>1, <1>7, <2>1 DEF SendChannel
  <2>6. ShimType'
    BY <1>1, <2>4, <2>5 DEF ShimType, Selecting
  <2>7. WireType'
    BY <1>0, <1>1, <2>5 DEF StreamType, WireType
  <2> QED BY <1>2, <2>6, <2>7 DEF StreamType
<1>8. CASE ContainerDies
  BY <1>0, <1>2, <1>8, Zenon DEF ContainerDies, shimVars, StreamType, ShimType, WireType
<1> QED BY <1>2, <1>3, <1>4, <1>5, <1>6, <1>7, <1>8 DEF ContractStep, StreamType, Outcomes

(* All steps keep the types. *)
LEMMA TypeNext ==
  ASSUME StreamType, Owned, Channelled, [Next]_vars
  PROVE  StreamType'
<1>1. CASE UNCHANGED vars
  BY <1>1 DEF vars, nodeVars, shimVars, StreamType, NodeType, LoopType, RequestType, ShimType, WireType
<1> QED BY <1>1, TypeCaller, TypeLoop, TypeRequest, TypeShim DEF Next

-----------------------------------------------------------------------------
(* Contexts *)

(* Which contexts there are changes only in Execute. *)
LEMMA SameContexts ==
  ASSUME StreamType, [Next]_vars
  PROVE  \/ \E c \in Callers : CallerStep(c)
         \/ /\ UNCHANGED <<env, exec, result>>
            /\ \A t \in Txids : (txCtxs'[t] = None) <=> (txCtxs[t] = None)
<1>1. ASSUME NEW m \in Messages, NEW send \in BOOLEAN, Notify(m, send)
      PROVE  \A t \in Txids : (txCtxs'[t] = None) <=> (txCtxs[t] = None)
  <2>1. Tx(m) \in Txids /\ txCtxs \in [Txids -> Contexts]
    BY TxTypes DEF StreamType, NodeType, WireType
  <2> QED BY <1>1, <2>1, NotifyFacts, ContextFacts, SMT, Z3
<1>2. CASE NotifyResumes
  <2>1. loop.msg \in Messages /\ loop.send \in BOOLEAN
    BY <1>2 DEF NotifyResumes, StreamType, LoopType
  <2> QED BY <1>1, <1>2, <2>1 DEF NotifyResumes
<1>3. ASSUME NEW m \in toPeer, ProcessMessage(m)
      PROVE  UNCHANGED <<env, exec, result>> /\ \A t \in Txids : (txCtxs'[t] = None) <=> (txCtxs[t] = None)
  <2>1. m \in Messages
    BY DEF StreamType, WireType
  <2> QED BY <1>1, <1>3, <2>1, Zenon DEF ProcessMessage
<1>4. ASSUME NEW r \in requests, RequestStep(r)
      PROVE  UNCHANGED <<env, exec, result>> /\ \A t \in Txids : (txCtxs'[t] = None) <=> (txCtxs[t] = None)
  <2>1. Answer(r.msg, "ERROR") \in Messages
    BY AnswerFacts DEF StreamType, RequestType, Replies
  <2> QED BY <1>1, <1>4, <2>1, Zenon DEF RequestStep, CreateTXIDEntry, Serve, DeleteTXIDEntry, TriggerAnswer
<1>5. CASE \/ \E m \in toShim : ShimReceive(m)
           \/ \E c \in Callers : ContractStep(c)
           \/ SendChannel \/ ContainerDies \/ StreamEnds \/ UNCHANGED vars
  BY <1>5, Zenon DEF ShimReceive, ContractStep, ContractCalls, DeleteChannel, ContractEnds, SendChannel,
              ContainerDies, StreamEnds, vars, nodeVars
<1> QED BY <1>2, <1>3, <1>4, <1>5 DEF Next

(* A transaction keeps exactly one owner. *)
LEMMA OwnedNext ==
  ASSUME StreamType, Owned, [Next]_vars
  PROVE  Owned'
<1>1. CASE /\ UNCHANGED <<env, exec, result>>
           /\ \A t \in Txids : (txCtxs'[t] = None) <=> (txCtxs[t] = None)
  <2>1. \A t \in Txids : Inside(t)' = Inside(t)
    BY <1>1 DEF Inside, TxOf
  <2> QED BY <1>1, <2>1 DEF Owned
<1>2. ASSUME NEW c \in Callers, CallerStep(c) PROVE Owned'
  <2> PICK u \in Txids : u = TxOf(c)
    BY TxTypes DEF StreamType, WireType
  <2>0. /\ exec \in [Callers -> {"idle", "found", "sending", "waiting", "returning", "returned", "failed"}]
        /\ txCtxs \in [Txids -> Contexts] /\ u \in Txids /\ env' = env
    BY <1>2, TxTypes DEF StreamType, NodeType, WireType, CallerStep, Execute, CreateTxContext, TriggerExecute,
                         ReceiveResponse, Timeout, DeleteTxContext
  <2>1. \A t \in Txids : t # u => Inside(t)' = Inside(t) /\ txCtxs'[t] = txCtxs[t]
    BY <1>2, <2>0 DEF Inside, TxOf, CallerStep, Execute, CreateTxContext, TriggerExecute,
                      ReceiveResponse, Timeout, DeleteTxContext
  <2>2. CASE Execute(c) \/ (CreateTxContext(c) /\ txCtxs[u] # None)
    <3>1. Inside(u)' = Inside(u) /\ txCtxs' = txCtxs
      BY <2>0, <2>2 DEF Inside, TxOf, Execute, CreateTxContext
    <3> QED BY <2>1, <3>1 DEF Owned
  <2>3. CASE CreateTxContext(c) /\ txCtxs[u] = None
    <3>1. Inside(u) = {}
      BY <2>0, <2>3 DEF Owned
    <3>2. exec' = [exec EXCEPT ![c] = "sending"] /\ txCtxs' = [txCtxs EXCEPT ![u] = <<>>]
      BY <2>3 DEF CreateTxContext
    <3>3. Inside(u)' = {c}
      BY <2>0, <3>1, <3>2 DEF Inside, TxOf
    <3>4. txCtxs'[u] # None
      BY <2>0, <3>2, ContextFacts
    <3> QED BY <2>1, <3>3, <3>4 DEF Owned
  <2>4. CASE TriggerExecute(c) \/ Timeout(c) \/ ReceiveResponse(c)
    <3>1. txCtxs[u] # None /\ Inside(u) = {c}
      BY <2>4, InsideHasContext DEF TriggerExecute, Timeout, ReceiveResponse
    <3>2. Inside(u)' = Inside(u)
      BY <2>0, <2>4, <3>1 DEF Inside, TxOf, TriggerExecute, Timeout, ReceiveResponse
    <3>3. txCtxs'[u] # None
      BY <2>0, <2>4, <3>1, ContextFacts DEF TriggerExecute, Timeout, ReceiveResponse
    <3> QED BY <2>1, <3>1, <3>2, <3>3 DEF Owned
  <2>5. CASE DeleteTxContext(c)
    <3>1. Inside(u) = {c}
      BY <2>5, InsideHasContext DEF DeleteTxContext
    <3>2. exec' = [exec EXCEPT ![c] = "returned"] /\ txCtxs' = [txCtxs EXCEPT ![u] = None]
      BY <2>5 DEF DeleteTxContext
    <3>3. Inside(u)' = {} /\ txCtxs'[u] = None
      BY <2>0, <3>1, <3>2 DEF Inside, TxOf
    <3> QED BY <2>1, <3>3 DEF Owned
  <2> QED BY <1>2, <2>2, <2>3, <2>4, <2>5 DEF CallerStep
<1> QED BY <1>1, <1>2, SameContexts

-----------------------------------------------------------------------------
(* The start of contracts, and their channels *)

(* Only Execute sends the message that starts a contract. *)
LEMMA NewToShim ==
  ASSUME StreamType, [Next]_vars
  PROVE  \/ \E c \in Callers : TriggerExecute(c)
         \/ \A m \in toShim' : m \in toShim \/ m.type \in Outcomes \union Replies
<1>1. ASSUME NEW m \in Messages, NEW send \in BOOLEAN, m.type \in Outcomes, Notify(m, send)
      PROVE  \A k \in toShim' : k \in toShim \/ k.type \in Outcomes
  BY <1>1, NotifyFacts
<1>2. CASE NotifyResumes
  <2>1. loop.msg \in Messages /\ loop.msg.type \in Outcomes /\ loop.send \in BOOLEAN
    BY <1>2 DEF NotifyResumes, StreamType, LoopType
  <2> QED BY <1>1, <1>2, <2>1 DEF NotifyResumes
<1>3. ASSUME NEW m \in toPeer, ProcessMessage(m) PROVE \A k \in toShim' : k \in toShim \/ k.type \in Outcomes
  <2>1. m \in Messages
    BY DEF StreamType, WireType
  <2> QED BY <1>1, <1>3, <2>1, Zenon DEF ProcessMessage, Outcomes
<1>4. ASSUME NEW r \in requests, RequestStep(r)
      PROVE  \A k \in toShim' : k \in toShim \/ k.type \in Outcomes \union Replies
  <2>1. r.msg \in Messages /\ (r.pc \in {"served", "trigger"} => r.answer \in Replies)
    BY DEF StreamType, RequestType
  <2>2. Answer(r.msg, "ERROR") \in Messages /\ Answer(r.msg, "ERROR").type = "ERROR"
    BY <2>1, AnswerFacts DEF Replies
  <2>3. CASE Notify(Answer(r.msg, "ERROR"), TRUE)
    BY <1>1, <2>2, <2>3, Zenon DEF Outcomes
  <2>4. CASE r.pc \in {"served", "trigger"} /\ SendToShim({Answer(r.msg, r.answer)})
    BY <2>1, <2>4, AnswerFacts, SMT, Z3 DEF SendToShim
  <2>5. CASE toShim' = toShim
    BY <2>5
  <2> QED BY <1>4, <2>3, <2>4, <2>5, Zenon DEF RequestStep, CreateTXIDEntry, Serve, DeleteTXIDEntry, TriggerAnswer
<1>5. ASSUME NEW c \in Callers, CallerStep(c), ~TriggerExecute(c) PROVE toShim' = toShim
  BY <1>5 DEF CallerStep, Execute, CreateTxContext, ReceiveResponse, Timeout, DeleteTxContext
<1>6. CASE \/ \E m \in toShim : ShimReceive(m)
           \/ \E c \in Callers : ContractStep(c)
           \/ SendChannel \/ ContainerDies \/ StreamEnds \/ UNCHANGED vars
  BY <1>6, Zenon DEF ShimReceive, ContractStep, ContractCalls, DeleteChannel, ContractEnds, SendChannel,
              ContainerDies, StreamEnds, vars, nodeVars
<1> QED BY <1>2, <1>3, <1>4, <1>5, <1>6 DEF Next

(* The runs of contracts change only in the container. *)
LEMMA SameRuns ==
  ASSUME [Next]_vars
  PROVE  \/ \E m \in toShim : ShimReceive(m)
         \/ \E c \in Callers : ContractStep(c)
         \/ SendChannel
         \/ UNCHANGED <<env, runs, channels, shim>>
BY ZenonT(40) DEF Next, CallerStep, Execute, CreateTxContext, TriggerExecute, ReceiveResponse, Timeout, DeleteTxContext,
       ProcessMessage, RequestStep, CreateTXIDEntry, Serve, DeleteTXIDEntry, TriggerAnswer,
       NotifyResumes, ContainerDies, StreamEnds, vars, shimVars

(* A run that goes on, and one that starts. *)
LEMMA RunSteps ==
  ASSUME StreamType, Started, Channelled, [Next]_vars
  PROVE  /\ env' = env
         /\ \A c \in Callers : \/ runs'[c].pc = runs[c].pc
                               \/ runs[c].pc # "none" /\ runs'[c].pc # "none"
                               \/ runs[c].pc = "none" /\ StartMsg(c) \in toShim /\ toShim' = toShim \ {StartMsg(c)}
                                  /\ runs'[c].pc = "running"
<1>0. runs \in [Callers -> [pc : {"none", "running", "calling", "received", "done"},
                            n : 0 .. MaxRequests, msg : Messages \union {None}]]
  BY DEF StreamType, ShimType
<1>1. CASE UNCHANGED <<env, runs, channels, shim>>
  BY <1>1
<1>2. ASSUME NEW m \in toShim, ShimReceive(m), NEW c \in Callers
      PROVE  env' = env /\ (runs'[c].pc = runs[c].pc
               \/ (runs[c].pc = "none" /\ StartMsg(c) \in toShim /\ toShim' = toShim \ {StartMsg(c)}
                   /\ runs'[c].pc = "running"))
  <2>1. m \in Messages /\ m.run \in Callers
    BY TxTypes DEF StreamType, WireType
  <2>2. CASE m.type \in Starts /\ c = m.run
    <3>1. m = StartMsg(c) /\ runs[c].pc = "none"
      BY <2>2 DEF Started
    <3>2. runs' = [runs EXCEPT ![c].pc = "running"] /\ toShim' = toShim \ {m}
      BY <1>2, <2>2 DEF ShimReceive, Starts
    <3> QED BY <1>0, <1>2, <3>1, <3>2 DEF ShimReceive
  <2>3. CASE m.type \notin Starts \/ c # m.run
    BY <1>0, <1>2, <2>1, <2>3 DEF ShimReceive, Starts
  <2> QED BY <2>2, <2>3
<1>3. ASSUME NEW d \in Callers, ContractStep(d), NEW c \in Callers
      PROVE  env' = env /\ (runs'[c].pc = runs[c].pc \/ (runs[c].pc # "none" /\ runs'[c].pc # "none"))
  BY <1>0, <1>3, SMT, Z3 DEF ContractStep, ContractCalls, DeleteChannel, ContractEnds
<1>4. ASSUME SendChannel, NEW c \in Callers
      PROVE  env' = env /\ (runs'[c].pc = runs[c].pc \/ (runs[c].pc # "none" /\ runs'[c].pc # "none"))
  BY <1>0, <1>4 DEF SendChannel
<1>5. env' = env
  BY <1>1, Zenon DEF Next, CallerStep, Execute, CreateTxContext, TriggerExecute, ReceiveResponse, Timeout, DeleteTxContext,
       ProcessMessage, RequestStep, CreateTXIDEntry, Serve, DeleteTXIDEntry, TriggerAnswer,
       NotifyResumes, ContainerDies, StreamEnds, vars, shimVars, ShimReceive, ContractStep, ContractCalls,
       DeleteChannel, ContractEnds, SendChannel
<1> QED BY <1>1, <1>2, <1>3, <1>4, <1>5, SameRuns

(* A contract is started at most once. *)
LEMMA StartedNext ==
  ASSUME StreamType, Started, Channelled, [Next]_vars
  PROVE  Started'
<1>1. env' = env /\ \A c \in Callers : StartMsg(c)' = StartMsg(c)
  BY RunSteps DEF StartMsg
<1>2. \A c \in Callers : Sent(c) => Sent(c)'
  <2>1. exec \in [Callers -> {"idle", "found", "sending", "waiting", "returning", "returned", "failed"}]
    BY DEF StreamType, NodeType
  <2>2. ASSUME NEW d \in Callers, CallerStep(d), NEW c \in Callers, Sent(c) PROVE Sent(c)'
    BY <2>1, <2>2 DEF Sent, CallerStep, Execute, CreateTxContext, TriggerExecute, ReceiveResponse, Timeout, DeleteTxContext
  <2> QED BY <2>2, SameContexts DEF Sent
<1>3. \A c \in Callers : runs'[c].pc # "none" => Sent(c)'
  <2>1. \A m \in toShim : m.type \in Starts => Sent(m.run)
    BY DEF Started
  <2>2. \A c \in Callers : StartMsg(c).type \in Starts /\ StartMsg(c).run = c
    BY DEF StartMsg, Starts
  <2> QED BY <1>2, <2>1, <2>2, RunSteps, SMT, Z3 DEF Started
<1>4. ASSUME NEW m \in toShim', m.type \in Starts
      PROVE  m = StartMsg(m.run) /\ runs'[m.run].pc = "none" /\ Sent(m.run)'
  <2>1. CASE m \in toShim
    <3>1. m = StartMsg(m.run) /\ runs[m.run].pc = "none" /\ Sent(m.run) /\ m.run \in Callers
      BY <1>4, <2>1, TxTypes DEF Started, StreamType, WireType
    <3> QED BY <1>2, <3>1, RunSteps, SMT, Zenon
  <2>2. CASE m \notin toShim
    <3>1. m.type \notin Outcomes \union Replies
      BY <1>4 DEF Starts, Outcomes, Replies
    <3>2. PICK c \in Callers : TriggerExecute(c)
      BY <2>2, <3>1, NewToShim
    <3>3. m = StartMsg(c) /\ exec[c] = "sending" /\ exec' = [exec EXCEPT ![c] = "waiting"] /\ runs' = runs
      BY <2>2, <3>2 DEF TriggerExecute, SendToShim, StartMsg, shimVars
    <3>4. runs[c].pc = "none"
      BY <3>3 DEF Started, Sent
    <3>5. m.run = c /\ exec'[c] = "waiting"
      BY <3>3 DEF StartMsg, StreamType, NodeType
    <3> QED BY <3>3, <3>4, <3>5 DEF Sent
  <2> QED BY <2>1, <2>2
<1> QED BY <1>1, <1>3, <1>4 DEF Started, StartMsg

(* One run at a time waits on the channel of a transaction. *)
LEMMA ChannelledNext ==
  ASSUME StreamType, Started, Channelled, [Next]_vars
  PROVE  Channelled'
<1> DEFINE Waits(c) == runs[c].pc \in {"calling", "received"}
           WaitsThen(c) == runs'[c].pc \in {"calling", "received"}
<1>0. /\ runs \in [Callers -> [pc : {"none", "running", "calling", "received", "done"},
                               n : 0 .. MaxRequests, msg : Messages \union {None}]]
      /\ channels \in [Txids -> Callers \union {None}] /\ None \notin Callers
      /\ env \in Environments /\ env' = env
      /\ \A c \in Callers : TxOf(c) \in Txids /\ TxOf(c)' = TxOf(c)
      /\ \A m : Tx(m)' = Tx(m)
  BY StreamAssumption, RunSteps, TxTypes DEF StreamType, ShimType, WireType, TxOf, Tx
<1>1. CASE UNCHANGED <<env, runs, channels, shim>>
  BY <1>0, <1>1, SMT, Z3 DEF Channelled
<1>2. ASSUME NEW m \in toShim, ShimReceive(m) PROVE Channelled'
  <2>1. \A c \in Callers : WaitsThen(c) <=> Waits(c)
    BY <1>0, <1>2, SMT, Z3 DEF ShimReceive, Started, Starts
  <2>2. shim'.pc = "sendChannel" => channels[Tx(shim'.msg)] # None
    BY <1>2, SMT, Z3 DEF ShimReceive, Channelled
  <2> QED BY <1>0, <1>2, <2>1, <2>2, SMT, Z3 DEF ShimReceive, Channelled
<1>3. CASE SendChannel
  <2>1. \A c \in Callers : WaitsThen(c) <=> Waits(c)
    BY <1>0, <1>3 DEF SendChannel
  <2>2. shim'.pc # "sendChannel" /\ channels' = channels
    BY <1>3 DEF SendChannel, Selecting
  <2> QED BY <1>0, <2>1, <2>2, SMT, Z3 DEF Channelled
<1>4. ASSUME NEW c \in Callers, NEW type \in env.types, ContractCalls(c, type) PROVE Channelled'
  <2>0. ~Waits(c) /\ shim' = shim /\ shim.pc # "sendChannel"
    BY <1>4 DEF ContractCalls
  <2>1. CASE channels[TxOf(c)] # None
    <3>1. channels' = channels /\ \A d \in Callers : WaitsThen(d) <=> Waits(d)
      BY <1>0, <1>4, <2>1, SMT, Zenon DEF ContractCalls
    <3> QED BY <1>0, <2>0, <3>1, SMT, Z3 DEF Channelled
  <2>2. CASE channels[TxOf(c)] = None
    <3>1. /\ channels' = [channels EXCEPT ![TxOf(c)] = c] /\ WaitsThen(c)
          /\ \A d \in Callers : d # c => (WaitsThen(d) <=> Waits(d))
      BY <1>0, <1>4, <2>2, SMT, Z3 DEF ContractCalls
    <3>2. \A t \in Txids : channels'[t] # None => channels'[t] \in Callers /\ TxOf(channels'[t]) = t /\ WaitsThen(channels'[t])
      BY <1>0, <2>0, <3>1, SMT, Z3 DEF Channelled
    <3>3. \A d \in Callers : WaitsThen(d) => channels'[TxOf(d)] = d
      BY <1>0, <2>2, <3>1, SMT, Z3 DEF Channelled
    <3> QED BY <1>0, <2>0, <3>2, <3>3, SMT, Z3 DEF Channelled
  <2> QED BY <2>1, <2>2
<1>5. ASSUME NEW c \in Callers, DeleteChannel(c) PROVE Channelled'
  <2>1. /\ Waits(c) /\ ~WaitsThen(c) /\ (\A d \in Callers : d # c => (WaitsThen(d) <=> Waits(d)))
        /\ channels' = [channels EXCEPT ![TxOf(c)] = None] /\ shim' = shim /\ shim.pc # "sendChannel"
    BY <1>0, <1>5 DEF DeleteChannel
  <2>2. channels[TxOf(c)] = c
    BY <2>1 DEF Channelled
  <2>3. \A t \in Txids : channels'[t] # None => channels'[t] \in Callers /\ TxOf(channels'[t]) = t /\ WaitsThen(channels'[t])
    BY <1>0, <2>1, <2>2, SMT, Z3 DEF Channelled
  <2>4. \A d \in Callers : WaitsThen(d) => channels'[TxOf(d)] = d
    BY <1>0, <2>1, <2>2, SMT, Z3 DEF Channelled
  <2> QED BY <1>0, <2>1, <2>3, <2>4, SMT, Z3 DEF Channelled
<1>6. ASSUME NEW c \in Callers, NEW type, ContractEnds(c, type) PROVE Channelled'
  <2>1. channels' = channels /\ \A d \in Callers : WaitsThen(d) <=> Waits(d)
    BY <1>0, <1>6 DEF ContractEnds
  <2>2. shim'.pc = "sendChannel" => channels[Tx(shim'.msg)] # None
    BY <1>6 DEF ContractEnds, Tx
  <2> QED BY <1>0, <2>1, <2>2, SMT, Z3 DEF Channelled
<1> QED BY <1>1, <1>2, <1>3, <1>4, <1>5, <1>6, SameRuns DEF ContractStep

(* A transaction in txidMap has a request in progress. *)
LEMMA MarkedNext ==
  ASSUME StreamType, Started, Channelled, Marked, [Next]_vars
  PROVE  Marked'
<1>0. env' = env /\ \A m : Tx(m)' = Tx(m)
  BY RunSteps DEF Tx, TxOf
<1>1. CASE txidMap' = txidMap /\ requests \subseteq requests'
  BY <1>0, <1>1 DEF Marked
<1>2. ASSUME NEW r \in requests, RequestStep(r) PROVE Marked'
  <2>0. r \in [pc : {"arrived", "unique", "served", "trigger"}, msg : Messages, answer : {"RESPONSE", "ERROR", None}]
    BY DEF StreamType, RequestType
  <2>1. CASE CreateTXIDEntry(r)
    <3> DEFINE q == [r EXCEPT !.pc = "unique"]
    <3>1. q.pc = "unique" /\ q.msg = r.msg
      BY <2>0
    <3>2. r.pc = "arrived" /\ requests \ {r} \subseteq requests'
      BY <2>1 DEF CreateTXIDEntry
    <3>3. txidMap' = txidMap \/ (txidMap' = txidMap \union {Tx(r.msg)} /\ q \in requests')
      BY <2>1 DEF CreateTXIDEntry
    <3> HIDE DEF q
    <3> QED BY <1>0, <3>1, <3>2, <3>3 DEF Marked
  <2>2. ASSUME NEW a, Serve(r, a) PROVE Marked'
    <3> DEFINE q == [pc |-> "served", msg |-> r.msg, answer |-> a]
    <3>1. q.pc = "served" /\ q.msg = r.msg
      OBVIOUS
    <3>2. requests' = (requests \ {r}) \union {q} /\ txidMap' = txidMap
      BY <2>2 DEF Serve
    <3> HIDE DEF q
    <3> QED BY <1>0, <3>1, <3>2 DEF Marked
  <2>3. CASE DeleteTXIDEntry(r)
    <3>1. txidMap' = txidMap \ {Tx(r.msg)} /\ requests \ {r} \subseteq requests'
      BY <2>3 DEF DeleteTXIDEntry
    <3> QED BY <1>0, <3>1 DEF Marked
  <2>4. CASE TriggerAnswer(r)
    <3>1. txidMap' = txidMap /\ requests' = requests \ {r} /\ r.pc = "trigger"
      BY <2>4 DEF TriggerAnswer
    <3> QED BY <1>0, <3>1 DEF Marked
  <2> QED BY <1>2, <2>1, <2>2, <2>3, <2>4 DEF RequestStep
<1>3. CASE ~\E r \in requests : RequestStep(r)
  <2>1. txidMap' = txidMap /\ requests \subseteq requests'
    BY <1>3, ZenonT(40) DEF Next, CallerStep, Execute, CreateTxContext, TriggerExecute, ReceiveResponse, Timeout, DeleteTxContext,
       ProcessMessage, NotifyResumes, ContainerDies, StreamEnds, vars, nodeVars, ShimReceive, ContractStep, ContractCalls,
       DeleteChannel, ContractEnds, SendChannel
  <2> QED BY <1>1, <2>1
<1> QED BY <1>2, <1>3

-----------------------------------------------------------------------------
(* What holds in every state *)

(* The first state. *)
LEMMA StreamInvInit == Init => StreamInv
<1> SUFFICES ASSUME Init PROVE StreamInv
  OBVIOUS
<1>1. StreamType
  BY TypeInit
<1>2. Owned /\ Started /\ Channelled /\ Marked
  BY DEF Init, Owned, Inside, Started, Channelled, Marked, Selecting
<1> QED BY <1>1, <1>2 DEF StreamInv

(* Every step keeps the invariant. *)
LEMMA StreamInvNext == StreamInv /\ [Next]_vars => StreamInv'
BY TypeNext, OwnedNext, StartedNext, ChannelledNext, MarkedNext DEF StreamInv

(* The invariant holds in every state. *)
LEMMA StreamInvariant == Spec => []StreamInv
BY StreamInvInit, StreamInvNext, PTL DEF Spec

(* A transaction has a context exactly while one call of Execute with its id *)
(* is between createTxContext and deleteTxContext, whatever ids are shared,  *)
(* and its responseNotifier holds one message at most.                       *)
THEOREM ContextAlwaysOwned == Spec => []ContextOwned
<1>1. StreamInv => ContextOwned
  <2> SUFFICES ASSUME StreamInv PROVE ContextOwned
    OBVIOUS
  <2>1. ASSUME NEW t \in Txids, txCtxs[t] # None
        PROVE  txCtxs[t] \in Seq(Messages) /\ Len(txCtxs[t]) <= 1
    <3>1. txCtxs[t] \in Contexts
      BY DEF StreamInv, StreamType, NodeType
    <3>2. txCtxs[t] = <<>> \/ \E m \in Messages : txCtxs[t] = <<m>>
      BY <2>1, <3>1, ContextFacts
    <3>3. CASE txCtxs[t] = <<>>
      BY <3>3
    <3>4. ASSUME NEW m \in Messages, txCtxs[t] = <<m>>
          PROVE  txCtxs[t] \in Seq(Messages) /\ Len(txCtxs[t]) <= 1
      <4>1. <<m>> \in Seq(Messages) /\ Len(<<m>>) = 1
        OBVIOUS
      <4> QED BY <3>4, <4>1
    <3> QED BY <3>2, <3>3, <3>4
  <2>2. TypeOK
    BY <2>1 DEF StreamInv, StreamType, NodeType, LoopType, RequestType, ShimType, WireType, TypeOK
  <2> QED BY <2>2 DEF StreamInv, Owned, Inside, ContextOwned
<1> QED BY <1>1, StreamInvariant, PTL

-----------------------------------------------------------------------------
(***************************************************************************)
(* A contract gets the answers to its own requests and Execute the outcome *)
(* of its own contract: every run has at most one request under way, in    *)
(* one of five places.                                                     *)
(***************************************************************************)

\* Where the one request of run c is: on the way to the node, served, answered,
\* in the notifier, or with the shim.
Asked(c) == {m \in toPeer : m.type \in RequestTypes /\ m.run = c}
Serving(c) == {r \in requests : r.msg.run = c}
Answered(c) == {m \in toShim : m.type \in Replies /\ m.run = c}
Blocked(c) == {m \in {loop.msg} : loop.pc = "notify" /\ loop.send /\ m.run = c}
Delivered(c) == {m \in {shim.msg} : shim.pc = "sendChannel" /\ m.run = c}

\* At most one element in all of the sets.
Single(A, B, C, D, E) ==
  /\ \A x, y \in A : x = y
  /\ \A x, y \in B : x = y
  /\ \A x, y \in C : x = y
  /\ \A x, y \in D : x = y
  /\ \A x, y \in E : x = y
  /\ A # {} => B = {} /\ C = {} /\ D = {} /\ E = {}
  /\ B # {} => C = {} /\ D = {} /\ E = {}
  /\ C # {} => D = {} /\ E = {}
  /\ D # {} => E = {}

Current(m) == runs[m.run].pc = "calling" /\ m.n = runs[m.run].n

Token(c) ==
  /\ Single(Asked(c), Serving(c), Answered(c), Blocked(c), Delivered(c))
  /\ \A m \in Asked(c) \union Answered(c) \union Blocked(c) \union Delivered(c) : Current(m)
  /\ \A r \in Serving(c) : Current(r.msg)

\* Conditions as in the properties: no deploy with an id that another call uses.
Tokens ==
  ~DeployRetried => /\ \A c \in Callers : Token(c)
                    /\ shim.pc = "sendChannel" => ~shim.send
                    /\ AnswerIsMine

\* The outcome of a run that is over.
Ended(m) == runs[m.run].pc = "done" /\ m.n = 0
EndedThen(m) == runs'[m.run].pc = "done" /\ m.n = 0
\* Only enterBusyState answers through nextState, and it fails a request only when
\* the call of Execute has returned.
FailedLate(r) ==
  /\ r.pc = "trigger" => r.msg.type \in BusyRequests
  /\ r.pc \in {"served", "trigger"} /\ r.answer = "ERROR" /\ r.msg.type \in BusyRequests => exec[r.msg.run] = "returned"
Reported ==
  Calm => /\ \A c \in Callers : result[c] # None => result[c].run = c /\ Ended(result[c])
          /\ \A t \in Txids : \A m \in Messages : txCtxs[t] = <<m>> => Tx(m) = t /\ Ended(m)
          /\ \A m \in toPeer : m.type \in Outcomes => Ended(m)
          /\ loop.pc = "notify" => Ended(loop.msg) /\ ~loop.send
          /\ \A r \in requests : FailedLate(r)


-----------------------------------------------------------------------------
(* One request at a time *)

(* Where an element of one of the sets is the only one. *)
LEMMA SingleFacts ==
  ASSUME NEW A, NEW B, NEW C, NEW D, NEW E, Single(A, B, C, D, E)
  PROVE  /\ \A x \in A : A = {x} /\ B = {} /\ C = {} /\ D = {} /\ E = {}
         /\ \A x \in B : A = {} /\ B = {x} /\ C = {} /\ D = {} /\ E = {}
         /\ \A x \in C : A = {} /\ B = {} /\ C = {x} /\ D = {} /\ E = {}
         /\ \A x \in D : A = {} /\ B = {} /\ C = {} /\ D = {x} /\ E = {}
         /\ \A x \in E : A = {} /\ B = {} /\ C = {} /\ D = {} /\ E = {x}
BY DEF Single

(* The five ways to have at most one element. *)
LEMMA SingleOf ==
  ASSUME NEW A, NEW B, NEW C, NEW D, NEW E, NEW x,
         \/ A \subseteq {x} /\ B = {} /\ C = {} /\ D = {} /\ E = {}
         \/ A = {} /\ B \subseteq {x} /\ C = {} /\ D = {} /\ E = {}
         \/ A = {} /\ B = {} /\ C \subseteq {x} /\ D = {} /\ E = {}
         \/ A = {} /\ B = {} /\ C = {} /\ D \subseteq {x} /\ E = {}
         \/ A = {} /\ B = {} /\ C = {} /\ D = {} /\ E \subseteq {x}
  PROVE  Single(A, B, C, D, E)
BY DEF Single

(* A run that is not calling has nothing under way. *)
LEMMA TokenIdle ==
  ASSUME NEW c \in Callers, Token(c), runs[c].pc # "calling"
  PROVE  Asked(c) = {} /\ Serving(c) = {} /\ Answered(c) = {} /\ Blocked(c) = {} /\ Delivered(c) = {}
<1>1. \A m \in Asked(c) \union Answered(c) \union Blocked(c) \union Delivered(c) : m.run = c
  BY DEF Asked, Answered, Blocked, Delivered
<1>2. \A r \in Serving(c) : r.msg.run = c
  BY DEF Serving
<1> QED BY <1>1, <1>2 DEF Token, Current

(* A step that adds nothing for a run. *)
Shrinks(c) ==
  /\ Asked(c)' \subseteq Asked(c) /\ Serving(c)' \subseteq Serving(c) /\ Answered(c)' \subseteq Answered(c)
  /\ Blocked(c)' \subseteq Blocked(c) /\ Delivered(c)' \subseteq Delivered(c)
  /\ \/ runs'[c].pc = runs[c].pc /\ runs'[c].n = runs[c].n
     \/ runs[c].pc # "calling"
LEMMA TokenKept ==
  ASSUME NEW c \in Callers, Token(c), Shrinks(c)
  PROVE  Token(c)'
<1> USE DEF Shrinks
<1>1. Single(Asked(c)', Serving(c)', Answered(c)', Blocked(c)', Delivered(c)')
  BY DEF Token, Single
<1>2. CASE runs[c].pc # "calling"
  <2>1. Asked(c)' = {} /\ Serving(c)' = {} /\ Answered(c)' = {} /\ Blocked(c)' = {} /\ Delivered(c)' = {}
    BY <1>2, TokenIdle
  <2> QED BY <1>1, <2>1, Zenon DEF Token
<1>3. CASE runs'[c].pc = runs[c].pc /\ runs'[c].n = runs[c].n
  <2>1. \A m \in Asked(c)' \union Answered(c)' \union Blocked(c)' \union Delivered(c)' : m.run = c /\ Current(m)
    BY Zenon DEF Token, Asked, Answered, Blocked, Delivered
  <2>2. \A r \in Serving(c)' : r.msg.run = c /\ Current(r.msg)
    BY DEF Token, Serving
  <2>3. \A m \in Asked(c)' \union Answered(c)' \union Blocked(c)' \union Delivered(c)' : Current(m)'
    BY <1>3, <2>1 DEF Current
  <2>4. \A r \in Serving(c)' : Current(r.msg)'
    BY <1>3, <2>2 DEF Current
  <2> QED BY <1>1, <2>3, <2>4 DEF Token
<1> QED BY <1>2, <1>3

(* The request of a run moves to another place. *)
LEMMA TokenMoves ==
  ASSUME NEW c \in Callers, NEW x, NEW y, NEW n, runs'[c].pc = "calling", runs'[c].n = n,
         x.n = n, y.msg.n = n,
         \/ Asked(c)' \subseteq {x} /\ Serving(c)' = {} /\ Answered(c)' = {} /\ Blocked(c)' = {} /\ Delivered(c)' = {}
         \/ Asked(c)' = {} /\ Serving(c)' \subseteq {y} /\ Answered(c)' = {} /\ Blocked(c)' = {} /\ Delivered(c)' = {}
         \/ Asked(c)' = {} /\ Serving(c)' = {} /\ Answered(c)' \subseteq {x} /\ Blocked(c)' = {} /\ Delivered(c)' = {}
         \/ Asked(c)' = {} /\ Serving(c)' = {} /\ Answered(c)' = {} /\ Blocked(c)' \subseteq {x} /\ Delivered(c)' = {}
         \/ Asked(c)' = {} /\ Serving(c)' = {} /\ Answered(c)' = {} /\ Blocked(c)' = {} /\ Delivered(c)' \subseteq {x}
  PROVE  Token(c)'
<1>1. Single(Asked(c)', Serving(c)', Answered(c)', Blocked(c)', Delivered(c)')
  BY SingleOf, Zenon
<1>2. \A m \in Asked(c)' \union Answered(c)' \union Blocked(c)' \union Delivered(c)' : m.run = c /\ m.n = n
  BY DEF Asked, Answered, Blocked, Delivered
<1>3. \A r \in Serving(c)' : r.msg.run = c /\ r.msg.n = n
  BY DEF Serving
<1>4. \A m \in Asked(c)' \union Answered(c)' \union Blocked(c)' \union Delivered(c)' : Current(m)'
  BY <1>2 DEF Current
<1>5. \A r \in Serving(c)' : Current(r.msg)'
  BY <1>3 DEF Current
<1> QED BY <1>1, <1>4, <1>5 DEF Token

(* Requests, answers, outcomes and starts are different messages. *)
LEMMA TypesApart ==
  /\ RequestTypes \intersect (Outcomes \union Replies \union Starts) = {}
  /\ Starts \intersect (Outcomes \union Replies) = {}
BY DEF RequestTypes, Outcomes, Replies, Starts

(* Without a shared id, the ERROR of a failed Init meets no channel. *)
LEMMA OutcomeIsSent ==
  ASSUME StreamInv, ~DeployRetried, NEW c \in Callers, NEW type \in Outcomes, ContractEnds(c, type)
  PROVE  shim' = shim /\ toPeer' = toPeer \union {[type |-> type, run |-> c, n |-> 0]}
<1>1. CASE type = "ERROR" /\ channels[TxOf(c)] # None
  <2> DEFINE d == channels[TxOf(c)]
  <2>1. TxOf(c) \in Txids /\ channels \in [Txids -> Callers \union {None}]
    BY TxTypes DEF StreamInv, StreamType, ShimType, WireType
  <2>2. d \in Callers /\ TxOf(d) = TxOf(c) /\ runs[d].pc \in {"calling", "received"}
    BY <1>1, <2>1, SMT, Z3 DEF StreamInv, Channelled
  <2>3. d # c /\ c \in env.deploys
    BY <1>1, <2>2 DEF ContractEnds
  <2> QED BY <2>2, <2>3 DEF DeployRetried, Retries
<1>2. CASE ~(type = "ERROR" /\ channels[TxOf(c)] # None)
  BY <1>2 DEF ContractEnds
<1> QED BY <1>1, <1>2

(* The steps that do not touch a request. *)
LEMMA TokenOthers ==
  ASSUME StreamInv, ~DeployRetried, NEW d \in Callers, Token(d),
         \/ \E c \in Callers : CallerStep(c) \/ DeleteChannel(c) \/ \E type \in Outcomes : ContractEnds(c, type)
         \/ StreamEnds \/ ContainerDies \/ UNCHANGED vars
  PROVE  Token(d)'
<1>0. runs \in [Callers -> [pc : {"none", "running", "calling", "received", "done"},
                            n : 0 .. MaxRequests, msg : Messages \union {None}]]
  BY DEF StreamInv, StreamType, ShimType
<1>1. ASSUME NEW c \in Callers, CallerStep(c) PROVE Token(d)'
  <2>1. UNCHANGED <<loop, requests, runs, shim, toPeer>>
    BY <1>1, Zenon DEF CallerStep, Execute, CreateTxContext, TriggerExecute, ReceiveResponse, Timeout, DeleteTxContext,
                shimVars
  <2>2. \A m \in toShim' : m \in toShim \/ m.type \notin Replies
    <3>1. CASE TriggerExecute(c)
      <4> DEFINE x == [type |-> IF c \in env.deploys THEN "INIT" ELSE "TRANSACTION", run |-> c, n |-> 0]
      <4>1. x.type \notin Replies
        BY DEF Replies
      <4>2. SendToShim({x})
        BY <3>1, Zenon DEF TriggerExecute
      <4> HIDE DEF x
      <4> QED BY <4>1, <4>2 DEF SendToShim
    <3>2. CASE ~TriggerExecute(c)
      <4>1. toShim' = toShim
        BY <1>1, <3>2, ZenonT(40) DEF CallerStep, Execute, CreateTxContext, ReceiveResponse, Timeout, DeleteTxContext
      <4> QED BY <4>1, Zenon
    <3> QED BY <3>1, <3>2, Zenon
  <2> QED
    <3>1. Shrinks(d)
      BY <2>1, <2>2 DEF Shrinks, Asked, Serving, Answered, Blocked, Delivered
    <3> QED BY <3>1, TokenKept
<1>2. ASSUME NEW c \in Callers, DeleteChannel(c) PROVE Token(d)'
  <2>1. UNCHANGED <<loop, requests, shim, toPeer, toShim>>
    BY <1>2 DEF DeleteChannel, nodeVars
  <2>2. runs'[d] = runs[d] \/ runs[d].pc # "calling"
    BY <1>0, <1>2 DEF DeleteChannel
  <2> QED
    <3>1. Shrinks(d)
      BY <2>1, <2>2, Zenon DEF Shrinks, Asked, Serving, Answered, Blocked, Delivered
    <3> QED BY <3>1, TokenKept
<1>3. ASSUME NEW c \in Callers, NEW type \in Outcomes, ContractEnds(c, type) PROVE Token(d)'
  <2>1. UNCHANGED <<loop, requests, toShim>> /\ shim' = shim
    BY <1>3, OutcomeIsSent, Zenon DEF ContractEnds, nodeVars
  <2>2. \A m \in toPeer' : m \in toPeer \/ m.type \notin RequestTypes
    BY <1>3, OutcomeIsSent, TypesApart, SMT, Z3
  <2>3. runs'[d] = runs[d] \/ runs[d].pc # "calling"
    BY <1>0, <1>3 DEF ContractEnds
  <2> QED
    <3>1. Shrinks(d)
      BY <2>1, <2>2, <2>3 DEF Shrinks, Asked, Serving, Answered, Blocked, Delivered
    <3> QED BY <3>1, TokenKept
<1>4. CASE StreamEnds \/ ContainerDies \/ UNCHANGED vars
  <2>1. UNCHANGED <<requests, runs, shim, toPeer>> /\ toShim' \subseteq toShim
    BY <1>4 DEF StreamEnds, ContainerDies, vars, nodeVars, shimVars
  <2>2. loop' = loop \/ loop'.pc = "ended"
    BY <1>4 DEF StreamEnds, ContainerDies, vars, nodeVars, Selecting
  <2> QED
    <3>1. Shrinks(d)
      BY <2>1, <2>2 DEF Shrinks, Asked, Serving, Answered, Blocked, Delivered
    <3> QED BY <3>1, TokenKept
<1> QED BY <1>1, <1>2, <1>3, <1>4

(* A contract asks. *)
LEMMA TokenCalls ==
  ASSUME StreamInv, NEW d \in Callers, Token(d), NEW c \in Callers, NEW type \in env.types, ContractCalls(c, type)
  PROVE  Token(d)'
<1> DEFINE request == [type |-> type, run |-> c, n |-> runs[c].n + 1]
<1>0. /\ runs \in [Callers -> [pc : {"none", "running", "calling", "received", "done"},
                               n : 0 .. MaxRequests, msg : Messages \union {None}]]
      /\ UNCHANGED <<loop, requests, toShim, shim>> /\ runs[c].pc = "running"
  BY DEF StreamInv, StreamType, ShimType, ContractCalls, nodeVars
<1>1. CASE channels[TxOf(c)] # None \/ d # c
  <2>1. \A m \in toPeer' : m \in toPeer \/ m.run # d
    BY <1>1, SMT, Z3 DEF ContractCalls
  <2>2. runs'[d] = runs[d] \/ runs[d].pc # "calling"
    BY <1>0 DEF ContractCalls
  <2> QED
    <3>1. Shrinks(d)
      BY <1>0, <2>1, <2>2 DEF Shrinks, Asked, Serving, Answered, Blocked, Delivered
    <3> QED BY <3>1, TokenKept
<1>2. CASE channels[TxOf(c)] = None /\ d = c
  <2>1. /\ runs' = [runs EXCEPT ![c] = [pc |-> "calling", n |-> request.n, msg |-> request]]
        /\ toPeer' = toPeer \union {request}
    BY <1>2 DEF ContractCalls
  <2>2. Asked(c) = {} /\ Serving(c) = {} /\ Answered(c) = {} /\ Blocked(c) = {} /\ Delivered(c) = {}
    BY <1>0, <1>2, TokenIdle, Zenon
  <2>3. Serving(c)' = {} /\ Answered(c)' = {} /\ Blocked(c)' = {} /\ Delivered(c)' = {}
    BY <1>0, <2>2 DEF Serving, Answered, Blocked, Delivered
  <2>4. Asked(c)' \subseteq {request}
    BY <2>1, <2>2 DEF Asked
  <2>5. runs'[c].pc = "calling" /\ runs'[c].n = request.n
    BY <1>0, <2>1
  <2>6. [msg |-> request].msg.n = request.n
    OBVIOUS
  <2> HIDE DEF request
  <2> QED BY <1>2, <2>3, <2>4, <2>5, <2>6, TokenMoves, Zenon
<1> QED BY <1>1, <1>2

(* The answer reaches the contract. *)
LEMMA TokenReceived ==
  ASSUME StreamInv, ~DeployRetried, NEW d \in Callers, \A e \in Callers : Token(e), SendChannel,
         shim.pc = "sendChannel" => ~shim.send
  PROVE  /\ Token(d)'
         /\ d = shim.msg.run => runs' = [runs EXCEPT ![d] = [pc |-> "received", n |-> runs[d].n, msg |-> shim.msg]]
                                /\ runs[d].n = shim.msg.n
         /\ d # shim.msg.run => runs'[d] = runs[d]
<1> DEFINE c == shim.msg.run
<1>0. /\ runs \in [Callers -> [pc : {"none", "running", "calling", "received", "done"},
                               n : 0 .. MaxRequests, msg : Messages \union {None}]]
      /\ shim.pc = "sendChannel" /\ shim.msg \in Messages /\ c \in Callers /\ Tx(shim.msg) = TxOf(c)
  BY TxTypes DEF StreamInv, StreamType, ShimType, WireType, SendChannel, Tx
<1>1. shim.msg \in Delivered(c)
  BY <1>0 DEF Delivered
<1>2. runs[c].pc = "calling" /\ shim.msg.n = runs[c].n
  BY <1>0, <1>1 DEF Token, Current
<1>3. channels[TxOf(c)] = c
  BY <1>0, <1>2 DEF StreamInv, Channelled
<1>4. runs' = [runs EXCEPT ![c] = [pc |-> "received", n |-> runs[c].n, msg |-> shim.msg]]
  BY <1>0, <1>3 DEF SendChannel
<1>5. UNCHANGED <<loop, requests, toShim, toPeer>> /\ shim'.pc = "select"
  BY <1>0 DEF SendChannel, Selecting, nodeVars
<1>6. Token(d)'
  <2>1. Asked(d)' = Asked(d) /\ Serving(d)' = Serving(d) /\ Answered(d)' = Answered(d) /\ Blocked(d)' = Blocked(d)
        /\ Delivered(d)' = {}
    BY <1>5 DEF Asked, Serving, Answered, Blocked, Delivered
  <2>2. CASE d = c
    <3>1. Asked(c) = {} /\ Serving(c) = {} /\ Answered(c) = {} /\ Blocked(c) = {}
      BY <1>0, <1>1, SingleFacts, SMT, Z3 DEF Token
    <3> QED BY <2>1, <2>2, <3>1, SMT, Z3 DEF Token, Single
  <2>3. CASE d # c
    <3>1. runs'[d] = runs[d]
      BY <1>0, <1>4, <2>3
    <3> QED
      <4>1. Shrinks(d)
        BY <2>1, <3>1, Zenon DEF Shrinks
      <4> QED BY <4>1, TokenKept
  <2> QED BY <2>2, <2>3
<1> QED BY <1>0, <1>2, <1>4, <1>6, Zenon

(* The shim receives a message. *)
LEMMA TokenShimReceive ==
  ASSUME StreamInv, NEW d \in Callers, \A e \in Callers : Token(e), NEW m \in toShim, ShimReceive(m)
  PROVE  Token(d)'
<1>0. /\ runs \in [Callers -> [pc : {"none", "running", "calling", "received", "done"},
                               n : 0 .. MaxRequests, msg : Messages \union {None}]]
      /\ UNCHANGED <<loop, requests, toPeer>> /\ toShim' = toShim \ {m} /\ shim.pc = "select"
      /\ m \in Messages /\ m.run \in Callers
  BY TxTypes DEF StreamInv, StreamType, ShimType, WireType, ShimReceive, nodeVars
<1>1. Asked(d)' = Asked(d) /\ Serving(d)' = Serving(d) /\ Answered(d)' = Answered(d) \ {m} /\ Blocked(d)' = Blocked(d)
      /\ Delivered(d) = {}
  BY <1>0 DEF Asked, Serving, Answered, Blocked, Delivered
<1>2. CASE m.type \in Starts
  <2>1. runs[m.run].pc = "none" /\ shim' = shim /\ runs' = [runs EXCEPT ![m.run].pc = "running"]
    BY <1>2 DEF StreamInv, Started, ShimReceive, Starts
  <2>2. runs'[d] = runs[d] \/ runs[d].pc # "calling"
    BY <1>0, <2>1
  <2>3. Delivered(d)' = {}
    BY <1>0, <2>1 DEF Delivered
  <2> QED
    <3>1. Shrinks(d)
      BY <1>1, <2>2, <2>3 DEF Shrinks
    <3> QED BY <3>1, TokenKept
<1>3. CASE m.type \in Replies
  <2>1. runs' = runs /\ (shim' = shim \/ shim' = [pc |-> "sendChannel", msg |-> m, send |-> FALSE])
    BY <1>3 DEF ShimReceive, Starts, Replies
  <2>2. Delivered(d)' \subseteq {m} /\ (d # m.run => Delivered(d)' = {})
    BY <1>0, <2>1, SMT, Z3 DEF Delivered
  <2>3. CASE d # m.run
    <3>1. Shrinks(d)
      <4>1. Delivered(d)' = {} /\ runs' = runs
        BY <2>1, <2>2, <2>3, Zenon
      <4> QED BY <1>1, <4>1 DEF Shrinks
    <3> QED BY <3>1, TokenKept
  <2>4. CASE d = m.run
    <3>1. m \in Answered(d)
      BY <1>3, <2>4 DEF Answered
    <3>2. Asked(d) = {} /\ Serving(d) = {} /\ Answered(d) = {m} /\ Blocked(d) = {}
      BY <3>1, SingleFacts, SMT, Z3 DEF Token
    <3>3. runs'[d].pc = "calling" /\ runs'[d].n = m.n
      BY <2>1, <2>4, <3>1 DEF Token, Current
    <3>4. [msg |-> m].msg.n = m.n
      OBVIOUS
    <3> QED BY <1>1, <2>2, <3>2, <3>3, <3>4, TokenMoves, Zenon
  <2> QED BY <2>3, <2>4
<1> QED BY <1>2, <1>3 DEF ShimReceive, Starts, Replies

(* The node's loop takes a message of the stream. *)
LEMMA TokenProcess ==
  ASSUME StreamInv, NEW d \in Callers, \A e \in Callers : Token(e), NEW m \in toPeer, ProcessMessage(m)
  PROVE  Token(d)'
<1>0. UNCHANGED <<runs, shim>> /\ toPeer' = toPeer \ {m} /\ m \in Messages /\ m.run \in Callers /\ loop.pc = "select"
  BY TxTypes DEF StreamInv, StreamType, WireType, ProcessMessage, shimVars
<1>1. Asked(d)' = Asked(d) \ {m} /\ Delivered(d)' = Delivered(d) /\ Blocked(d) = {}
  BY <1>0 DEF Asked, Delivered, Blocked
<1>2. CASE m.type \in Outcomes
  <2>1. Notify(m, FALSE) /\ UNCHANGED requests
    BY <1>2, TypesApart, Zenon DEF ProcessMessage
  <2>2. toShim' \subseteq toShim /\ (loop' = [pc |-> "notify", msg |-> m, send |-> FALSE] \/ loop' = Selecting)
    BY <1>0, <2>1, NotifyFacts, Zenon DEF StreamInv
  <2>3. Blocked(d)' = {} /\ Answered(d)' \subseteq Answered(d) /\ Serving(d)' = Serving(d)
    <3>1. Blocked(d)' = {}
      BY <2>2 DEF Blocked, Selecting
    <3>2. Answered(d)' \subseteq Answered(d)
      BY <2>2 DEF Answered
    <3>3. Serving(d)' = Serving(d)
      BY <2>1, Zenon DEF Serving
    <3> QED BY <3>1, <3>2, <3>3, ZenonT(40)
  <2> QED
    <3>1. Shrinks(d)
      BY <1>0, <1>1, <2>3, Zenon DEF Shrinks
    <3> QED BY <3>1, TokenKept
<1>3. CASE m.type \in RequestTypes
  <2> DEFINE q == [pc |-> "arrived", msg |-> m, answer |-> None]
  <2>1. UNCHANGED <<loop, toShim>> /\ (requests' = requests \/ requests' = requests \union {q})
    BY <1>3, TypesApart, Zenon DEF ProcessMessage, Outcomes
  <2>2. Blocked(d)' = {} /\ Answered(d)' = Answered(d)
    BY <1>0, <2>1 DEF Blocked, Answered
  <2>3. q.msg = m
    OBVIOUS
  <2> HIDE DEF q
  <2>4. Serving(d)' \subseteq Serving(d) \union {q} /\ (d # m.run => Serving(d)' = Serving(d))
    BY <2>1, <2>3 DEF Serving
  <2>5. CASE d # m.run
    <3>1. Shrinks(d)
      BY <1>0, <1>1, <2>2, <2>4, <2>5, ZenonT(40) DEF Shrinks
    <3> QED BY <3>1, TokenKept
  <2>6. CASE d = m.run
    <3>1. m \in Asked(d)
      BY <1>3, <2>6 DEF Asked
    <3>2. Asked(d) = {m} /\ Serving(d) = {} /\ Answered(d) = {} /\ Delivered(d) = {}
      BY <3>1, SingleFacts, SMT, Z3 DEF Token
    <3>3. runs'[d].pc = "calling" /\ runs'[d].n = m.n
      BY <1>0, <2>6, <3>1, ZenonT(40) DEF Token, Current
    <3> QED BY <1>1, <2>2, <2>3, <2>4, <3>2, <3>3, TokenMoves, ZenonT(40)
  <2> QED BY <2>5, <2>6
<1> QED BY <1>2, <1>3, ZenonT(40) DEF ProcessMessage, Outcomes

(* What a step of a request's goroutine does: one record for its request, one *)
(* message of its run, to the shim or in the notifier.                         *)
LEMMA RequestEffect ==
  ASSUME StreamInv, NEW r \in requests, RequestStep(r)
  PROVE  \E q, x :
           /\ q.msg = r.msg /\ x.run = r.msg.run /\ x.n = r.msg.n
           /\ \/ requests' \subseteq (requests \ {r}) \union {q} /\ UNCHANGED <<toShim, loop>>
              \/ requests' = requests \ {r} /\ toShim' \subseteq toShim \union {x} /\ UNCHANGED loop
              \/ requests' = requests \ {r} /\ toShim' = toShim /\ loop' = [pc |-> "notify", msg |-> x, send |-> TRUE]
                 /\ loop.pc = "select"
              \/ requests' = requests \ {r} /\ toShim' \subseteq toShim \union {x} /\ loop' = Selecting /\ loop.pc = "select"
<1>0. /\ r \in [pc : {"arrived", "unique", "served", "trigger"}, msg : Messages, answer : {"RESPONSE", "ERROR", None}]
      /\ r.msg \in Messages /\ (r.pc \in {"served", "trigger"} => r.answer \in Replies)
  BY DEF StreamInv, StreamType, RequestType
<1> DEFINE x == Answer(r.msg, r.answer)
<1>1. x.run = r.msg.run /\ x.n = r.msg.n /\ Answer(r.msg, "ERROR").run = r.msg.run /\ Answer(r.msg, "ERROR").n = r.msg.n
  BY DEF Answer
<1>2. CASE CreateTXIDEntry(r)
  <2> DEFINE q == [r EXCEPT !.pc = "unique"]
  <2>1. q.msg = r.msg
    BY <1>0
  <2>2. requests' \subseteq (requests \ {r}) \union {q} /\ UNCHANGED <<toShim, loop>>
    BY <1>2 DEF CreateTXIDEntry
  <2> HIDE DEF q, x
  <2> QED BY <1>1, <2>1, <2>2
<1>3. ASSUME NEW a \in {"RESPONSE", "ERROR"}, Serve(r, a)
      PROVE  \E q : q.msg = r.msg /\ requests' \subseteq (requests \ {r}) \union {q} /\ UNCHANGED <<toShim, loop>>
  <2> DEFINE q == [pc |-> "served", msg |-> r.msg, answer |-> a]
  <2>1. q.msg = r.msg
    OBVIOUS
  <2>2. requests' \subseteq (requests \ {r}) \union {q} /\ UNCHANGED <<toShim, loop>>
    BY <1>3 DEF Serve
  <2> HIDE DEF q
  <2> QED BY <2>1, <2>2
<1>4. CASE DeleteTXIDEntry(r)
  <2> DEFINE q == [r EXCEPT !.pc = "trigger"]
  <2>1. q.msg = r.msg
    BY <1>0
  <2>2. \/ requests' \subseteq (requests \ {r}) \union {q} /\ UNCHANGED <<toShim, loop>>
        \/ requests' = requests \ {r} /\ toShim' \subseteq toShim \union {x} /\ UNCHANGED loop
    BY <1>4 DEF DeleteTXIDEntry, SendToShim
  <2> HIDE DEF q, x
  <2> QED BY <1>1, <2>1, <2>2
<1>5. CASE TriggerAnswer(r)
  <2>1. requests' = requests \ {r} /\ loop.pc = "select"
    BY <1>5 DEF TriggerAnswer
  <2>2. CASE r.answer = "ERROR"
    <3>1. Notify(x, TRUE) /\ x \in Messages
      BY <1>0, <1>5, <2>2, AnswerFacts, Zenon DEF TriggerAnswer, Replies
    <3> HIDE DEF x
    <3>2. \/ toShim' = toShim /\ loop' = [pc |-> "notify", msg |-> x, send |-> TRUE]
          \/ toShim' \subseteq toShim \union {x} /\ loop' = Selecting
      BY <3>1, NotifyFacts, ZenonT(40) DEF StreamInv
    <3> QED BY <1>1, <2>1, <3>2
  <2>3. CASE r.answer # "ERROR"
    <3>1. toShim' \subseteq toShim \union {x} /\ UNCHANGED loop
      BY <1>5, <2>3 DEF TriggerAnswer, SendToShim
    <3> HIDE DEF x
    <3> QED BY <1>1, <2>1, <3>1
  <2> QED BY <2>2, <2>3
<1> HIDE DEF x
<1> QED BY <1>1, <1>2, <1>3, <1>4, <1>5, Zenon DEF RequestStep

(* A step of a request's goroutine. *)
LEMMA TokenRequest ==
  ASSUME StreamInv, NEW d \in Callers, \A e \in Callers : Token(e), NEW r \in requests, RequestStep(r)
  PROVE  Token(d)'
<1>0. UNCHANGED <<runs, shim, toPeer>> /\ r.msg.run \in Callers
  BY TxTypes, Zenon DEF StreamInv, StreamType, RequestType, WireType, RequestStep, CreateTXIDEntry, Serve, DeleteTXIDEntry,
                 TriggerAnswer, shimVars
<1>1. PICK q, x :
           /\ q.msg = r.msg /\ x.run = r.msg.run /\ x.n = r.msg.n
           /\ \/ requests' \subseteq (requests \ {r}) \union {q} /\ UNCHANGED <<toShim, loop>>
              \/ requests' = requests \ {r} /\ toShim' \subseteq toShim \union {x} /\ UNCHANGED loop
              \/ requests' = requests \ {r} /\ toShim' = toShim /\ loop' = [pc |-> "notify", msg |-> x, send |-> TRUE]
                 /\ loop.pc = "select"
              \/ requests' = requests \ {r} /\ toShim' \subseteq toShim \union {x} /\ loop' = Selecting /\ loop.pc = "select"
  BY RequestEffect
<1>2. Asked(d)' = Asked(d) /\ Delivered(d)' = Delivered(d)
  BY <1>0 DEF Asked, Delivered
<1>3. \/ Serving(d)' \subseteq (Serving(d) \ {r}) \union {q} /\ Answered(d)' = Answered(d) /\ Blocked(d)' = Blocked(d)
      \/ Serving(d)' \subseteq Serving(d) \ {r} /\ Answered(d)' \subseteq Answered(d) \union {x} /\ Blocked(d)' \subseteq Blocked(d)
      \/ Serving(d)' \subseteq Serving(d) \ {r} /\ Answered(d)' = Answered(d) /\ Blocked(d)' \subseteq {x}
  BY <1>1, SMT, Z3 DEF Serving, Answered, Blocked, Selecting
<1>4. CASE d # r.msg.run
  <2>1. q \notin Serving(d)' /\ x \notin Answered(d)' /\ x \notin Blocked(d)'
    BY <1>1, <1>4, ZenonT(40) DEF Serving, Answered, Blocked
  <2> QED
    <3>1. Shrinks(d)
      BY <1>0, <1>2, <1>3, <2>1, ZenonT(40) DEF Shrinks
    <3> QED BY <3>1, TokenKept
<1>5. CASE d = r.msg.run
  <2>1. r \in Serving(d)
    BY <1>5 DEF Serving
  <2>2. Asked(d) = {} /\ Serving(d) = {r} /\ Answered(d) = {} /\ Blocked(d) = {} /\ Delivered(d) = {}
    <3>1. Single(Asked(d), Serving(d), Answered(d), Blocked(d), Delivered(d))
      BY Zenon DEF Token
    <3> QED BY <2>1, <3>1, SingleFacts, SMT, Z3
  <2>3. runs'[d].pc = "calling" /\ runs'[d].n = r.msg.n
    BY <1>0, <1>5, <2>1 DEF Token, Current
  <2>4. x.n = r.msg.n /\ q.msg.n = r.msg.n
    BY <1>1
  <2> QED BY <1>2, <1>3, <2>2, <2>3, <2>4, TokenMoves, Zenon
<1> QED BY <1>4, <1>5

(* The notifier's blocked send goes on. *)
LEMMA TokenResumes ==
  ASSUME StreamInv, NEW d \in Callers, Token(d), NotifyResumes
  PROVE  Token(d)'
<1> DEFINE m == loop.msg
<1>0. /\ UNCHANGED <<runs, shim, toPeer, requests>> /\ loop.pc = "notify" /\ m \in Messages /\ loop.send \in BOOLEAN
      /\ Notify(m, loop.send) /\ txCtxs[Tx(m)] = <<>>
  BY DEF StreamInv, StreamType, LoopType, NotifyResumes, shimVars
<1>1. toShim' \subseteq toShim \union (IF loop.send THEN {m} ELSE {}) /\ loop' = Selecting
  BY <1>0, NotifyFacts DEF StreamInv
<1>2. Asked(d)' = Asked(d) /\ Delivered(d)' = Delivered(d) /\ Serving(d)' = Serving(d) /\ Blocked(d)' = {}
  BY <1>0, <1>1 DEF Asked, Delivered, Serving, Blocked, Selecting
<1>3. CASE loop.send /\ m.run = d
  <2>1. m \in Blocked(d)
    BY <1>0, <1>3 DEF Blocked
  <2>2. Asked(d) = {} /\ Serving(d) = {} /\ Answered(d) = {} /\ Delivered(d) = {}
    BY <2>1, SingleFacts, SMT, Z3 DEF Token
  <2>3. runs'[d].pc = "calling" /\ runs'[d].n = m.n
    BY <1>0, <1>3, <2>1 DEF Token, Current
  <2>4. Answered(d)' \subseteq {m}
    BY <1>1, <2>2 DEF Answered
  <2>5. [msg |-> m].msg.n = m.n
    OBVIOUS
  <2> QED BY <1>2, <2>2, <2>3, <2>4, <2>5, TokenMoves, ZenonT(40)
<1>4. CASE ~(loop.send /\ m.run = d)
  <2>1. Answered(d)' \subseteq Answered(d)
    BY <1>1, <1>4 DEF Answered
  <2> QED
    <3>1. Shrinks(d)
      BY <1>0, <1>2, <2>1 DEF Shrinks
    <3> QED BY <3>1, TokenKept
<1> QED BY <1>3, <1>4

(* The steps of the stream, by what they do to the requests. *)
LEMMA StepsOfNext ==
  ASSUME [Next]_vars
  PROVE  \/ \/ \E c \in Callers : CallerStep(c) \/ DeleteChannel(c) \/ \E type \in Outcomes : ContractEnds(c, type)
            \/ StreamEnds \/ ContainerDies \/ UNCHANGED vars
         \/ \E c \in Callers : \E type \in env.types : ContractCalls(c, type)
         \/ SendChannel
         \/ \E m \in toShim : ShimReceive(m)
         \/ \E m \in toPeer : ProcessMessage(m)
         \/ \E r \in requests : RequestStep(r)
         \/ NotifyResumes
BY DEF Next, ContractStep, Outcomes

(* Every run keeps at most one request under way. *)
LEMMA TokensNext == StreamInv /\ Tokens /\ [Next]_vars => Tokens'
<1> SUFFICES ASSUME StreamInv, Tokens, [Next]_vars, ~DeployRetried'
             PROVE  /\ \A c \in Callers : Token(c)'
                    /\ shim'.pc = "sendChannel" => ~shim'.send
                    /\ AnswerIsMine'
  BY DEF Tokens
<1>1. env' = env /\ ~DeployRetried
  BY RunSteps DEF StreamInv, DeployRetried, Retries, TxOf
<1>2. (\A c \in Callers : Token(c)) /\ (shim.pc = "sendChannel" => ~shim.send) /\ AnswerIsMine
  BY <1>1 DEF Tokens
<1>3. ASSUME NEW d \in Callers PROVE Token(d)'
  BY <1>1, <1>2, StepsOfNext, TokenOthers, TokenCalls, TokenReceived, TokenShimReceive, TokenProcess, TokenRequest,
     TokenResumes
<1>4. shim'.pc = "sendChannel" => ~shim'.send
  <2>1. ASSUME NEW c \in Callers, NEW type \in Outcomes, ContractEnds(c, type) PROVE shim' = shim
    BY <1>1, <2>1, OutcomeIsSent
  <2>2. ASSUME NEW m \in toShim, ShimReceive(m) PROVE shim' = shim \/ ~shim'.send
    BY <2>2 DEF ShimReceive
  <2>3. ASSUME SendChannel PROVE shim'.pc = "select"
    BY <2>3 DEF SendChannel, Selecting
  <2>4. ASSUME NEW c \in Callers, ContractStep(c) PROVE shim' = shim
    BY <2>1, <2>4 DEF ContractStep, ContractCalls, DeleteChannel, Outcomes
  <2> QED BY <1>2, <2>2, <2>3, <2>4, SameRuns
<1>5. AnswerIsMine'
  <2>0. runs \in [Callers -> [pc : {"none", "running", "calling", "received", "done"},
                              n : 0 .. MaxRequests, msg : Messages \union {None}]]
    BY DEF StreamInv, StreamType, ShimType
  <2> SUFFICES ASSUME NEW d \in Callers, runs'[d].pc = "received"
               PROVE  runs'[d].msg.run = d /\ runs'[d].msg.n = runs'[d].n
    BY DEF AnswerIsMine
  <2>1. CASE runs'[d] = runs[d]
    BY <1>1, <1>2, <2>1 DEF AnswerIsMine
  <2>2. CASE SendChannel /\ d = shim.msg.run
    <3>1. runs' = [runs EXCEPT ![d] = [pc |-> "received", n |-> runs[d].n, msg |-> shim.msg]] /\ runs[d].n = shim.msg.n
      BY <1>1, <1>2, <2>2, TokenReceived
    <3>2. runs'[d] = [pc |-> "received", n |-> runs[d].n, msg |-> shim.msg]
      BY <2>0, <3>1
    <3> QED BY <2>2, <3>1, <3>2
  <2>3. CASE SendChannel /\ d # shim.msg.run
    BY <1>1, <1>2, <2>1, <2>3, TokenReceived
  <2>4. ASSUME NEW m \in toShim, ShimReceive(m) PROVE runs'[d] = runs[d]
    <3>1. runs' = runs \/ runs' = [runs EXCEPT ![m.run].pc = "running"]
      BY <2>4 DEF ShimReceive
    <3> QED BY <2>0, <3>1
  <2>5. ASSUME NEW c \in Callers, ContractStep(c) PROVE runs'[d] = runs[d]
    <3>1. CASE \E type \in env.types : ContractCalls(c, type)
      BY <2>0, <3>1, SMT, Z3 DEF ContractCalls
    <3>2. CASE DeleteChannel(c)
      BY <2>0, <3>2 DEF DeleteChannel
    <3>3. CASE \E type \in {"COMPLETED", "ERROR"} : ContractEnds(c, type)
      BY <2>0, <3>3 DEF ContractEnds
    <3> QED BY <2>5, <3>1, <3>2, <3>3 DEF ContractStep
  <2> QED BY <2>1, <2>2, <2>3, <2>4, <2>5, SameRuns
<1> QED BY <1>3, <1>4, <1>5

-----------------------------------------------------------------------------
(* The outcome that Execute returns *)

(* A run that is over, and a call of Execute that has returned, stay so. *)
LEMMA StaysOver ==
  ASSUME StreamInv, [Next]_vars, NEW c \in Callers
  PROVE  /\ runs[c].pc = "done" => runs'[c].pc = "done"
         /\ exec[c] = "returned" => exec'[c] = "returned"
<1>0. /\ runs \in [Callers -> [pc : {"none", "running", "calling", "received", "done"},
                               n : 0 .. MaxRequests, msg : Messages \union {None}]]
      /\ exec \in [Callers -> {"idle", "found", "sending", "waiting", "returning", "returned", "failed"}]
  BY DEF StreamInv, StreamType, ShimType, NodeType
<1>1. ASSUME runs[c].pc = "done" PROVE runs'[c].pc = "done"
  <2>1. ASSUME NEW m \in toShim, ShimReceive(m) PROVE runs'[c] = runs[c]
    <3>1. CASE m.type \in Starts
      <4>1. runs[m.run].pc = "none" /\ runs' = [runs EXCEPT ![m.run].pc = "running"]
        BY <2>1, <3>1 DEF StreamInv, Started, ShimReceive, Starts
      <4> QED BY <1>0, <1>1, <4>1
    <3>2. CASE m.type \notin Starts
      BY <2>1, <3>2 DEF ShimReceive, Starts
    <3> QED BY <3>1, <3>2
  <2>2. ASSUME NEW d \in Callers, ContractStep(d) PROVE runs'[c] = runs[c]
    <3>1. CASE \E type \in env.types : ContractCalls(d, type)
      BY <1>0, <1>1, <3>1 DEF ContractCalls
    <3>2. CASE DeleteChannel(d)
      BY <1>0, <1>1, <3>2 DEF DeleteChannel
    <3>3. CASE \E type \in {"COMPLETED", "ERROR"} : ContractEnds(d, type)
      BY <1>0, <1>1, <3>3 DEF ContractEnds
    <3> QED BY <2>2, <3>1, <3>2, <3>3 DEF ContractStep
  <2>3. ASSUME SendChannel PROVE runs'[c] = runs[c]
    BY <1>0, <1>1, <2>3 DEF SendChannel
  <2> QED BY <1>1, <2>1, <2>2, <2>3, SameRuns
<1>2. ASSUME exec[c] = "returned" PROVE exec'[c] = "returned"
  <2>1. ASSUME NEW d \in Callers, CallerStep(d) PROVE exec'[c] = exec[c]
    BY <1>0, <1>2, <2>1, ZenonT(40) DEF CallerStep, Execute, CreateTxContext, TriggerExecute, ReceiveResponse, Timeout, DeleteTxContext
  <2> QED BY <1>2, <2>1, SameContexts DEF StreamInv
<1> QED BY <1>1, <1>2

(* An ERROR of enterBusyState: without a fault, the call has returned. *)
LEMMA BusyFailsLate ==
  ASSUME StreamInv, Calm, \A e \in Callers : Token(e), NEW r \in requests, r.msg.type \in BusyRequests, Serve(r, "ERROR")
  PROVE  exec[r.msg.run] = "returned"
<1> DEFINE c == r.msg.run
           t == Tx(r.msg)
<1>0. c \in Callers /\ t \in Txids /\ t = TxOf(c)
  BY TxTypes DEF StreamInv, StreamType, RequestType, WireType, Tx
<1>1. "ERROR" \in enterBusyState(r.msg.type, t)
  <2>1. "ERROR" \in Answers(r.msg.type, t)
    BY DEF Serve
  <2>2. CASE r.msg.type = "PUT_STATE"
    BY <2>1, <2>2 DEF Answers, BusyRequests
  <2>3. CASE r.msg.type = "DEL_STATE"
    BY <2>1, <2>3 DEF Answers, BusyRequests
  <2>4. CASE r.msg.type = "INVOKE_CHAINCODE"
    BY <2>1, <2>4 DEF Answers, BusyRequests
  <2> QED BY <2>2, <2>3, <2>4 DEF BusyRequests
<1>2. ~ValidTxSim(t)
  BY <1>1 DEF enterBusyState, WithTxSim, Calm
<1>3. c \notin Inside(t)
  <2>1. c \in Inside(t) => txCtxs[t] # None /\ exec[c] \in {"sending", "waiting", "returning"}
    BY <1>0 DEF StreamInv, Owned, Inside
  <2> QED BY <1>0, <1>2, <2>1 DEF ValidTxSim, Calm
<1>4. runs[c].pc = "calling"
  <2>1. r \in Serving(c)
    BY DEF Serving
  <2> QED BY <1>0, <2>1 DEF Token, Current
<1>5. Sent(c)
  BY <1>0, <1>4 DEF StreamInv, Started
<1> QED BY <1>0, <1>3, <1>5 DEF Sent, Inside

(* Notify puts the outcome of a run that is over in the run's own context. *)
LEMMA NotifyEnded ==
  ASSUME StreamInv, NEW m \in Messages, EndedThen(m), env' = env, Notify(m, FALSE),
         \A t \in Txids : \A k \in Messages : txCtxs[t] = <<k>> => Tx(k) = t /\ EndedThen(k)
  PROVE  /\ \A t \in Txids : \A k \in Messages : txCtxs'[t] = <<k>> => Tx(k)' = t /\ EndedThen(k)
         /\ loop'.pc = "notify" => loop'.msg = m /\ ~loop'.send
<1>0. txCtxs \in [Txids -> Contexts] /\ \A k : Tx(k)' = Tx(k)
  BY DEF StreamInv, StreamType, NodeType, Tx, TxOf
<1>1. loop'.pc = "notify" => loop'.msg = m /\ ~loop'.send
  <2>1. loop' = [pc |-> "notify", msg |-> m, send |-> FALSE] \/ loop' = Selecting
    BY NotifyFacts, Zenon DEF StreamInv
  <2> QED BY <2>1 DEF Selecting
<1>2. ASSUME NEW t \in Txids, NEW k \in Messages, txCtxs'[t] = <<k>>
      PROVE  Tx(k)' = t /\ EndedThen(k)
  <2>1. CASE txCtxs'[t] = txCtxs[t]
    BY <1>0, <1>2, <2>1
  <2>2. CASE txCtxs'[t] # txCtxs[t]
    <3>1. t = Tx(m) /\ txCtxs'[t] = <<m>>
      BY <1>0, <2>2, NotifyFacts, ZenonT(40) DEF StreamInv
    <3>2. k = m
      BY <1>2, <3>1
    <3> QED BY <1>0, <3>1, <3>2
  <2> QED BY <2>1, <2>2
<1> QED BY <1>1, <1>2

(* The records of the requests after a step of one of them. *)
LEMMA FailedLateNext ==
  ASSUME StreamInv, Calm, \A e \in Callers : Token(e), \A r \in requests : FailedLate(r), [Next]_vars
  PROVE  \A r \in requests' : FailedLate(r)'
<1>0. /\ requests \subseteq [pc : {"arrived", "unique", "served", "trigger"}, msg : Messages,
                            answer : {"RESPONSE", "ERROR", None}]
      /\ \A c \in Callers : exec[c] = "returned" => exec'[c] = "returned"
      /\ \A r \in requests : r.msg.run \in Callers
  BY TxTypes, StaysOver DEF StreamInv, StreamType, RequestType, WireType
<1>1. \A r \in requests : r \in requests' => FailedLate(r)'
  BY <1>0 DEF FailedLate
<1>2. ASSUME NEW m \in toPeer, ProcessMessage(m) PROVE \A r \in requests' : FailedLate(r)'
  <2> DEFINE q == [pc |-> "arrived", msg |-> m, answer |-> None]
  <2>0. \A r \in requests' : r \in requests \/ r = q
    BY <1>2, Zenon DEF ProcessMessage
  <2>1. \A r \in requests' : r \in requests \/ r.pc = "arrived"
    BY <2>0
  <2> QED BY <1>1, <2>1 DEF FailedLate
<1>3. ASSUME NEW r \in requests, RequestStep(r) PROVE \A q \in requests' : FailedLate(q)'
  <2>0. r \in [pc : {"arrived", "unique", "served", "trigger"}, msg : Messages, answer : {"RESPONSE", "ERROR", None}]
    BY <1>0
  <2>1. CASE CreateTXIDEntry(r)
    <3>1. \A q \in requests' : q \in requests \/ q = [r EXCEPT !.pc = "unique"]
      BY <2>1 DEF CreateTXIDEntry
    <3>2. [r EXCEPT !.pc = "unique"].pc = "unique"
      BY <2>0
    <3>3. \A q \in requests' : q \in requests \/ q.pc = "unique"
      BY <3>1, <3>2, Zenon
    <3> QED BY <1>1, <3>3 DEF FailedLate
  <2>2. ASSUME NEW a \in {"RESPONSE", "ERROR"}, Serve(r, a) PROVE \A q \in requests' : FailedLate(q)'
    <3> DEFINE q == [pc |-> "served", msg |-> r.msg, answer |-> a]
    <3>1. \A p \in requests' : p \in requests \/ p = q
      BY <2>2 DEF Serve
    <3>2. q.pc = "served" /\ q.msg = r.msg /\ q.answer = a
      OBVIOUS
    <3>3. a = "ERROR" /\ r.msg.type \in BusyRequests => exec'[r.msg.run] = "returned"
      BY <1>0, <2>2, BusyFailsLate
    <3> HIDE DEF q
    <3>4. FailedLate(q)'
      BY <3>2, <3>3 DEF FailedLate
    <3> QED BY <1>1, <3>1, <3>4
  <2>3. CASE DeleteTXIDEntry(r)
    <3> DEFINE q == [r EXCEPT !.pc = "trigger"]
    <3>1. r.pc = "served" /\ \A p \in requests' : p \in requests \/ (p = q /\ r.msg.type \in BusyRequests)
      BY <2>3 DEF DeleteTXIDEntry
    <3>2. q.pc = "trigger" /\ q.msg = r.msg /\ q.answer = r.answer
      BY <2>0
    <3> HIDE DEF q
    <3>3. r.answer = "ERROR" /\ r.msg.type \in BusyRequests => exec'[r.msg.run] = "returned"
      BY <1>0, <3>1 DEF FailedLate
    <3>4. r.msg.type \in BusyRequests => FailedLate(q)'
      BY <3>2, <3>3 DEF FailedLate
    <3> QED BY <1>1, <3>1, <3>4
  <2>4. CASE TriggerAnswer(r)
    BY <1>1, <2>4 DEF TriggerAnswer
  <2> QED BY <1>3, <2>1, <2>2, <2>3, <2>4 DEF RequestStep
<1>4. CASE requests' = requests
  BY <1>1, <1>4
<1>5. \/ \E m \in toPeer : ProcessMessage(m)
      \/ \E r \in requests : RequestStep(r)
      \/ requests' = requests
  BY ZenonT(40) DEF Next, CallerStep, Execute, CreateTxContext, TriggerExecute, ReceiveResponse, Timeout, DeleteTxContext,
         ContractStep, ContractCalls, DeleteChannel, ContractEnds, ShimReceive, SendChannel,
         NotifyResumes, ContainerDies, StreamEnds, vars, nodeVars
<1> QED BY <1>2, <1>3, <1>4, <1>5

(* The parts of Reported but the requests. *)
LEMMA ReportedSteps ==
  ASSUME StreamInv, Tokens, Reported, Calm, [Next]_vars
  PROVE  /\ \A c \in Callers : result'[c] # None => result'[c].run = c /\ EndedThen(result'[c])
         /\ \A t \in Txids : \A m \in Messages : txCtxs'[t] = <<m>> => Tx(m)' = t /\ EndedThen(m)
         /\ \A m \in toPeer' : m.type \in Outcomes => EndedThen(m)
         /\ loop'.pc = "notify" => EndedThen(loop'.msg) /\ ~loop'.send
<1> DEFINE Results == \A c \in Callers : result'[c] # None => result'[c].run = c /\ EndedThen(result'[c])
           Buffers == \A t \in Txids : \A m \in Messages : txCtxs'[t] = <<m>> => Tx(m)' = t /\ EndedThen(m)
           Coming == \A m \in toPeer' : m.type \in Outcomes => EndedThen(m)
           Blocking == loop'.pc = "notify" => EndedThen(loop'.msg) /\ ~loop'.send
<1> SUFFICES Results /\ Buffers /\ Coming /\ Blocking
  OBVIOUS
<1>0. /\ result \in [Callers -> Messages \union {None}] /\ txCtxs \in [Txids -> Contexts] /\ toPeer \subseteq Messages
      /\ runs \in [Callers -> [pc : {"none", "running", "calling", "received", "done"},
                               n : 0 .. MaxRequests, msg : Messages \union {None}]]
      /\ env' = env /\ (\A m : Tx(m)' = Tx(m)) /\ ~DeployRetried
      /\ \A c, d \in Callers : TxOf(c) = TxOf(d) => c = d
  BY RunSteps, ZenonT(40) DEF StreamInv, StreamType, NodeType, ShimType, WireType, Tx, TxOf, Calm, DeployRetried, Retries
<1>1. \A m \in Messages : m.run \in Callers /\ Tx(m) \in Txids /\ Tx(m) = TxOf(m.run) /\ (Ended(m) => EndedThen(m))
  BY TxTypes, StaysOver DEF StreamInv, StreamType, WireType, Tx, Ended, EndedThen
<1>2. /\ \A c \in Callers : result[c] # None => result[c].run = c /\ EndedThen(result[c])
      /\ \A t \in Txids : \A m \in Messages : txCtxs[t] = <<m>> => Tx(m) = t /\ EndedThen(m)
      /\ \A m \in toPeer : m.type \in Outcomes => EndedThen(m)
      /\ loop.pc = "notify" => loop.msg \in Messages /\ EndedThen(loop.msg) /\ ~loop.send
  BY <1>0, <1>1, SMT, Zenon DEF Reported, StreamInv, StreamType, LoopType
<1>3. ASSUME NEW c \in Callers, CallerStep(c) PROVE Results /\ Buffers /\ Coming /\ Blocking
  <2>1. UNCHANGED <<loop, toPeer>>
    BY <1>3, ZenonT(40) DEF CallerStep, Execute, CreateTxContext, TriggerExecute, ReceiveResponse, Timeout, DeleteTxContext
  <2>2. \A t \in Txids : txCtxs'[t] = txCtxs[t] \/ txCtxs'[t] = <<>> \/ txCtxs'[t] = None
    BY <1>0, <1>3, ZenonT(40) DEF CallerStep, Execute, CreateTxContext, TriggerExecute, ReceiveResponse, Timeout, DeleteTxContext
  <2>3. Buffers
    BY <1>0, <1>2, <2>2, ContextFacts, ZenonT(40)
  <2>4. CASE ReceiveResponse(c)
    <3>1. PICK m \in Messages : txCtxs[TxOf(c)] = <<m>> /\ result' = [result EXCEPT ![c] = m]
      BY <2>4, ReceivedMessage DEF StreamInv
    <3>2. TxOf(c) \in Txids
      BY TxTypes DEF StreamInv, StreamType, WireType
    <3>3. m.run = c /\ EndedThen(m)
      BY <1>0, <1>1, <1>2, <3>1, <3>2, SMT, Z3
    <3>4. \A d \in Callers : result'[d] = result[d] \/ (d = c /\ result'[d] = m)
      BY <1>0, <3>1
    <3>5. Results
      BY <1>2, <3>3, <3>4
    <3> QED BY <1>2, <2>1, <2>3, <3>5
  <2>5. CASE ~ReceiveResponse(c)
    <3>1. result' = result
      BY <1>3, <2>5, Zenon DEF CallerStep, Execute, CreateTxContext, TriggerExecute, Timeout, DeleteTxContext
    <3> QED BY <1>2, <2>1, <2>3, <3>1
  <2> QED BY <2>4, <2>5
<1>4. CASE result' = result /\ txCtxs' = txCtxs /\ loop' = loop /\ Coming
  BY <1>0, <1>2, <1>4
<1>5. ASSUME NEW c \in Callers, ContractStep(c) PROVE Results /\ Buffers /\ Coming /\ Blocking
  <2>1. UNCHANGED nodeVars
    BY <1>5 DEF ContractStep, ContractCalls, DeleteChannel, ContractEnds
  <2>2. ASSUME NEW type \in env.types, ContractCalls(c, type) PROVE Coming
    <3> DEFINE k == [type |-> type, run |-> c, n |-> runs[c].n + 1]
    <3>1. k.type = type /\ type \in RequestTypes
      BY TxTypes, Zenon DEF StreamInv, StreamType, WireType
    <3>2. \A m \in toPeer' : m \in toPeer \/ m = k
      BY <2>2 DEF ContractCalls
    <3> HIDE DEF k
    <3> QED BY <1>2, <3>1, <3>2, TypesApart
  <2>3. ASSUME DeleteChannel(c) PROVE Coming
    BY <1>2, <2>3 DEF DeleteChannel
  <2>4. ASSUME NEW type \in Outcomes, ContractEnds(c, type) PROVE Coming
    <3> DEFINE k == [type |-> type, run |-> c, n |-> 0]
    <3>1. k.run = c /\ k.n = 0
      OBVIOUS
    <3>2. \A m \in toPeer' : m \in toPeer \/ m = k
      BY <1>0, <2>4, OutcomeIsSent, SMT, Z3
    <3>3. runs'[c].pc = "done"
      BY <1>0, <2>4 DEF ContractEnds
    <3> HIDE DEF k
    <3>4. EndedThen(k)
      BY <3>1, <3>3 DEF EndedThen
    <3> QED BY <1>2, <3>2, <3>4
  <2> HIDE DEF Coming
  <2>5. Coming
    BY <1>5, <2>2, <2>3, <2>4 DEF ContractStep, Outcomes
  <2> QED BY <1>4, <2>1, <2>5 DEF nodeVars
<1>6. ASSUME NEW m \in toPeer, ProcessMessage(m) PROVE Results /\ Buffers /\ Coming /\ Blocking
  <2>1. Coming /\ result' = result
    BY <1>2, <1>6 DEF ProcessMessage
  <2>2. CASE m.type \in Outcomes
    <3>1. Notify(m, FALSE) /\ EndedThen(m) /\ m \in Messages
      BY <1>0, <1>2, <1>6, <2>2, TypesApart, Zenon DEF ProcessMessage
    <3>2. Buffers /\ (loop'.pc = "notify" => loop'.msg = m /\ ~loop'.send)
      BY <1>0, <1>2, <3>1, NotifyEnded, Zenon
    <3>3. Blocking
      BY <3>1, <3>2
    <3> QED BY <1>2, <2>1, <3>2, <3>3, ZenonT(40)
  <2>3. CASE m.type \notin Outcomes
    BY <1>4, <1>6, <2>1, <2>3, ZenonT(40) DEF ProcessMessage, Outcomes
  <2> QED BY <2>2, <2>3
<1>7. CASE NotifyResumes
  <2>1. loop.pc = "notify" /\ Notify(loop.msg, loop.send) /\ result' = result /\ toPeer' = toPeer
    BY <1>7, Zenon DEF NotifyResumes
  <2>2. PICK m \in Messages : m = loop.msg
    BY <1>2, <2>1
  <2>3. Notify(m, FALSE) /\ EndedThen(m)
    <3>1. loop.send = FALSE
      BY <1>2, <2>1 DEF StreamInv, StreamType, LoopType
    <3>2. EndedThen(m)
      BY <1>1, <2>1, <2>2 DEF Reported
    <3> QED BY <2>1, <2>2, <3>1, <3>2, Zenon
  <2>4. Buffers /\ (loop'.pc = "notify" => loop'.msg = m /\ ~loop'.send)
    BY <1>0, <1>2, <2>3, NotifyEnded, ZenonT(40)
  <2>5. Blocking
    BY <2>3, <2>4
  <2> QED BY <1>2, <2>1, <2>4, <2>5, ZenonT(40)
<1>8. ASSUME NEW r \in requests, RequestStep(r) PROVE Results /\ Buffers /\ Coming /\ Blocking
  <2>1. result' = result /\ Coming
    BY <1>2, <1>8, ZenonT(40) DEF RequestStep, CreateTXIDEntry, Serve, DeleteTXIDEntry, TriggerAnswer
  <2>2. CASE TriggerAnswer(r) /\ r.answer = "ERROR"
    <3> DEFINE c == r.msg.run
               x == Answer(r.msg, "ERROR")
    <3>1. exec[c] = "returned"
      BY <2>2, ZenonT(40) DEF Reported, FailedLate, TriggerAnswer
    <3>2. c \in Callers /\ TxOf(c) \in Txids /\ x \in Messages /\ Tx(x) = TxOf(c)
      BY TxTypes, AnswerFacts DEF StreamInv, StreamType, RequestType, WireType, Replies, Tx
    <3>3. Inside(TxOf(c)) = {}
      BY <1>0, <3>1, <3>2 DEF Inside
    <3>4. txCtxs[Tx(x)] = None
      BY <3>2, <3>3 DEF StreamInv, Owned
    <3>5. Notify(x, TRUE)
      BY <2>2, Zenon DEF TriggerAnswer
    <3> HIDE DEF x
    <3>6. txCtxs' = txCtxs /\ loop' = Selecting
      BY <3>2, <3>4, <3>5, NotifyFacts, ContextFacts, Zenon DEF StreamInv
    <3>7. Blocking
      BY <3>6 DEF Selecting
    <3> QED BY <1>0, <1>2, <2>1, <3>6, <3>7
  <2>3. CASE ~(TriggerAnswer(r) /\ r.answer = "ERROR")
    BY <1>4, <1>8, <2>1, <2>3, ZenonT(40) DEF RequestStep, CreateTXIDEntry, Serve, DeleteTXIDEntry, TriggerAnswer
  <2> QED BY <2>2, <2>3
<1>9. CASE SendChannel
  <2>1. toPeer' = toPeer /\ UNCHANGED nodeVars
    BY <1>0, <1>9 DEF SendChannel, Tokens
  <2> QED BY <1>2, <1>4, <2>1, Zenon DEF nodeVars
<1>10. CASE (\E m \in toShim : ShimReceive(m)) \/ ContainerDies \/ UNCHANGED vars
  <2>1. toPeer' = toPeer /\ UNCHANGED nodeVars
    BY <1>10, ZenonT(40) DEF ShimReceive, ContainerDies, vars, nodeVars
  <2> QED BY <1>2, <1>4, <2>1 DEF nodeVars
<1>11. CASE StreamEnds
  <2>1. toPeer' = toPeer /\ result' = result /\ txCtxs' = txCtxs /\ loop'.pc = "ended"
    BY <1>11 DEF StreamEnds, Selecting
  <2> QED BY <1>0, <1>2, <2>1
<1> HIDE DEF Results, Buffers, Coming, Blocking
<1> QED
  <2>1. \/ \E c \in Callers : CallerStep(c) \/ ContractStep(c)
        \/ \E m \in toPeer : ProcessMessage(m)
        \/ \E r \in requests : RequestStep(r)
        \/ (\E m \in toShim : ShimReceive(m)) \/ ContainerDies \/ UNCHANGED vars
        \/ NotifyResumes \/ SendChannel \/ StreamEnds
    BY DEF Next
  <2> QED BY <1>3, <1>5, <1>6, <1>7, <1>8, <1>9, <1>10, <1>11, <2>1

(* What is on its way to Execute stays the outcome of a run that is over. *)
LEMMA ReportedNext == StreamInv /\ Tokens /\ Reported /\ [Next]_vars => Reported'
<1> SUFFICES ASSUME StreamInv, Tokens, Reported, [Next]_vars, Calm'
             PROVE  /\ \A c \in Callers : result'[c] # None => result'[c].run = c /\ EndedThen(result'[c])
                    /\ \A t \in Txids : \A m \in Messages : txCtxs'[t] = <<m>> => Tx(m)' = t /\ EndedThen(m)
                    /\ \A m \in toPeer' : m.type \in Outcomes => EndedThen(m)
                    /\ loop'.pc = "notify" => EndedThen(loop'.msg) /\ ~loop'.send
                    /\ \A r \in requests' : FailedLate(r)'
  BY Zenon DEF Reported, Ended, EndedThen
<1>1. Calm
  BY RunSteps DEF StreamInv, Calm, Retries, TxOf
<1>2. (\A c \in Callers : Token(c)) /\ \A r \in requests : FailedLate(r)
  BY <1>1, Zenon DEF Tokens, Reported, Calm, DeployRetried
<1> QED BY <1>1, <1>2, ReportedSteps, FailedLateNext, ZenonT(40)

(* The stream begins with nothing under way. *)
LEMMA AnswerInit == Init => Tokens /\ Reported
<1> SUFFICES ASSUME Init PROVE Tokens /\ Reported
  OBVIOUS
<1>1. /\ toPeer = {} /\ requests = {} /\ toShim = {} /\ loop.pc = "select" /\ shim.pc = "select"
      /\ runs = [c \in Callers |-> [pc |-> "none", n |-> 0, msg |-> None]]
      /\ result = [c \in Callers |-> None] /\ txCtxs = [t \in Txids |-> None]
  BY DEF Init, Selecting
<1>2. ASSUME NEW c \in Callers PROVE Token(c)
  <2>1. Asked(c) = {} /\ Serving(c) = {} /\ Answered(c) = {} /\ Blocked(c) = {} /\ Delivered(c) = {}
    BY <1>1 DEF Asked, Serving, Answered, Blocked, Delivered
  <2> QED BY <2>1 DEF Token, Single
<1>3. AnswerIsMine
  BY <1>1 DEF AnswerIsMine
<1>4. Reported
  BY <1>1, ContextFacts, Zenon DEF Reported
<1> QED BY <1>1, <1>2, <1>3, <1>4 DEF Tokens

(* The invariant of the exchange of requests, answers and outcomes. *)
LEMMA AnswerInvariant == Spec => [](StreamInv /\ Tokens /\ Reported)
<1>1. Init => StreamInv /\ Tokens /\ Reported
  BY StreamInvInit, AnswerInit
<1>2. (StreamInv /\ Tokens /\ Reported) /\ [Next]_vars => (StreamInv /\ Tokens /\ Reported)'
  BY StreamInvNext, TokensNext, ReportedNext
<1> QED BY <1>1, <1>2, PTL DEF Spec

(* createChannel, callPeerWithChaincodeMsg and sendChannel: what a contract    *)
(* receives is the answer to the request it waits for, for any number of calls *)
(* that share ids, unless a deploy shares its id with another call.            *)
THEOREM AnswerAlwaysMine == Spec => []AnswerIsMine
<1>1. Tokens => AnswerIsMine
  BY DEF Tokens, AnswerIsMine
<1> QED BY <1>1, AnswerInvariant, PTL

(* createTXIDEntry and deleteTXIDEntry: a request is never refused as a second *)
(* one of its transaction, because the entry goes before the answer is sent.   *)
THEOREM RequestNeverDropped == Spec => []NoRequestDropped
<1>1. StreamInv /\ Tokens => NoRequestDropped
  <2> SUFFICES ASSUME StreamInv, Tokens, NEW r \in requests, r.pc = "arrived", ~DeployRetried, Tx(r.msg) \in txidMap
               PROVE  FALSE
    BY DEF NoRequestDropped
  <2>1. PICK q \in requests : Tx(q.msg) = Tx(r.msg) /\ q.pc \in {"unique", "served"}
    BY DEF StreamInv, Marked
  <2>2. q.msg.run \in Callers /\ r.msg.run \in Callers
    BY TxTypes DEF StreamInv, StreamType, RequestType, WireType
  <2>3. q \in Serving(q.msg.run) /\ r \in Serving(r.msg.run)
    BY DEF Serving
  <2>4. \A c \in Callers : Token(c)
    BY DEF Tokens
  <2>5. runs[q.msg.run].pc = "calling" /\ runs[r.msg.run].pc = "calling"
    <3>1. Current(q.msg) /\ Current(r.msg)
      BY <2>2, <2>3, <2>4, Zenon DEF Token
    <3> QED BY <3>1 DEF Current
  <2>6. q.msg.run = r.msg.run
    BY <2>1, <2>2, <2>5, SMT, Z3 DEF StreamInv, Channelled, Tx
  <2>7. q = r
    BY <2>2, <2>3, <2>4, <2>6, SMT, Z3 DEF Token, Single
  <2> QED BY <2>1, <2>7
<1> QED BY <1>1, AnswerInvariant, PTL

(* sendChannel holds the shim's mutex only while the contract that has the    *)
(* channel waits for its answer, so deleteChannel does not wait behind it.    *)
THEOREM SendChannelAlwaysReceived == Spec => []SendChannelReceived
<1>1. StreamInv /\ Tokens => SendChannelReceived
  <2> SUFFICES ASSUME StreamInv, Tokens, shim.pc = "sendChannel", ~DeployRetried
               PROVE  runs[channels[Tx(shim.msg)]].pc = "calling"
    BY DEF SendChannelReceived
  <2>1. shim.msg \in Messages /\ shim.msg.run \in Callers /\ Tx(shim.msg) = TxOf(shim.msg.run)
    BY TxTypes DEF StreamInv, StreamType, ShimType, WireType, Tx
  <2>2. shim.msg \in Delivered(shim.msg.run)
    BY DEF Delivered
  <2>3. runs[shim.msg.run].pc = "calling"
    BY <2>1, <2>2 DEF Tokens, Token, Current
  <2> QED BY <2>1, <2>3 DEF StreamInv, Channelled
<1> QED BY <1>1, AnswerInvariant, PTL

(* notify: with no fault and no shared id, what Execute takes from its         *)
(* notifier is the outcome of its own contract, and that contract is over; the *)
(* ERROR of a failed request never takes its place.                            *)
THEOREM OutcomeAlwaysReported == Spec => []OutcomeReported
<1>1. Reported => OutcomeReported
  BY DEF Reported, Ended, OutcomeReported
<1> QED BY <1>1, AnswerInvariant, PTL
=============================================================================
