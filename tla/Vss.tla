--------------------------------- MODULE Vss ---------------------------------
(***************************************************************************)
(* The distributed key generation of the active mediators, as one node     *)
(* runs it for its local mediators: threshold_sign.go of the mediator      *)
(* plugin, and the DKG and VSS state of the kyber library that it drives.  *)
(*                                                                         *)
(* Every mediator deals to every other and responds to every deal it gets. *)
(* A local mediator has, for every dealer, a channel of responses and a    *)
(* goroutine (processResponseLoop) that counts them.  Deals and responses  *)
(* of remote mediators may arrive at any time and in any order, or never.  *)
(***************************************************************************)
EXTENDS Integers, Sequences, FiniteSets

CONSTANTS
  Mediators,
  Nodes,          \* the situations of the node, records with the fields of Node
  MaxCopies       \* bound: how often a remote response is delivered

aSize == Cardinality(Mediators)
Responses == {r \in Mediators \X Mediators : r[1] # r[2]}  \* responder, dealer

\* local are the mediators of this node, bad are remote mediators whose deals do
\* not verify, timeout says whether the 30 seconds may run out.
Node == {n \in [local : SUBSET Mediators, bad : SUBSET Mediators, threshold : 2 .. aSize,
                timeout : BOOLEAN] : n.local \intersect n.bad = {}}

ASSUME VssAssumption ==
  /\ IsFiniteSet(Mediators) /\ aSize > 2
  /\ Nodes \subseteq Node
  /\ MaxCopies \in Nat \ {0}

VARIABLES
  status,     \* by local mediator, dealer, responder: the recorded response
  deals,      \* deals between local mediators that are under way
  dealt,      \* local mediators whose deals have been broadcast
  resps,      \* responses of local mediators on their way back to this node
  delivered,  \* how often a remote response was delivered
  senders,    \* addToResponseBuf goroutines: response, mediator at, still to do
  respBuf,    \* the response channels
  loop,       \* processResponseLoop of a local mediator and a dealer
  respCount,
  signing,    \* number of signTBLSLoops started for a local mediator
  timedOut,
  node        \* the situation, one of Nodes

vars == <<status, deals, dealt, resps, delivered, senders, respBuf, loop, respCount,
          signing, timedOut, node>>

Local == node.local
Remote == Mediators \ Local

Pairs == Local \X Mediators

(* Response states, channels of responders, and goroutine states have their *)
(* types; a channel never holds more than its capacity.                     *)
TypeOK ==
  /\ status \in [Local -> [Mediators -> [Mediators -> {"none", "approval", "complaint"}]]]
  /\ deals \subseteq Local \X Local
  /\ dealt \subseteq Local
  /\ resps \subseteq Responses
  /\ delivered \in [Responses -> 0 .. MaxCopies]
  /\ senders \subseteq [resp : Responses, copy : 1 .. MaxCopies, at : Local, todo : SUBSET Local]
  /\ respBuf \in [Pairs -> Seq(Mediators)]
  /\ \A p \in Pairs : Len(respBuf[p]) < aSize
  /\ loop \in [Pairs -> {"off", "running", "processed", "done"}]
  /\ respCount \in [Pairs -> 0 .. aSize - 1]
  /\ signing \in [Local -> Nat]
  /\ timedOut \in BOOLEAN
  /\ node \in Nodes

\* NewActiveMediatorsDKG with initRespBuf, on a node that is in sync.
Init ==
  /\ node \in Nodes
  /\ status = [m \in Local |-> [d \in Mediators |-> [r \in Mediators |-> "none"]]]
  /\ deals = {}
  /\ dealt = {}
  /\ resps = {}
  /\ delivered = [r \in Responses |-> 0]
  /\ senders = {}
  /\ respBuf = [p \in Pairs |-> <<>>]
  /\ loop = [p \in Pairs |-> "off"]
  /\ respCount = [p \in Pairs |-> 0]
  /\ signing = [m \in Local |-> 0]
  /\ timedOut = FALSE

-----------------------------------------------------------------------------
(* Deals *)

\* The count that processResponseLoop starts from: the response of m itself
\* was recorded when the deal was processed.
StartCount(m, d) == IF d # m THEN 1 ELSE 0

\* One mediator of BroadcastVSSDeals: its own deal is processed by
\* DistKeyGenerator.Deals, the others are sent.
BroadcastVSSDeals(m) ==
  /\ m \notin dealt
  /\ dealt' = dealt \union {m}
  /\ status' = [status EXCEPT ![m][m][m] = "approval"]
  /\ deals' = deals \union ({m} \X (Local \ {m}))
  /\ loop' = [loop EXCEPT ![<<m, m>>] = "running"]
  /\ respCount' = [respCount EXCEPT ![<<m, m>>] = StartCount(m, m)]
  /\ UNCHANGED <<resps, delivered, senders, respBuf, signing, timedOut, node>>

\* processVSSDeal of m for a deal of d.  ProcessDeal refuses a second deal of
\* the same dealer; it records m's response and the dealer's approval.  A
\* complaint is recorded and not sent.
ProcessVSSDeal(d, m) ==
  /\ <<d, m>> \in deals \/ d \in Remote
  /\ status[m][d][m] = "none"
  /\ deals' = deals \ {<<d, m>>}
  /\ status' = [status EXCEPT ![m][d][m] = IF d \in node.bad THEN "complaint" ELSE "approval",
                              ![m][d][d] = "approval"]
  /\ loop' = [loop EXCEPT ![<<m, d>>] = "running"]
  /\ respCount' = [respCount EXCEPT ![<<m, d>>] = StartCount(m, d)]
  /\ resps' = IF d \in node.bad THEN resps ELSE resps \union {<<m, d>>}
  /\ UNCHANGED <<dealt, delivered, senders, respBuf, signing, timedOut, node>>

-----------------------------------------------------------------------------
(* Responses *)

\* ToProcessResponse starts addToResponseBuf, which goes through the local
\* mediators other than the responder, in an arbitrary order.
StartSender(r, copy) ==
  LET todo == Local \ {r[1]} IN
  IF todo = {} THEN UNCHANGED senders
  ELSE \E m \in todo :
         senders' = senders \union {[resp |-> r, copy |-> copy, at |-> m, todo |-> todo]}

\* BroadcastVssResp hands a response of a local mediator to this node, too.
OwnResponse(r) ==
  /\ r \in resps
  /\ resps' = resps \ {r}
  /\ StartSender(r, 1)
  /\ UNCHANGED <<status, deals, dealt, delivered, respBuf, loop, respCount, signing, timedOut, node>>

\* A response of a remote mediator, to a deal that it has been sent.
RemoteResponse(r) ==
  /\ r[1] \in Remote /\ r[2] \in Remote \union dealt
  /\ delivered[r] < MaxCopies
  /\ delivered' = [delivered EXCEPT ![r] = @ + 1]
  /\ StartSender(r, delivered[r] + 1)
  /\ UNCHANGED <<status, deals, dealt, resps, respBuf, loop, respCount, signing, timedOut, node>>

\* A finished loop has deleted its channel, a certified mediator all of its
\* channels; a send to a deleted channel blocks forever.
Channel(p) == loop[p] # "done" /\ signing[p[1]] = 0

\* addToResponseBuf sends to one mediator and goes on to another.
AddToResponseBuf(s) ==
  LET p == <<s.at, s.resp[2]>>
      rest == s.todo \ {s.at} IN
  /\ Channel(p) /\ Len(respBuf[p]) < aSize - 1
  /\ respBuf' = [respBuf EXCEPT ![p] = Append(@, s.resp[1])]
  /\ IF rest = {} THEN senders' = senders \ {s}
     ELSE \E m \in rest :
            senders' = (senders \ {s}) \union {[s EXCEPT !.at = m, !.todo = rest]}
  /\ UNCHANGED <<status, deals, dealt, resps, delivered, loop, respCount, signing, timedOut, node>>

\* processResp: a second response of the same responder is an error, which is
\* logged.
ProcessResponse(p) ==
  LET r == Head(respBuf[p]) IN
  /\ loop[p] = "running" /\ respBuf[p] # <<>>
  /\ respBuf' = [respBuf EXCEPT ![p] = Tail(@)]
  /\ status' = [status EXCEPT ![p[1]][p[2]][r] = IF @ = "none" THEN "approval" ELSE @]
  /\ loop' = [loop EXCEPT ![p] = "processed"]
  /\ UNCHANGED <<deals, dealt, resps, delivered, senders, respCount, signing, timedOut, node>>

\* Verifier.DealCertified: everyone has responded, and enough approve.
DealCertified(m, d) ==
  /\ \A r \in Mediators : status[m][d][r] # "none"
  /\ Cardinality({r \in Mediators : status[m][d][r] = "approval"}) >= node.threshold

\* DistKeyGenerator.QUAL and Certified.
QUAL(m) == {d \in Mediators : DealCertified(m, d)}
Certified(m) == Cardinality(QUAL(m)) >= aSize

\* Mutant: the loop ends one response early.
FinishedEarly(p) == respCount[p] + 1 >= aSize - 2

\* Mutant: the mediator's response to the dealer is counted again.
FinishedAt(p) == respCount[p] + 1 = aSize

\* The count that ends a loop, errors included.
Finished(p) == respCount[p] + 1 = aSize - 1

\* isFinishedAndCertified and the rest of the iteration.
CountResponse(p) ==
  /\ loop[p] = "processed"
  /\ respCount' = [respCount EXCEPT ![p] = @ + 1]
  /\ loop' = [loop EXCEPT ![p] = IF Finished(p) THEN "done" ELSE "running"]
  /\ signing' = [signing EXCEPT ![p[1]] =
                   IF Finished(p) /\ Certified(p[1]) THEN @ + 1 ELSE @]
  /\ UNCHANGED <<status, deals, dealt, resps, delivered, senders, respBuf, timedOut, node>>

-----------------------------------------------------------------------------
(* The end of the protocol *)

\* areCertified: the map certifiedFlag has an entry, true, for every local
\* mediator that is certified, and no entry for the others.
AreCertified == \E m \in Local : signing[m] > 0

\* SetTimeout of one DKG: who has not responded to a deal complains.
SetTimeout ==
  [m \in Local |-> [d \in Mediators |->
     IF status[m][d][m] = "none" THEN status[m][d]
     ELSE [r \in Mediators |-> IF status[m][d][r] = "none" THEN "complaint" ELSE status[m][d][r]]]]

\* The timer of StartVSSProtocol, and endVSSProtocol(true).
EndVSSProtocol ==
  /\ node.timeout /\ ~timedOut
  /\ timedOut' = TRUE
  /\ status' = IF AreCertified THEN status ELSE SetTimeout
  /\ UNCHANGED <<deals, dealt, resps, delivered, senders, respBuf, loop, respCount, signing,
                 node>>

Next ==
  \/ \E m \in Local : BroadcastVSSDeals(m)
  \/ \E d \in Mediators, m \in Local : d # m /\ ProcessVSSDeal(d, m)
  \/ \E r \in Responses : OwnResponse(r) \/ RemoteResponse(r)
  \/ \E s \in senders : AddToResponseBuf(s)
  \/ \E p \in Pairs : ProcessResponse(p) \/ CountResponse(p)
  \/ EndVSSProtocol

Spec == Init /\ [][Next]_vars

\* Goroutines that can run do run, and every message of the peers arrives.
FairSpec == Spec /\ WF_vars(Next)

-----------------------------------------------------------------------------
(* Properties *)

(* A response loop counts responses, also those that ProcessResponse turns   *)
(* down.  When every response is delivered once, it still ends only when all *)
(* mediators' responses to the deal are recorded, whatever the order of      *)
(* deals, responses and the timeout: the check for certification that the    *)
(* last loop makes is not too early.  Channels keep to their capacity.       *)
FinishedIsComplete ==
  /\ TypeOK
  /\ \A p \in Pairs : loop[p] = "done" => \A r \in Mediators : status[p[1]][p[2]][r] # "none"

\* All deals are good and the time does not run out.
Smooth == node.bad = {} /\ ~node.timeout

(* No addToResponseBuf goroutine meets a channel that was deleted, where it  *)
(* would block forever and keep the response from the other mediators, as    *)
(* long as deals are good and the time does not run out.                     *)
NoSenderLost == Smooth => \A s \in senders : Channel(<<s.at, s.resp[2]>>)

(* When all deals are good and every message arrives once and in time, in    *)
(* any order, every local mediator gets its key and starts to sign.          *)
AllSign == Smooth => <>(\A m \in Local : signing[m] > 0)

=============================================================================
