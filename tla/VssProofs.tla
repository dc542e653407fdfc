------------------------------ MODULE VssProofs ------------------------------
(***************************************************************************)
(* Proofs about the distributed key generation: when every response is     *)
(* delivered once, a response loop ends only behind all responses to its   *)
(* deal, and no goroutine that hands responses on meets a deleted channel. *)
(*                                                                         *)
(* A response is followed on its way to each local mediator: it is not yet *)
(* sent, in the hands of an addToResponseBuf goroutine, in the channel, or *)
(* recorded, and never two of them.  A loop that counts what it takes from *)
(* the channel therefore counts what is recorded.                          *)
(***************************************************************************)
EXTENDS Vss, FiniteSetTheorems, TLAPS

\* The provers of a step that names none, in the order they are tried.
USE Zenon, SMT, Z3

Statuses == {"none", "approval", "complaint"}

\* All responses to d's deal that m waits for are recorded.
Full(m, d) == \A r \in Mediators : status[m][d][r] # "none"

\* The time ran out, and SetTimeout has recorded what was missing.
Closed(m, d) == timedOut /\ Full(m, d)

\* a's response to d is not recorded at m, unless the time ran out.
Fresh(m, a, d) == status[m][d][a] = "none" \/ Closed(m, d)

\* It is with an addToResponseBuf goroutine, on its way to m.
Sending(m, a, d) == \E s \in senders : s.resp = <<a, d>> /\ m \in s.todo

\* It is in the channel.
Holds(q, a) == \E i \in 1 .. Len(q) : q[i] = a
Queued(m, a, d) == Holds(respBuf[<<m, d>>], a)

\* It has not reached this node, or has not been made.
Unsent(a, d) == IF a \in Local THEN <<a, d>> \in resps \/ status[a][d][a] = "none"
                ELSE delivered[<<a, d>>] = 0

\* The places exclude one another.
TokenOK(m, a, d) ==
  /\ Sending(m, a, d) => ~Queued(m, a, d) /\ ~Unsent(a, d) /\ Fresh(m, a, d)
  /\ Queued(m, a, d) => ~Unsent(a, d) /\ Fresh(m, a, d)
  /\ Unsent(a, d) => Fresh(m, a, d)
TokenInv ==
  \A m \in Local, a, d \in Mediators : a # m /\ a # d => TokenOK(m, a, d)

\* Goroutines and channels: one goroutine per response, which does not go to
\* the responder, and no response twice in a channel.
Distinct(q) == \A i, j \in 1 .. Len(q) : q[i] = q[j] => i = j
SenderInv ==
  /\ \A s \in senders : s.at \in s.todo /\ s.resp[1] \notin s.todo
  /\ \A s, t \in senders : s.resp = t.resp => s = t
ChannelInv ==
  \A m \in Local, d \in Mediators :
    /\ Distinct(respBuf[<<m, d>>])
    /\ ~Holds(respBuf[<<m, d>>], m) /\ ~Holds(respBuf[<<m, d>>], d)

Recorded(m, d) == {r \in Mediators : status[m][d][r] # "none"}

\* A loop has counted the recorded responses but the first, and ends at the
\* last one.
LoopOK(m, d) ==
  /\ loop[<<m, d>>] = "off" <=> status[m][d][m] = "none"
  /\ loop[<<m, d>>] = "off" => \A r \in Mediators : status[m][d][r] = "none"
  /\ loop[<<m, d>>] \in {"running", "processed"} => respCount[<<m, d>>] < aSize - 1
  /\ loop[<<m, d>>] = "running" =>
       Closed(m, d) \/ Cardinality(Recorded(m, d)) = respCount[<<m, d>>] + 1
  /\ loop[<<m, d>>] = "processed" =>
       Closed(m, d) \/ Cardinality(Recorded(m, d)) = respCount[<<m, d>>] + 2
  /\ loop[<<m, d>>] = "done" => Full(m, d)
LoopInv == \A m \in Local, d \in Mediators : LoopOK(m, d)

\* What the loops rest on.
StateInv ==
  /\ \A m \in Local : m \in dealt <=> loop[<<m, m>>] # "off"
  /\ \A m \in Local : signing[m] > 0 => \A d \in Mediators : Full(m, d)
  /\ \A r \in resps : r[1] \in Local /\ status[r[1]][r[2]][r[1]] # "none"
  /\ timedOut => node.timeout

VssInv == TypeOK /\ SenderInv /\ ChannelInv /\ TokenInv /\ LoopInv /\ StateInv

-----------------------------------------------------------------------------
(* Constants and types *)

(* The node's situation. *)
LEMMA NodeFacts ==
  ASSUME node \in Nodes
  PROVE  /\ Local \subseteq Mediators /\ node.bad \subseteq Mediators
         /\ node.threshold \in 2 .. aSize /\ node.timeout \in BOOLEAN
<1>1. node \in [local : SUBSET Mediators, bad : SUBSET Mediators, threshold : 2 .. aSize, timeout : BOOLEAN]
  BY VssAssumption, Zenon DEF Node
<1>2. /\ node.local \in SUBSET Mediators /\ node.bad \in SUBSET Mediators
      /\ node.threshold \in 2 .. aSize /\ node.timeout \in BOOLEAN
  BY <1>1, Zenon
<1>3. QED
  BY <1>2 DEF Local

(* The number of mediators. *)
LEMMA SizeFacts == IsFiniteSet(Mediators) /\ Cardinality(Mediators) = aSize /\ aSize \in Nat /\ aSize > 2
BY VssAssumption, FS_CardinalityType DEF aSize

(* One status is set. *)
Records(L) == [L -> [Mediators -> [Mediators -> Statuses]]]
Put(f, m, d, r, v) == [f EXCEPT ![m][d][r] = v]
(* Setting one status changes that status only. *)
LEMMA PutFacts ==
  ASSUME NEW L, NEW f \in Records(L),
         NEW m \in L, NEW d \in Mediators, NEW r \in Mediators, NEW v \in Statuses
  PROVE  /\ Put(f, m, d, r, v) \in Records(L)
         /\ \A x \in L, y, z \in Mediators :
              Put(f, m, d, r, v)[x][y][z] = IF x = m /\ y = d /\ z = r THEN v ELSE f[x][y][z]
<1> DEFINE u == [f[m][d] EXCEPT ![r] = v]
           w == [f[m] EXCEPT ![d] = u]
           g == [f EXCEPT ![m] = w]
<1>1. Put(f, m, d, r, v) = g
  BY Zenon DEF Put
<1>2. f[m] \in [Mediators -> [Mediators -> Statuses]] /\ f[m][d] \in [Mediators -> Statuses]
  BY DEF Records
<1>3. u \in [Mediators -> Statuses] /\ \A z \in Mediators : u[z] = IF z = r THEN v ELSE f[m][d][z]
  BY <1>2
<1> HIDE DEF u
<1>4. /\ w \in [Mediators -> [Mediators -> Statuses]]
      /\ \A y \in Mediators : w[y] = IF y = d THEN u ELSE f[m][y]
  BY <1>2, <1>3
<1> HIDE DEF w
<1>5. /\ g \in Records(L)
      /\ \A x \in L : g[x] = IF x = m THEN w ELSE f[x]
  BY <1>4 DEF Records
<1> HIDE DEF g
<1>6. QED
  BY <1>1, <1>3, <1>4, <1>5, SMT, Z3

(* The type of a state, part by part. *)
LEMMA TypeFacts ==
  ASSUME TypeOK
  PROVE  /\ status \in Records(Local)
         /\ \A x \in Local, y, z \in Mediators : status[x][y][z] \in Statuses
         /\ \A x \in Local, y \in Mediators : <<x, y>> \in Pairs
         /\ Local \subseteq Mediators /\ node \in Nodes
         /\ \A a, d \in Mediators : a # d => <<a, d>> \in Responses
<1>1. status \in Records(Local) /\ node \in Nodes
  BY DEF TypeOK, Statuses, Records
<1>2. \A x \in Local, y, z \in Mediators : status[x][y][z] \in Statuses
  BY <1>1, SMT, Z3 DEF Records
<1>3. \A x \in Local, y \in Mediators : <<x, y>> \in Pairs
  BY DEF Pairs
<1>4. \A a, d \in Mediators : a # d => <<a, d>> \in Responses
  BY DEF Responses
<1>5. QED
  BY <1>1, <1>2, <1>3, <1>4, NodeFacts

(* A pair has its two parts. *)
LEMMA ResponseParts ==
  ASSUME NEW r \in Responses
  PROVE  r = <<r[1], r[2]>> /\ r[1] \in Mediators /\ r[2] \in Mediators /\ r[1] # r[2]
BY DEF Responses

-----------------------------------------------------------------------------
(* Channels *)

(* A response is put into a channel that does not hold it. *)
LEMMA Appended ==
  ASSUME NEW q \in Seq(Mediators), NEW a \in Mediators
  PROVE  /\ Append(q, a) \in Seq(Mediators) /\ Len(Append(q, a)) = Len(q) + 1
         /\ \A b : Holds(Append(q, a), b) <=> Holds(q, b) \/ b = a
         /\ Distinct(q) /\ ~Holds(q, a) => Distinct(Append(q, a))
<1> DEFINE t == Append(q, a)
<1>1. t \in Seq(Mediators) /\ Len(t) = Len(q) + 1 /\ Len(q) \in Nat
  OBVIOUS
<1>2. \A i \in 1 .. Len(q) : t[i] = q[i]
  OBVIOUS
<1>3. t[Len(q) + 1] = a
  OBVIOUS
<1> HIDE DEF t
<1>4. \A i \in 1 .. Len(t) : i \in 1 .. Len(q) \/ i = Len(q) + 1
  BY <1>1
<1>5. \A i \in 1 .. Len(q) : i \in 1 .. Len(t) /\ i # Len(q) + 1
  BY <1>1
<1>6. Len(q) + 1 \in 1 .. Len(t)
  BY <1>1
<1>7. ASSUME NEW b PROVE Holds(t, b) <=> Holds(q, b) \/ b = a
  BY <1>2, <1>3, <1>4, <1>5, <1>6 DEF Holds
<1>8. Distinct(q) /\ ~Holds(q, a) => Distinct(t)
  BY <1>2, <1>3, <1>4 DEF Holds, Distinct
<1>9. QED
  BY <1>1, <1>7, <1>8 DEF t

(* The first response is taken out of a channel. *)
LEMMA TakenOff ==
  ASSUME NEW q \in Seq(Mediators), q # <<>>, Distinct(q)
  PROVE  /\ Tail(q) \in Seq(Mediators) /\ Len(Tail(q)) < Len(q)
         /\ Head(q) \in Mediators /\ Holds(q, Head(q)) /\ ~Holds(Tail(q), Head(q))
         /\ \A b : Holds(Tail(q), b) => Holds(q, b)
         /\ Distinct(Tail(q))
<1> DEFINE t == Tail(q)
<1>1. t \in Seq(Mediators) /\ Len(t) = Len(q) - 1 /\ Len(q) \in Nat /\ Len(q) >= 1
  OBVIOUS
<1>2. \A i \in 1 .. Len(t) : t[i] = q[i + 1]
  OBVIOUS
<1>3. Head(q) = q[1] /\ q[1] \in Mediators
  OBVIOUS
<1> HIDE DEF t
<1>4. \A i \in 1 .. Len(t) : i + 1 \in 1 .. Len(q) /\ i + 1 # 1
  BY <1>1
<1>5. 1 \in 1 .. Len(q) /\ Len(t) < Len(q)
  BY <1>1
<1>6. ~Holds(t, q[1])
  BY <1>2, <1>4, <1>5 DEF Holds, Distinct
<1>7. \A b : Holds(t, b) => Holds(q, b)
  BY <1>2, <1>4 DEF Holds
<1>8. Distinct(t)
  <2> SUFFICES ASSUME NEW i \in 1 .. Len(t), NEW j \in 1 .. Len(t), t[i] = t[j] PROVE i = j
    BY DEF Distinct
  <2>1. q[i + 1] = q[j + 1]
    BY <1>2
  <2>2. i + 1 = j + 1
    BY <1>4, <2>1 DEF Distinct
  <2>3. QED
    BY <1>1, <2>2
<1>9. Holds(q, q[1])
  BY <1>5 DEF Holds
<1>10. QED
  BY <1>1, <1>3, <1>5, <1>6, <1>7, <1>8, <1>9 DEF t

-----------------------------------------------------------------------------
(* What a step leaves alone *)

(* A response that gets no further in a step. *)
LEMMA TokenKept ==
  ASSUME NEW m, NEW a, NEW d, TokenOK(m, a, d),
         Sending(m, a, d)' => Sending(m, a, d),
         Queued(m, a, d)' => Queued(m, a, d),
         Unsent(a, d)' => Unsent(a, d),
         Fresh(m, a, d) => Fresh(m, a, d)'
  PROVE  TokenOK(m, a, d)'
BY Zenon DEF TokenOK

(* A loop whose responses and count stay as they are. *)
LEMMA LoopKept ==
  ASSUME NEW m \in Local, NEW d \in Mediators, LoopOK(m, d), UNCHANGED node,
         Local \subseteq Mediators,
         \A r \in Mediators : status'[m][d][r] = status[m][d][r],
         loop'[<<m, d>>] = loop[<<m, d>>], respCount'[<<m, d>>] = respCount[<<m, d>>],
         timedOut => timedOut'
  PROVE  LoopOK(m, d)'
<1>1. Recorded(m, d)' = Recorded(m, d)
  BY DEF Recorded
<1>2. (Full(m, d)' <=> Full(m, d)) /\ (Closed(m, d) => Closed(m, d)')
  BY DEF Full, Closed
<1>3. m \in Mediators /\ status'[m][d][m] = status[m][d][m]
  OBVIOUS
<1>4. QED
  BY <1>1, <1>2, <1>3, Zenon DEF LoopOK

(* A recorded response stays recorded. *)
Kept == \A m \in Local, d, r \in Mediators : status[m][d][r] # "none" => status'[m][d][r] # "none"
(* Where nothing recorded is lost, a complete deal stays complete. *)
LEMMA FullKept ==
  ASSUME NEW m \in Local, NEW d \in Mediators, Kept, timedOut => timedOut'
  PROVE  (Full(m, d) => Full(m, d)') /\ (Closed(m, d) => Closed(m, d)')
BY DEF Kept, Full, Closed

(* With the goroutines and channels as they are, responses stay in their      *)
(* places.                                                                    *)
LEMMA PlacesKept ==
  ASSUME UNCHANGED <<senders, respBuf, node>>, NEW m, NEW a, NEW d
  PROVE  /\ Sending(m, a, d)' = Sending(m, a, d)
         /\ Queued(m, a, d)' = Queued(m, a, d)
BY DEF Sending, Queued

(* So do their tokens, if nothing is recorded or sent either. *)
LEMMA TokensSame ==
  ASSUME UNCHANGED <<senders, respBuf, resps, delivered, status, timedOut, node>>
  PROVE  \A x, a, y : TokenOK(x, a, y)' <=> TokenOK(x, a, y)
<1> SUFFICES ASSUME NEW x, NEW a, NEW y PROVE TokenOK(x, a, y)' <=> TokenOK(x, a, y)
  OBVIOUS
<1>1. (Sending(x, a, y)' <=> Sending(x, a, y)) /\ (Queued(x, a, y)' <=> Queued(x, a, y))
  BY DEF Sending, Queued, Holds
<1>2. Unsent(a, y)' <=> Unsent(a, y)
  BY DEF Unsent, Local
<1>3. Fresh(x, a, y)' <=> Fresh(x, a, y)
  BY DEF Fresh, Closed, Full
<1>4. QED
  BY <1>1, <1>2, <1>3 DEF TokenOK

(* Goroutines and channels that do not change keep their invariants. *)
LEMMA ShapeKept ==
  ASSUME SenderInv, ChannelInv, UNCHANGED <<senders, respBuf, node>>
  PROVE  SenderInv' /\ ChannelInv'
BY DEF SenderInv, ChannelInv, Local

-----------------------------------------------------------------------------
(* Init *)

(* Before the deals are broadcast nothing is recorded or on its way. *)
LEMMA VssInvInit == Init => VssInv
<1> SUFFICES ASSUME Init PROVE VssInv
  OBVIOUS
<1>0. node \in Nodes /\ Local \subseteq Mediators /\ aSize \in Nat /\ aSize > 2
  BY NodeFacts, SizeFacts DEF Init
<1>1. \A m \in Local, d, r \in Mediators : status[m][d][r] = "none"
  BY DEF Init
<1>2. \A m \in Local, d \in Mediators : <<m, d>> \in Pairs
  BY DEF Pairs
<1>3. \A p \in Pairs : respBuf[p] = <<>> /\ loop[p] = "off" /\ respCount[p] = 0
  BY DEF Init
<1>4. \A m \in Local : signing[m] = 0
  BY DEF Init
<1>5. TypeOK
  <2>1. status \in [Local -> [Mediators -> [Mediators -> {"none", "approval", "complaint"}]]]
    BY DEF Init
  <2>2. delivered \in [Responses -> 0 .. MaxCopies]
    BY VssAssumption DEF Init
  <2>3. respBuf \in [Pairs -> Seq(Mediators)] /\ \A p \in Pairs : Len(respBuf[p]) < aSize
    <3>1. <<>> \in Seq(Mediators) /\ Len(<<>>) = 0
      OBVIOUS
    <3>2. QED
      BY <1>0, <1>3, <3>1, SMT, Z3 DEF Init
  <2>4. loop \in [Pairs -> {"off", "running", "processed", "done"}]
    BY DEF Init
  <2>5. respCount \in [Pairs -> 0 .. aSize - 1]
    BY <1>0 DEF Init
  <2>6. signing \in [Local -> Nat]
    BY DEF Init
  <2>7. deals = {} /\ dealt = {} /\ resps = {} /\ senders = {} /\ timedOut = FALSE
    BY DEF Init
  <2>8. QED
    BY <1>0, <2>1, <2>2, <2>3, <2>4, <2>5, <2>6, <2>7, Zenon DEF TypeOK
<1>6. SenderInv
  BY DEF Init, SenderInv
<1>7. \A m \in Local, d \in Mediators : \A a : ~Holds(respBuf[<<m, d>>], a)
  BY <1>2, <1>3 DEF Holds
<1>8. ChannelInv
  <2>1. Distinct(<<>>)
    BY DEF Distinct
  <2>2. QED
    BY <1>2, <1>3, <1>7, <2>1, Zenon DEF ChannelInv
<1>9. TokenInv
  <2>1. \A m, a, d : ~Sending(m, a, d)
    BY DEF Init, Sending
  <2>2. QED
    BY <1>1, <1>7, <2>1, SMT, Zenon DEF TokenInv, TokenOK, Queued, Fresh
<1>10. LoopInv
  BY <1>0, <1>1, <1>2, <1>3, Zenon DEF LoopInv, LoopOK
<1>11. StateInv
  BY <1>0, <1>2, <1>3, <1>4 DEF Init, StateInv
<1>12. QED
  BY <1>5, <1>6, <1>8, <1>9, <1>10, <1>11 DEF VssInv

-----------------------------------------------------------------------------
(* Deals *)

(* Unsent depends on the responder's own record, on what is on its way and on *)
(* what was delivered.                                                        *)
LEMMA UnsentKept ==
  ASSUME NEW a, NEW d, UNCHANGED <<delivered, node>>,
         a \in Local => (<<a, d>> \in resps' => <<a, d>> \in resps \/ status[a][d][a] = "none"),
         a \in Local => (status'[a][d][a] = "none" => status[a][d][a] = "none")
  PROVE  Unsent(a, d)' => Unsent(a, d)
BY DEF Unsent, Local

(* The first two responses to a deal are recorded when it is processed. *)
DealStep(m, d, v) ==
  /\ UNCHANGED <<delivered, senders, respBuf, signing, timedOut, node>>
  /\ status[m][d][m] = "none"
  /\ status' \in Records(Local)
  /\ \A x \in Local, y, z \in Mediators :
       status'[x][y][z] = IF x = m /\ y = d /\ z = d THEN "approval"
                          ELSE IF x = m /\ y = d /\ z = m THEN v
                          ELSE status[x][y][z]
  /\ loop' = [loop EXCEPT ![<<m, d>>] = "running"]
  /\ respCount' = [respCount EXCEPT ![<<m, d>>] = StartCount(m, d)]
  /\ dealt' = IF d = m THEN dealt \union {m} ELSE dealt
  /\ deals' \subseteq Local \X Local
  /\ resps' = resps \/ (d # m /\ resps' = resps \union {<<m, d>>})
(* Such a step keeps the invariant. *)
LEMMA DealInv ==
  ASSUME VssInv, NEW m \in Local, NEW d \in Mediators, NEW v \in Statuses, v # "none",
         DealStep(m, d, v)
  PROVE  VssInv'
<1> USE DEF DealStep
<1>0. /\ TypeOK /\ SenderInv /\ ChannelInv /\ TokenInv /\ LoopInv /\ StateInv
      /\ Local' = Local /\ Pairs' = Pairs /\ aSize \in Nat /\ aSize > 2
      /\ Local \subseteq Mediators /\ <<m, d>> \in Pairs /\ m \in Mediators
  BY TypeFacts, SizeFacts DEF VssInv, Local, Pairs
<1>1. Kept
  BY SMT, Z3 DEF Kept
<1>2. /\ \A x \in Local, y \in Mediators : <<x, y>> \in Pairs
      /\ \A x \in Local, y \in Mediators :
           /\ loop'[<<x, y>>] = IF x = m /\ y = d THEN "running" ELSE loop[<<x, y>>]
           /\ respCount'[<<x, y>>] = IF x = m /\ y = d THEN StartCount(m, d) ELSE respCount[<<x, y>>]
      /\ loop' \in [Pairs -> {"off", "running", "processed", "done"}]
      /\ respCount' \in [Pairs -> 0 .. aSize - 1]
  <2>1. loop \in [Pairs -> {"off", "running", "processed", "done"}] /\ respCount \in [Pairs -> 0 .. aSize - 1]
    BY <1>0 DEF TypeOK
  <2>2. StartCount(m, d) \in 0 .. aSize - 1
    BY <1>0, SMT, Z3 DEF StartCount
  <2>3. \A x \in Local, y \in Mediators : <<x, y>> \in Pairs /\ (<<x, y>> = <<m, d>> <=> x = m /\ y = d)
    BY DEF Pairs
  <2>4. QED
    BY <1>0, <2>1, <2>2, <2>3
<1>3. TypeOK'
  <2>1. resps' \subseteq Responses /\ dealt' \subseteq Local
    BY <1>0, SMT, Z3 DEF TypeOK, Responses
  <2>2. QED
    BY <1>0, <1>2, <2>1 DEF TypeOK, Statuses, Records
<1>4. SenderInv' /\ ChannelInv'
  BY <1>0, ShapeKept
<1>5. ASSUME NEW x \in Local, NEW a \in Mediators, NEW y \in Mediators, a # x, a # y
      PROVE  TokenOK(x, a, y)'
  <2>1. TokenOK(x, a, y)
    BY <1>0, <1>5 DEF TokenInv
  <2>2. /\ Sending(x, a, y)' = Sending(x, a, y)
        /\ Queued(x, a, y)' = Queued(x, a, y)
    BY PlacesKept
  <2>3. Unsent(a, y)' => Unsent(a, y)
    <3>1. a \in Local => (status'[a][y][a] = "none" => status[a][y][a] = "none")
      BY <1>0, <1>1, <1>5, SMT, Z3 DEF Kept
    <3>2. <<a, y>> \in resps' => <<a, y>> \in resps \/ status[a][y][a] = "none"
      <4>1. <<a, y>> = <<m, d>> => a = m /\ y = d
        OBVIOUS
      <4>2. QED
        BY <4>1, SMT, Z3
    <3>3. QED
      BY <3>1, <3>2, UnsentKept
  <2>4. Fresh(x, a, y) => Fresh(x, a, y)'
    <3>1. status'[x][y][a] = status[x][y][a]
      BY <1>5, SMT, Z3
    <3>2. Closed(x, y) => Closed(x, y)'
      BY <1>1, FullKept
    <3>3. QED
      BY <3>1, <3>2 DEF Fresh
  <2>5. QED
    BY <2>1, <2>2, <2>3, <2>4, TokenKept
<1>6. TokenInv'
  BY <1>0, <1>5 DEF TokenInv
<1>7. LoopOK(m, d)'
  <2>1. loop[<<m, d>>] = "off" /\ \A r \in Mediators : status[m][d][r] = "none"
    BY <1>0 DEF LoopInv, LoopOK
  <2>2. loop'[<<m, d>>] = "running" /\ respCount'[<<m, d>>] = StartCount(m, d)
    BY <1>2
  <2>3. status'[m][d][m] # "none" /\ status'[m][d][d] # "none"
    BY <1>0
  <2> DEFINE one == {m}
             two == one \union {d}
  <2>4. Recorded(m, d)' = two
    <3>1. \A r \in Mediators : status'[m][d][r] # "none" => r = m \/ r = d
      BY <2>1
    <3>2. QED
      BY <1>0, <2>3, <3>1, SMT, Zenon DEF Recorded
  <2>5. Cardinality(two) = StartCount(m, d) + 1
    <3>1. IsFiniteSet(one) /\ Cardinality(one) = 1
      BY FS_Singleton, Zenon
    <3>2. d \in one <=> d = m
      OBVIOUS
    <3> HIDE DEF one
    <3>3. Cardinality(two) = IF d \in one THEN Cardinality(one) ELSE Cardinality(one) + 1
      BY <3>1, FS_AddElement, Zenon
    <3> HIDE DEF two
    <3>4. QED
      BY <3>1, <3>2, <3>3, SMT, Z3 DEF StartCount
  <2> HIDE DEF two
  <2>6. StartCount(m, d) < aSize - 1
    BY <1>0, SMT, Z3 DEF StartCount
  <2>7. QED
    BY <2>2, <2>3, <2>4, <2>5, <2>6 DEF LoopOK
<1>8. ASSUME NEW x \in Local, NEW y \in Mediators, ~(x = m /\ y = d) PROVE LoopOK(x, y)'
  <2>1. LoopOK(x, y)
    BY <1>0 DEF LoopInv
  <2>2. /\ \A r \in Mediators : status'[x][y][r] = status[x][y][r]
        /\ loop'[<<x, y>>] = loop[<<x, y>>] /\ respCount'[<<x, y>>] = respCount[<<x, y>>]
    BY <1>2, <1>8, SMT, Z3
  <2>3. QED
    BY <1>0, <2>1, <2>2, LoopKept
<1>9. LoopInv'
  BY <1>0, <1>7, <1>8, SMT, Zenon DEF LoopInv
<1>10. StateInv'
  <2>1. \A x \in Local : x \in dealt' <=> loop'[<<x, x>>] # "off"
    BY <1>0, <1>2, ZenonT(40) DEF StateInv
  <2>2. \A x \in Local : signing'[x] > 0 => \A y \in Mediators : Full(x, y)'
    BY <1>0, <1>1, FullKept DEF StateInv
  <2>3. \A r \in resps' : r[1] \in Local /\ status'[r[1]][r[2]][r[1]] # "none"
    <3> SUFFICES ASSUME NEW r \in resps' PROVE r[1] \in Local /\ status'[r[1]][r[2]][r[1]] # "none"
      OBVIOUS
    <3>1. CASE r \in resps
      <4>1. r[1] \in Local /\ status[r[1]][r[2]][r[1]] # "none" /\ r[1] \in Mediators /\ r[2] \in Mediators
        BY <1>0, <3>1, ResponseParts DEF StateInv, TypeOK
      <4>2. QED
        BY <1>1, <4>1, SMT, Z3 DEF Kept
    <3>2. CASE r = <<m, d>> /\ d # m
      <4>1. r[1] = m /\ r[2] = d
        BY <3>2
      <4>2. QED
        BY <1>0, <3>2, <4>1
    <3>3. QED
      BY <3>1, <3>2, SMT, Zenon
  <2>4. QED
    BY <1>0, <2>1, <2>2, <2>3 DEF StateInv
<1>11. QED
  BY <1>3, <1>4, <1>6, <1>9, <1>10 DEF VssInv

(* BroadcastVSSDeals records the own deal of a mediator in such a step. *)
LEMMA BroadcastInv ==
  ASSUME VssInv, NEW m \in Local, BroadcastVSSDeals(m)
  PROVE  VssInv'
<1>0. /\ TypeOK /\ m \in Mediators /\ <<m, m>> \in Pairs
      /\ status \in Records(Local)
  BY TypeFacts DEF VssInv
<1>1. status[m][m][m] = "none"
  BY <1>0 DEF BroadcastVSSDeals, VssInv, StateInv, LoopInv, LoopOK
<1> DEFINE v == "approval"
<1>2. status' = Put(status, m, m, m, v) /\ v \in Statuses
  BY DEF BroadcastVSSDeals, Put, Statuses
<1>3. /\ status' \in Records(Local)
      /\ \A x \in Local, y, z \in Mediators :
           status'[x][y][z] = IF x = m /\ y = m /\ z = m THEN v ELSE status[x][y][z]
  <2> HIDE DEF v
  <2>1. QED
    BY <1>0, <1>2, PutFacts, SMT, Z3
<1>4. deals' \subseteq Local \X Local
  BY <1>0 DEF BroadcastVSSDeals, TypeOK
<1>5. "approval" \in Statuses /\ "approval" # "none"
  BY DEF Statuses
<1>6. DealStep(m, m, "approval")
  BY <1>1, <1>3, <1>4, SMT, Z3 DEF BroadcastVSSDeals, DealStep
<1>7. QED
  BY <1>0, <1>5, <1>6, DealInv

(* processVSSDeal of another mediator is such a step. *)
LEMMA ProcessDealInv ==
  ASSUME VssInv, NEW m \in Local, NEW d \in Mediators, d # m, ProcessVSSDeal(d, m)
  PROVE  VssInv'
<1> DEFINE v == IF d \in node.bad THEN "complaint" ELSE "approval"
           w == "approval"
<1>0. /\ TypeOK /\ m \in Mediators
      /\ status \in Records(Local)
  BY TypeFacts DEF VssInv
<1>1. v \in Statuses /\ v # "none" /\ w \in Statuses
  BY DEF Statuses
<1>2. status' = Put(Put(status, m, d, m, v), m, d, d, w)
  BY Zenon DEF ProcessVSSDeal, Put
<1> HIDE DEF v
<1> DEFINE f == Put(status, m, d, m, v)
<1>3. /\ f \in Records(Local)
      /\ \A x \in Local, y, z \in Mediators :
           f[x][y][z] = IF x = m /\ y = d /\ z = m THEN v ELSE status[x][y][z]
  BY <1>0, <1>1, PutFacts, SMT, Z3
<1> HIDE DEF f
<1>4. /\ status' \in Records(Local)
      /\ \A x \in Local, y, z \in Mediators :
           status'[x][y][z] = IF x = m /\ y = d /\ z = d THEN w ELSE f[x][y][z]
  <2> HIDE DEF w
  <2>1. status' = Put(f, m, d, d, w)
    BY <1>2, Zenon DEF f
  <2>2. f \in Records(Local) /\ w \in Statuses
    BY <1>1, <1>3
  <2>3. QED
    BY <2>1, <2>2, PutFacts, SMT, Z3
<1>5. \A x \in Local, y, z \in Mediators :
        status'[x][y][z] = IF x = m /\ y = d /\ z = d THEN "approval"
                           ELSE IF x = m /\ y = d /\ z = m THEN v
                           ELSE status[x][y][z]
  BY <1>3, <1>4, SMT, Z3
<1>6. deals' \subseteq Local \X Local
  BY <1>0 DEF ProcessVSSDeal, TypeOK
<1>7. resps' = resps \/ resps' = resps \union {<<m, d>>}
  BY DEF ProcessVSSDeal
<1>8. /\ status[m][d][m] = "none"
      /\ loop' = [loop EXCEPT ![<<m, d>>] = "running"]
      /\ respCount' = [respCount EXCEPT ![<<m, d>>] = StartCount(m, d)]
      /\ UNCHANGED <<dealt, delivered, senders, respBuf, signing, timedOut, node>>
  BY DEF ProcessVSSDeal
<1>9. DealStep(m, d, v)
  BY <1>4, <1>5, <1>6, <1>7, <1>8 DEF DealStep
<1>10. QED
  BY <1>1, <1>9, DealInv

-----------------------------------------------------------------------------
(* Responses *)

(* Steps that record nothing and do not touch the loops. *)
LEMMA RecordsKept ==
  ASSUME VssInv, UNCHANGED <<status, dealt, loop, respCount, signing, timedOut, node>>,
         resps' \subseteq resps
  PROVE  LoopInv' /\ StateInv'
<1>1. LoopInv'
  <2>1. \A m, d : LoopOK(m, d)' <=> LoopOK(m, d)
    BY SMT, Z3 DEF LoopOK, Closed, Full, Recorded
  <2>2. QED
    BY <2>1 DEF VssInv, LoopInv, Local
<1>2. StateInv'
  BY DEF VssInv, StateInv, Local, Full
<1>3. QED
  BY <1>1, <1>2

(* A response that has arrived is handed on to the other local mediators. *)
LEMMA SenderStarted ==
  ASSUME VssInv, NEW a \in Mediators, NEW d \in Mediators, a # d, NEW c \in 1 .. MaxCopies,
         Unsent(a, d), StartSender(<<a, d>>, c), ~Unsent(a, d)',
         \A b, e \in Mediators : b # e => (Unsent(b, e)' => Unsent(b, e)),
         resps' \subseteq resps, delivered' \in [Responses -> 0 .. MaxCopies],
         UNCHANGED <<status, deals, dealt, respBuf, loop, respCount, signing, timedOut, node>>
  PROVE  VssInv'
<1> DEFINE todo == Local \ {a}
           new(m) == [resp |-> <<a, d>>, copy |-> c, at |-> m, todo |-> todo]
<1>0. /\ TypeOK /\ SenderInv /\ ChannelInv /\ TokenInv
      /\ Local' = Local /\ Pairs' = Pairs /\ Local \subseteq Mediators
      /\ <<a, d>> \in Responses
  BY TypeFacts DEF VssInv, Local, Pairs
<1>1. LoopInv' /\ StateInv'
  BY RecordsKept
<1>2. ChannelInv'
  BY <1>0, Zenon DEF ChannelInv
<1>3. \A s \in senders : s.resp # <<a, d>>
  <2> SUFFICES ASSUME NEW s \in senders, s.resp = <<a, d>> PROVE FALSE
    OBVIOUS
  <2>1. s.at \in s.todo /\ a \notin s.todo /\ s.todo \subseteq Local
    <3>1. s.todo \subseteq Local
      BY <1>0 DEF TypeOK
    <3>2. s.at \in s.todo /\ s.resp[1] \notin s.todo
      BY <1>0 DEF SenderInv
    <3>3. QED
      BY <3>1, <3>2, SMT, Z3
  <2>2. Sending(s.at, a, d) /\ s.at \in Local /\ a # s.at
    BY <2>1 DEF Sending
  <2>3. TokenOK(s.at, a, d)
    BY <1>0, <2>2 DEF TokenInv
  <2>4. QED
    BY <2>2, <2>3 DEF TokenOK
<1>4. \A x, b, e : Queued(x, b, e)' = Queued(x, b, e) /\ Fresh(x, b, e)' = Fresh(x, b, e)
  BY DEF Queued, Fresh, Closed, Full
<1>5. CASE senders' = senders
  <2>1. TokenInv'
    <3> SUFFICES ASSUME NEW x \in Local, NEW b \in Mediators, NEW e \in Mediators, b # x, b # e
                 PROVE  TokenOK(x, b, e)'
      BY <1>0 DEF TokenInv
    <3>1. TokenOK(x, b, e) /\ Sending(x, b, e)' = Sending(x, b, e)
      BY <1>0, <1>5 DEF TokenInv, Sending
    <3>2. QED
      BY <1>4, <3>1, TokenKept
  <2>2. SenderInv'
    BY <1>0, <1>5 DEF SenderInv
  <2>3. TypeOK'
    BY <1>0, <1>5 DEF TypeOK
  <2>4. QED
    BY <1>1, <1>2, <2>1, <2>2, <2>3 DEF VssInv
<1>6. CASE \E m \in todo : senders' = senders \union {new(m)}
  <2>1. PICK m \in todo : senders' = senders \union {new(m)}
    BY <1>6
  <2> DEFINE n == new(m)
  <2>2. /\ n.resp = <<a, d>> /\ n.at = m /\ n.todo = todo /\ n.copy = c
        /\ n \in [resp : Responses, copy : 1 .. MaxCopies, at : Local, todo : SUBSET Local]
    <3>1. todo \in SUBSET Local /\ m \in Local
      OBVIOUS
    <3> HIDE DEF todo
    <3>2. QED
      BY <1>0, <3>1
  <2> HIDE DEF n, new
  <2>3. senders' = senders \union {n}
    BY <2>1 DEF n
  <2>4. SenderInv'
    <3>1. n.at \in n.todo /\ n.resp[1] \notin n.todo
      BY <2>2, SMT, Z3
    <3>2. \A s \in senders : s.resp # n.resp
      BY <1>3, <2>2
    <3>3. QED
      BY <1>0, <2>3, <3>1, <3>2 DEF SenderInv
  <2>5. TypeOK'
    BY <1>0, <2>2, <2>3 DEF TypeOK
  <2>6. TokenInv'
    <3> SUFFICES ASSUME NEW x \in Local, NEW b \in Mediators, NEW e \in Mediators, b # x, b # e
                 PROVE  TokenOK(x, b, e)'
      BY <1>0 DEF TokenInv
    <3>1. TokenOK(x, b, e)
      BY <1>0 DEF TokenInv
    <3>2. CASE b = a /\ e = d
      <4>1. TokenOK(x, a, d) /\ ~Unsent(a, d)' /\ Unsent(a, d)
        BY <3>1, <3>2
      <4>2. ~Queued(x, a, d) /\ Fresh(x, a, d)
        BY <4>1 DEF TokenOK
      <4>3. TokenOK(x, a, d)'
        BY <1>4, <4>1, <4>2 DEF TokenOK
      <4>4. QED
        BY <3>2, <4>3
    <3>3. CASE ~(b = a /\ e = d)
      <4>1. Sending(x, b, e)' => Sending(x, b, e)
        BY <2>2, <2>3, <3>3, SMT, Z3 DEF Sending
      <4>2. QED
        BY <1>4, <3>1, <4>1, TokenKept
    <3>4. QED
      BY <3>2, <3>3
  <2>7. QED
    BY <1>1, <1>2, <2>4, <2>5, <2>6 DEF VssInv
<1>7. QED
  <2>1. StartSender(<<a, d>>, c) => senders' = senders \/ \E m \in todo : senders' = senders \union {new(m)}
    BY DEF StartSender
  <2>2. QED
    BY <1>5, <1>6, <2>1

(* A response of a local mediator is handed to this node. *)
LEMMA OwnResponseInv ==
  ASSUME VssInv, MaxCopies = 1, NEW r \in Responses, OwnResponse(r)
  PROVE  VssInv'
<1> DEFINE a == r[1]
           d == r[2]
<1>0. r = <<a, d>> /\ a \in Mediators /\ d \in Mediators /\ a # d
  BY ResponseParts
<1>1. /\ r \in resps /\ resps' = resps \ {r} /\ StartSender(r, 1)
      /\ UNCHANGED <<status, deals, dealt, delivered, respBuf, loop, respCount, signing, timedOut, node>>
  BY DEF OwnResponse
<1>2. a \in Local /\ status[a][d][a] # "none" /\ Local' = Local
  BY <1>1 DEF VssInv, StateInv, Local
<1> HIDE DEF a, d
<1>3. Unsent(a, d) /\ ~Unsent(a, d)'
  BY <1>0, <1>1, <1>2 DEF Unsent
<1>4. \A b, e \in Mediators : b # e => (Unsent(b, e)' => Unsent(b, e))
  BY <1>1, <1>2 DEF Unsent
<1>5. resps' \subseteq resps /\ delivered' \in [Responses -> 0 .. MaxCopies] /\ 1 \in 1 .. MaxCopies
  BY <1>1, SMT, Z3 DEF VssInv, TypeOK
<1>6. StartSender(<<a, d>>, 1)
  BY <1>0, <1>1
<1>7. QED
  BY <1>0, <1>1, <1>3, <1>4, <1>5, <1>6, SenderStarted

(* A response of a remote mediator arrives. *)
LEMMA RemoteResponseInv ==
  ASSUME VssInv, MaxCopies = 1, NEW r \in Responses, RemoteResponse(r)
  PROVE  VssInv'
<1> DEFINE a == r[1]
           d == r[2]
<1>0. r = <<a, d>> /\ a \in Mediators /\ d \in Mediators /\ a # d
  BY ResponseParts
<1>1. /\ a \notin Local /\ delivered[r] < MaxCopies
      /\ delivered' = [delivered EXCEPT ![r] = @ + 1] /\ StartSender(r, delivered[r] + 1)
      /\ UNCHANGED <<status, deals, dealt, resps, respBuf, loop, respCount, signing, timedOut, node>>
  BY DEF RemoteResponse, Remote
<1>2. delivered \in [Responses -> 0 .. MaxCopies] /\ Local' = Local
  BY <1>1 DEF VssInv, TypeOK, Local
<1>3. /\ delivered[r] = 0 /\ delivered' \in [Responses -> 0 .. MaxCopies]
      /\ \A q \in Responses : delivered'[q] = IF q = r THEN 1 ELSE delivered[q]
  BY <1>1, <1>2
<1> HIDE DEF a, d
<1>4. Unsent(a, d) /\ ~Unsent(a, d)'
  BY <1>0, <1>1, <1>2, <1>3, SMT, Z3 DEF Unsent
<1>5. \A b, e \in Mediators : b # e => (Unsent(b, e)' => Unsent(b, e))
  <2> SUFFICES ASSUME NEW b \in Mediators, NEW e \in Mediators, b # e, Unsent(b, e)' PROVE Unsent(b, e)
    OBVIOUS
  <2>1. <<b, e>> \in Responses
    BY DEF Responses
  <2>2. QED
    BY <1>1, <1>2, <1>3, <2>1 DEF Unsent
<1>6. StartSender(<<a, d>>, 1) /\ 1 \in 1 .. MaxCopies /\ resps' \subseteq resps
  BY <1>0, <1>1, <1>3, SMT, Z3
<1>7. QED
  BY <1>0, <1>1, <1>3, <1>4, <1>5, <1>6, SenderStarted

(* One goroutine puts its response into the channel of a mediator. *)
LEMMA AddToResponseBufInv ==
  ASSUME VssInv, NEW s \in senders, AddToResponseBuf(s)
  PROVE  VssInv'
<1> DEFINE a == s.resp[1]
           d == s.resp[2]
           m == s.at
           rest == s.todo \ {s.at}
           q == respBuf[<<m, d>>]
<1>0. /\ TypeOK /\ SenderInv /\ ChannelInv /\ TokenInv
      /\ UNCHANGED <<status, deals, dealt, resps, delivered, loop, respCount, signing, timedOut, node>>
      /\ Local' = Local /\ Pairs' = Pairs /\ Local \subseteq Mediators /\ aSize \in Nat
  BY TypeFacts, SizeFacts, Zenon DEF VssInv, Local, Pairs, AddToResponseBuf
<1>1. s \in [resp : Responses, copy : 1 .. MaxCopies, at : Local, todo : SUBSET Local]
  BY <1>0 DEF TypeOK
<1>2. /\ s.resp \in Responses /\ s.copy \in 1 .. MaxCopies /\ s.at \in Local /\ s.todo \in SUBSET Local
  BY <1>1, Zenon
<1>3. s.resp = <<a, d>> /\ a \in Mediators /\ d \in Mediators /\ a # d
  BY <1>2, ResponseParts
<1>4. m \in s.todo /\ a \notin s.todo /\ m # a /\ m \in Local
  BY <1>0, <1>2 DEF SenderInv
<1>5. Sending(m, a, d) /\ TokenOK(m, a, d)
  BY <1>0, <1>3, <1>4 DEF Sending, TokenInv
<1>6. ~Queued(m, a, d) /\ ~Unsent(a, d) /\ Fresh(m, a, d)
  BY <1>5 DEF TokenOK
<1>7. q \in Seq(Mediators) /\ <<m, d>> \in Pairs
  BY <1>0, <1>3, <1>4, TypeFacts DEF TypeOK
<1>8. /\ Len(q) < aSize - 1 /\ respBuf' = [respBuf EXCEPT ![<<m, d>>] = Append(q, a)]
  BY ZenonT(40) DEF AddToResponseBuf
<1>9. \/ senders' = senders \ {s}
      \/ \E x \in rest : senders' = (senders \ {s}) \union {[s EXCEPT !.at = x, !.todo = rest]}
  BY Zenon DEF AddToResponseBuf
<1>10. \A x \in Local, y \in Mediators :
         respBuf'[<<x, y>>] = IF x = m /\ y = d THEN Append(q, a) ELSE respBuf[<<x, y>>]
  BY <1>0, <1>8, TypeFacts, ZenonT(40) DEF TypeOK
<1>11. /\ Append(q, a) \in Seq(Mediators) /\ Len(Append(q, a)) = Len(q) + 1 /\ Len(q) \in Nat
       /\ \A b : Holds(Append(q, a), b) <=> Holds(q, b) \/ b = a
       /\ Distinct(q) /\ ~Holds(q, a) => Distinct(Append(q, a))
  BY <1>3, <1>7, Appended, SMT, Z3
<1>12. PICK S \in SUBSET [resp : Responses, copy : 1 .. MaxCopies, at : Local, todo : SUBSET Local] :
          /\ senders' = (senders \ {s}) \union S
          /\ \A t \in S : t.resp = s.resp /\ t.at \in t.todo /\ t.todo = rest
          /\ \A t, u \in S : t = u
  <2>1. CASE senders' = senders \ {s}
    <3> DEFINE nobody == {}
    <3>1. /\ senders' = (senders \ {s}) \union nobody
          /\ nobody \in SUBSET [resp : Responses, copy : 1 .. MaxCopies, at : Local, todo : SUBSET Local]
          /\ \A t \in nobody : FALSE
      BY <2>1
    <3> HIDE DEF nobody
    <3>2. QED
      BY <3>1, Zenon
  <2>2. CASE \E x \in rest : senders' = (senders \ {s}) \union {[s EXCEPT !.at = x, !.todo = rest]}
    <3>1. PICK x \in rest : senders' = (senders \ {s}) \union {[s EXCEPT !.at = x, !.todo = rest]}
      BY <2>2, Zenon
    <3> DEFINE t == [s EXCEPT !.at = x, !.todo = rest]
    <3>2. rest \in SUBSET Local /\ x \in Local
      BY <1>2
    <3>3. t \in [resp : Responses, copy : 1 .. MaxCopies, at : Local, todo : SUBSET Local]
      <4> HIDE DEF rest
      <4>1. [s EXCEPT !.at = x] \in [resp : Responses, copy : 1 .. MaxCopies, at : Local, todo : SUBSET Local]
        BY <1>1, <3>2, Zenon
      <4>2. QED
        BY <1>1, <3>2, Zenon
    <3>4. t.resp = s.resp /\ t.at = x /\ t.todo = rest
      <4> HIDE DEF rest
      <4>1. QED
        BY <1>1, Zenon
    <3> HIDE DEF t
    <3>5. senders' = (senders \ {s}) \union {t}
      BY <3>1 DEF t
    <3> DEFINE one == {t}
    <3>6. /\ one \in SUBSET [resp : Responses, copy : 1 .. MaxCopies, at : Local, todo : SUBSET Local]
          /\ \A u \in one : u = t
      BY <3>3
    <3>7. senders' = (senders \ {s}) \union one
      BY <3>5
    <3> HIDE DEF one
    <3>8. QED
      BY <3>4, <3>6, <3>7, Zenon
  <2>3. QED
    BY <1>9, <2>1, <2>2, Zenon
<1> HIDE DEF q
<1>13. TypeOK'
  <2>1. respBuf' \in [Pairs -> Seq(Mediators)]
    BY <1>0, <1>7, <1>8, <1>11 DEF TypeOK
  <2>2. \A p \in Pairs : Len(respBuf'[p]) < aSize
    BY <1>0, <1>7, <1>8, <1>11, SMT, Z3 DEF TypeOK
  <2>3. senders' \subseteq [resp : Responses, copy : 1 .. MaxCopies, at : Local, todo : SUBSET Local]
    BY <1>0, <1>12 DEF TypeOK
  <2>4. QED
    BY <1>0, <2>1, <2>2, <2>3 DEF TypeOK
<1>14. SenderInv'
  <2>1. \A t \in senders \ {s} : t.resp # s.resp
    BY <1>0 DEF SenderInv
  <2>2. \A t \in S : t.resp[1] \notin t.todo
    BY <1>4, <1>12
  <2>3. QED
    BY <1>0, <1>12, <2>1, <2>2, SMT, Zenon DEF SenderInv
<1>15. ChannelInv'
  <2> SUFFICES ASSUME NEW x \in Local, NEW y \in Mediators
               PROVE  /\ Distinct(respBuf'[<<x, y>>])
                      /\ ~Holds(respBuf'[<<x, y>>], x) /\ ~Holds(respBuf'[<<x, y>>], y)
    BY <1>0, Zenon DEF ChannelInv
  <2>1. CASE x = m /\ y = d
    <3>1. Distinct(q) /\ ~Holds(q, m) /\ ~Holds(q, d) /\ ~Holds(q, a)
      BY <1>0, <1>3, <1>4, <1>6, ZenonT(40) DEF ChannelInv, Queued, q
    <3>2. QED
      BY <1>3, <1>4, <1>10, <1>11, <2>1, <3>1, SMT, Zenon
  <2>2. CASE ~(x = m /\ y = d)
    BY <1>0, <1>10, <2>2, ZenonT(40) DEF ChannelInv
  <2>3. QED
    BY <2>1, <2>2
<1>16. TokenInv'
  <2> SUFFICES ASSUME NEW x \in Local, NEW b \in Mediators, NEW e \in Mediators, b # x, b # e
               PROVE  TokenOK(x, b, e)'
    BY <1>0 DEF TokenInv
  <2>0. TokenOK(x, b, e)
    BY <1>0 DEF TokenInv
  <2>1. Unsent(b, e)' = Unsent(b, e) /\ Fresh(x, b, e)' = Fresh(x, b, e)
    BY <1>0 DEF Unsent, Fresh, Closed, Full
  <2>2. Sending(x, b, e)' => Sending(x, b, e)
    <3> SUFFICES ASSUME NEW t \in senders', t.resp = <<b, e>>, x \in t.todo PROVE Sending(x, b, e)
      BY DEF Sending
    <3>1. t \in senders \/ (t.resp = s.resp /\ t.todo = rest)
      BY <1>12
    <3>2. QED
      BY <3>1 DEF Sending
  <2>3. CASE x = m /\ b = a /\ e = d
    <3>1. ~Sending(m, a, d)'
      <4> SUFFICES ASSUME NEW t \in senders', t.resp = <<a, d>>, m \in t.todo PROVE FALSE
        BY DEF Sending
      <4>1. t \notin S
        BY <1>12
      <4>2. t \in senders /\ t # s /\ t.resp = s.resp
        BY <1>3, <1>12, <4>1
      <4>3. QED
        BY <1>0, <4>2 DEF SenderInv
    <3>2. TokenOK(m, a, d)'
      <4>1. ~Unsent(a, d)' /\ Fresh(m, a, d)'
        BY <1>6, <2>1, <2>3
      <4>2. QED
        BY <3>1, <4>1 DEF TokenOK
    <3>3. QED
      BY <2>3, <3>2
  <2>4. CASE ~(x = m /\ b = a /\ e = d)
    <3>1. Queued(x, b, e)' => Queued(x, b, e)
      BY <1>10, <1>11, <2>4 DEF Queued, q
    <3>2. QED
      BY <2>0, <2>1, <2>2, <3>1, TokenKept
  <2>5. QED
    BY <2>3, <2>4
<1>17. QED
  BY <1>0, <1>13, <1>14, <1>15, <1>16, RecordsKept DEF VssInv

-----------------------------------------------------------------------------
(* The loops *)

(* The first response in the channel is recorded. *)
LEMMA ProcessResponseInv ==
  ASSUME VssInv, NEW p \in Pairs, ProcessResponse(p)
  PROVE  VssInv'
<1> DEFINE m == p[1]
           d == p[2]
           q == respBuf[p]
<1>0. /\ TypeOK /\ SenderInv /\ ChannelInv /\ TokenInv /\ LoopInv /\ StateInv
      /\ UNCHANGED <<deals, dealt, resps, delivered, senders, respCount, signing, timedOut, node>>
      /\ Local' = Local /\ Pairs' = Pairs /\ Local \subseteq Mediators
      /\ status \in Records(Local)
  BY TypeFacts DEF VssInv, Local, Pairs, ProcessResponse
<1>1. p = <<m, d>> /\ m \in Local /\ d \in Mediators /\ m \in Mediators
  BY <1>0 DEF Pairs
<1>2. q \in Seq(Mediators) /\ q # <<>> /\ Distinct(q) /\ ~Holds(q, m) /\ ~Holds(q, d) /\ loop[p] = "running"
  BY <1>0, <1>1 DEF TypeOK, ChannelInv, ProcessResponse
<1>3. respBuf' = [respBuf EXCEPT ![p] = Tail(q)] /\ loop' = [loop EXCEPT ![p] = "processed"]
  BY DEF ProcessResponse
<1> HIDE DEF q
<1>4. PICK a \in Mediators :
        /\ a = Head(q) /\ Holds(q, a) /\ ~Holds(Tail(q), a)
        /\ Tail(q) \in Seq(Mediators) /\ Len(Tail(q)) < Len(q)
        /\ \A b : Holds(Tail(q), b) => Holds(q, b)
        /\ Distinct(Tail(q))
  BY <1>2, TakenOff
<1> DEFINE v == IF status[m][d][a] = "none" THEN "approval" ELSE status[m][d][a]
<1>5. status' = Put(status, m, d, a, v)
  BY <1>4, Zenon DEF ProcessResponse, Put, q
<1>6. v \in Statuses /\ v # "none" /\ (status[m][d][a] # "none" => v = status[m][d][a])
  BY <1>0, <1>1, <1>4, TypeFacts DEF Statuses
<1> HIDE DEF v, m, d
<1>7. /\ status' \in Records(Local)
      /\ \A x \in Local, y, z \in Mediators :
           status'[x][y][z] = IF x = m /\ y = d /\ z = a THEN v ELSE status[x][y][z]
  <2>1. m \in Local /\ d \in Mediators /\ v \in Statuses /\ status \in Records(Local)
    BY <1>0, <1>1, <1>6
  <2>2. QED
    BY <1>5, <2>1, PutFacts, SMT, Z3
<1>8. /\ \A x \in Local, y \in Mediators :
           /\ respBuf'[<<x, y>>] = IF x = m /\ y = d THEN Tail(q) ELSE respBuf[<<x, y>>]
           /\ loop'[<<x, y>>] = IF x = m /\ y = d THEN "processed" ELSE loop[<<x, y>>]
  <2>1. \A x \in Local, y \in Mediators : <<x, y>> \in Pairs /\ (<<x, y>> = p <=> x = m /\ y = d)
    BY <1>1 DEF Pairs
  <2>2. QED
    BY <1>0, <1>3, <2>1 DEF TypeOK
<1>9. Kept /\ a # m /\ a # d
  <2>1. a # m /\ a # d
    BY <1>2, <1>4
  <2>2. Kept
    BY <1>6, <1>7, SMT, Z3 DEF Kept
  <2>3. QED
    BY <2>1, <2>2
<1>10. TypeOK'
  <2>1. respBuf' \in [Pairs -> Seq(Mediators)] /\ loop' \in [Pairs -> {"off", "running", "processed", "done"}]
    BY <1>0, <1>3, <1>4 DEF TypeOK
  <2>2. \A x \in Pairs : Len(respBuf'[x]) < aSize
    <3>1. Len(q) < aSize /\ Len(q) \in Nat /\ Len(Tail(q)) \in Nat /\ aSize \in Nat
      BY <1>0, <1>2, <1>4, SizeFacts, SMT, Z3 DEF TypeOK, q
    <3>2. QED
      BY <1>0, <1>3, <1>4, <3>1, SMT, Z3 DEF TypeOK
  <2>3. QED
    BY <1>0, <1>7, <2>1, <2>2 DEF TypeOK, Records, Statuses
<1>11. SenderInv'
  BY <1>0 DEF SenderInv
<1>12. ChannelInv'
  <2> SUFFICES ASSUME NEW x \in Local, NEW y \in Mediators
               PROVE  /\ Distinct(respBuf'[<<x, y>>])
                      /\ ~Holds(respBuf'[<<x, y>>], x) /\ ~Holds(respBuf'[<<x, y>>], y)
    BY <1>0, Zenon DEF ChannelInv
  <2>1. CASE x = m /\ y = d
    BY <1>2, <1>4, <1>8, <2>1
  <2>2. CASE ~(x = m /\ y = d)
    BY <1>0, <1>8, <2>2 DEF ChannelInv
  <2>3. QED
    BY <2>1, <2>2
<1>13. Queued(m, a, d) /\ ~Queued(m, a, d)' /\ Fresh(m, a, d)
  <2>1. Queued(m, a, d) /\ ~Queued(m, a, d)'
    BY <1>1, <1>4, <1>8 DEF Queued, q
  <2>2. TokenOK(m, a, d)
    BY <1>0, <1>1, <1>4, <1>9 DEF TokenInv
  <2>3. QED
    BY <2>1, <2>2 DEF TokenOK
<1>14. TokenInv'
  <2> SUFFICES ASSUME NEW x \in Local, NEW b \in Mediators, NEW e \in Mediators, b # x, b # e
               PROVE  TokenOK(x, b, e)'
    BY <1>0 DEF TokenInv
  <2>0. TokenOK(x, b, e)
    BY <1>0 DEF TokenInv
  <2>1. Unsent(b, e)' => Unsent(b, e)
    BY <1>0, <1>9, UnsentKept, Zenon DEF Kept
  <2>2. Sending(x, b, e)' = Sending(x, b, e)
    BY <1>0 DEF Sending
  <2>3. CASE x = m /\ b = a /\ e = d
    <3>1. TokenOK(m, a, d) /\ (Unsent(a, d)' => Unsent(a, d)) /\ Sending(m, a, d)' = Sending(m, a, d)
      BY <2>0, <2>1, <2>2, <2>3
    <3>2. ~Unsent(a, d)' /\ ~Sending(m, a, d)' /\ ~Queued(m, a, d)'
      BY <1>13, <3>1 DEF TokenOK
    <3>3. TokenOK(m, a, d)'
      BY <3>2 DEF TokenOK
    <3>4. QED
      BY <2>3, <3>3
  <2>4. CASE ~(x = m /\ b = a /\ e = d)
    <3>1. Queued(x, b, e)' => Queued(x, b, e)
      BY <1>1, <1>4, <1>8 DEF Queued, q
    <3>2. Fresh(x, b, e) => Fresh(x, b, e)'
      <4>1. status'[x][e][b] = status[x][e][b]
        BY <1>7, <2>4, SMT, Zenon
      <4>2. Closed(x, e) => Closed(x, e)'
        BY <1>0, <1>9, FullKept
      <4>3. QED
        BY <4>1, <4>2 DEF Fresh
    <3>3. QED
      BY <2>0, <2>1, <2>2, <3>1, <3>2, TokenKept
  <2>5. QED
    BY <2>3, <2>4
<1>15. LoopOK(m, d)'
  <2>1. /\ status[m][d][m] # "none" /\ respCount[<<m, d>>] < aSize - 1
        /\ Closed(m, d) \/ Cardinality(Recorded(m, d)) = respCount[<<m, d>>] + 1
    BY <1>0, <1>1, <1>2, Zenon DEF LoopInv, LoopOK
  <2>2. status'[m][d][m] # "none" /\ loop'[<<m, d>>] = "processed" /\ respCount' = respCount
    BY <1>0, <1>1, <1>8, <1>9, <2>1, Zenon DEF Kept
  <2>3. Closed(m, d) => Closed(m, d)'
    BY <1>0, <1>1, <1>9, FullKept, ZenonT(40)
  <2>4. CASE status[m][d][a] = "none" /\ ~Closed(m, d)
    <3> DEFINE R == Recorded(m, d)
               T == R \union {a}
    <3>1. Recorded(m, d)' = T
      BY <1>1, <1>4, <1>6, <1>7 DEF Recorded
    <3>2. IsFiniteSet(R) /\ Cardinality(R) \in Nat /\ a \notin R
      <4>1. R \in SUBSET Mediators /\ a \notin R
        BY <2>4 DEF Recorded
      <4> HIDE DEF R
      <4>2. QED
        BY <4>1, SizeFacts, FS_Subset, FS_CardinalityType
    <3> HIDE DEF R
    <3>3. Cardinality(T) = IF a \in R THEN Cardinality(R) ELSE Cardinality(R) + 1
      BY <3>2, FS_AddElement, Zenon
    <3> HIDE DEF T
    <3>4. Cardinality(R) = respCount[<<m, d>>] + 1
      BY <2>1, <2>4 DEF R
    <3>5. respCount[<<m, d>>] \in Nat
      BY <1>0, <1>1, SMT, Z3 DEF TypeOK, Pairs
    <3>6. Cardinality(Recorded(m, d)') = respCount[<<m, d>>] + 2
      BY <3>1, <3>2, <3>3, <3>4, <3>5
    <3>7. QED
      BY <2>1, <2>2, <3>6, ZenonT(40) DEF LoopOK
  <2>5. CASE Closed(m, d)
    BY <2>1, <2>2, <2>3, <2>5 DEF LoopOK
  <2>6. QED
    BY <1>13, <2>4, <2>5 DEF Fresh
<1>16. ASSUME NEW x \in Local, NEW y \in Mediators, ~(x = m /\ y = d) PROVE LoopOK(x, y)'
  <2>1. LoopOK(x, y)
    BY <1>0 DEF LoopInv
  <2>2. /\ \A r \in Mediators : status'[x][y][r] = status[x][y][r]
        /\ loop'[<<x, y>>] = loop[<<x, y>>] /\ respCount'[<<x, y>>] = respCount[<<x, y>>]
    BY <1>0, <1>7, <1>8, <1>16, SMT, Zenon
  <2>3. QED
    BY <1>0, <2>1, <2>2, LoopKept
<1>17. LoopInv'
  BY <1>0, <1>15, <1>16 DEF LoopInv
<1>18. StateInv'
  <2>1. \A x \in Local : x \in dealt' <=> loop'[<<x, x>>] # "off"
    BY <1>0, <1>1, <1>2, <1>8, ZenonT(40) DEF StateInv
  <2>2. \A x \in Local : signing'[x] > 0 => \A y \in Mediators : Full(x, y)'
    BY <1>0, <1>9, FullKept DEF StateInv
  <2>3. \A r \in resps' : r[1] \in Local /\ status'[r[1]][r[2]][r[1]] # "none"
    BY <1>0, <1>9, ResponseParts, SMT, Z3 DEF StateInv, TypeOK, Kept
  <2>4. QED
    BY <1>0, <2>1, <2>2, <2>3 DEF StateInv
<1>19. QED
  BY <1>10, <1>11, <1>12, <1>14, <1>17, <1>18 DEF VssInv

(* A certified mediator has all responses. *)
LEMMA CertifiedFull ==
  ASSUME NEW m, Certified(m)
  PROVE  \A d \in Mediators : Full(m, d)
<1> DEFINE Q == QUAL(m)
<1>1. Q \in SUBSET Mediators
  BY DEF QUAL
<1>2. Cardinality(Q) >= aSize
  BY DEF Certified
<1>3. \A d \in Q : Full(m, d)
  BY DEF QUAL, DealCertified, Full
<1> HIDE DEF Q
<1>4. IsFiniteSet(Q) /\ Cardinality(Q) \in Nat /\ Cardinality(Q) <= aSize
  BY <1>1, SizeFacts, FS_Subset, FS_CardinalityType
<1>5. Cardinality(Q) = Cardinality(Mediators)
  BY <1>2, <1>4, SizeFacts
<1>6. Q = Mediators
  BY <1>1, <1>5, SizeFacts, FS_Subset
<1>7. QED
  BY <1>3, <1>6

(* A loop goes on to the next response, or ends at the last one. *)
LEMMA CountResponseInv ==
  ASSUME VssInv, NEW p \in Pairs, CountResponse(p)
  PROVE  VssInv'
<1> DEFINE m == p[1]
           d == p[2]
           n == respCount[p]
<1>0. /\ TypeOK /\ SenderInv /\ ChannelInv /\ TokenInv /\ LoopInv /\ StateInv
      /\ UNCHANGED <<status, deals, dealt, resps, delivered, senders, respBuf, timedOut, node>>
      /\ Local' = Local /\ Pairs' = Pairs /\ Local \subseteq Mediators /\ aSize \in Nat
  BY TypeFacts, SizeFacts DEF VssInv, Local, Pairs, CountResponse
<1>1. p = <<m, d>> /\ m \in Local /\ d \in Mediators /\ m \in Mediators
  BY <1>0 DEF Pairs
<1>2. /\ loop[p] = "processed" /\ respCount' = [respCount EXCEPT ![p] = n + 1]
      /\ loop' = [loop EXCEPT ![p] = IF n + 1 = aSize - 1 THEN "done" ELSE "running"]
  BY Zenon DEF CountResponse, Finished
<1>3. /\ n \in Nat /\ n < aSize - 1 /\ status[m][d][m] # "none"
      /\ Closed(m, d) \/ Cardinality(Recorded(m, d)) = n + 2
  BY <1>0, <1>1, <1>2, SMT, Z3 DEF LoopInv, LoopOK, TypeOK
<1>4. /\ signing \in [Local -> Nat] /\ signing' \in [Local -> Nat]
      /\ \A x \in Local : signing'[x] > 0 => signing[x] > 0 \/ (x = m /\ Certified(m))
  BY <1>0, <1>1, SMT, Z3 DEF TypeOK, CountResponse
<1> HIDE DEF n, m, d
<1>5. /\ \A x \in Local, y \in Mediators :
           /\ respCount'[<<x, y>>] = IF x = m /\ y = d THEN n + 1 ELSE respCount[<<x, y>>]
           /\ loop'[<<x, y>>] = IF x = m /\ y = d THEN IF n + 1 = aSize - 1 THEN "done" ELSE "running"
                                ELSE loop[<<x, y>>]
  <2>1. \A x \in Local, y \in Mediators : <<x, y>> \in Pairs /\ (<<x, y>> = p <=> x = m /\ y = d)
    BY <1>1 DEF Pairs
  <2>2. QED
    BY <1>0, <1>2, <2>1 DEF TypeOK
<1>6. TypeOK'
  <2>1. /\ respCount' \in [Pairs -> 0 .. aSize - 1]
        /\ loop' \in [Pairs -> {"off", "running", "processed", "done"}]
    BY <1>0, <1>2, <1>3, SMT, Z3 DEF TypeOK
  <2>2. QED
    BY <1>0, <1>4, <2>1 DEF TypeOK
<1>7. SenderInv' /\ ChannelInv'
  BY <1>0, ShapeKept
<1>8. TokenInv'
  <2>1. \A x, a, y : TokenOK(x, a, y)' <=> TokenOK(x, a, y)
    BY <1>0, TokensSame
  <2>2. QED
    BY <1>0, <2>1 DEF TokenInv
<1>9. Recorded(m, d)' = Recorded(m, d) /\ Full(m, d)' = Full(m, d) /\ Closed(m, d)' = Closed(m, d)
  BY <1>0, Zenon DEF Recorded, Full, Closed
<1>10. LoopOK(m, d)'
  <2>1. CASE n + 1 = aSize - 1
    <3>1. Full(m, d)
      <4>1. CASE Closed(m, d)
        BY <4>1 DEF Closed
      <4>2. CASE Cardinality(Recorded(m, d)) = n + 2
        <5> DEFINE R == Recorded(m, d)
        <5>1. R \in SUBSET Mediators /\ (R = Mediators => Full(m, d))
          BY DEF Recorded, Full
        <5> HIDE DEF R
        <5>2. Cardinality(R) = Cardinality(Mediators)
          <6>1. Cardinality(R) = n + 2
            BY <4>2 DEF R
          <6>2. n \in Nat
            BY <1>3
          <6>3. QED
            BY <2>1, <6>1, <6>2, SizeFacts
        <5>3. R = Mediators
          BY <5>1, <5>2, SizeFacts, FS_Subset
        <5>4. QED
          BY <5>1, <5>3
      <4>3. QED
        BY <1>3, <4>1, <4>2
    <3>2. loop'[<<m, d>>] = "done" /\ status'[m][d][m] # "none"
      <4>1. status'[m][d][m] # "none"
        BY <1>0, <1>3
      <4>2. QED
        BY <1>1, <1>5, <2>1, <4>1
    <3>3. QED
      BY <1>9, <3>1, <3>2 DEF LoopOK
  <2>2. CASE n + 1 # aSize - 1
    <3>1. loop'[<<m, d>>] = "running" /\ status'[m][d][m] # "none" /\ respCount'[<<m, d>>] = n + 1
      <4>1. status'[m][d][m] # "none"
        BY <1>0, <1>3
      <4>2. QED
        BY <1>1, <1>5, <2>2, <4>1
    <3>2. n + 1 < aSize - 1 /\ (Closed(m, d) \/ Cardinality(Recorded(m, d)) = (n + 1) + 1)
      BY <1>0, <1>3, <2>2
    <3>3. QED
      BY <1>9, <3>1, <3>2, Zenon DEF LoopOK
  <2>3. QED
    BY <2>1, <2>2
<1>11. ASSUME NEW x \in Local, NEW y \in Mediators, ~(x = m /\ y = d) PROVE LoopOK(x, y)'
  <2>1. LoopOK(x, y)
    BY <1>0 DEF LoopInv
  <2>2. /\ \A r \in Mediators : status'[x][y][r] = status[x][y][r]
        /\ loop'[<<x, y>>] = loop[<<x, y>>] /\ respCount'[<<x, y>>] = respCount[<<x, y>>]
    BY <1>0, <1>5, <1>11
  <2>3. QED
    BY <1>0, <2>1, <2>2, LoopKept
<1>12. LoopInv'
  BY <1>0, <1>10, <1>11 DEF LoopInv
<1>13. StateInv'
  <2>1. \A x \in Local : x \in dealt' <=> loop'[<<x, x>>] # "off"
    <3>1. loop[<<m, d>>] # "off" /\ loop'[<<m, d>>] # "off"
      <4>1. loop[<<m, d>>] = "processed"
        BY <1>1, <1>2
      <4>2. loop'[<<m, d>>] \in {"done", "running"}
        BY <1>1, <1>5
      <4>3. QED
        BY <4>1, <4>2
    <3>2. \A x \in Local : ~(x = m /\ x = d) => loop'[<<x, x>>] = loop[<<x, x>>]
      BY <1>0, <1>5
    <3>3. QED
      BY <1>0, <3>1, <3>2, Zenon DEF StateInv
  <2>2. \A x, y : Full(x, y)' = Full(x, y)
    BY <1>0 DEF Full
  <2>3. \A x \in Local : signing'[x] > 0 => \A y \in Mediators : Full(x, y)'
    BY <1>0, <1>4, <2>2, CertifiedFull DEF StateInv
  <2>4. QED
    BY <1>0, <2>1, <2>3 DEF StateInv
<1>14. QED
  BY <1>6, <1>7, <1>8, <1>12, <1>13 DEF VssInv

-----------------------------------------------------------------------------
(* The timeout, and what follows *)

(* endVSSProtocol(true) completes the deals it closes, and touches no other. *)
LEMMA TimeoutInv ==
  ASSUME VssInv, EndVSSProtocol
  PROVE  VssInv'
<1>0. /\ TypeOK /\ SenderInv /\ ChannelInv /\ TokenInv /\ LoopInv /\ StateInv
      /\ UNCHANGED <<deals, dealt, resps, delivered, senders, respBuf, loop, respCount, signing, node>>
      /\ Local' = Local /\ Pairs' = Pairs /\ Local \subseteq Mediators
      /\ timedOut' = TRUE /\ node.timeout /\ status \in Records(Local)
  BY TypeFacts DEF VssInv, Local, Pairs, EndVSSProtocol
<1>1. \A x \in Local, y, z \in Mediators : status[x][y][z] \in Statuses
  BY <1>0, SMT, Z3 DEF Records
<1>2. /\ status' \in Records(Local)
      /\ \A x \in Local, y \in Mediators :
           \/ \A z \in Mediators : status'[x][y][z] = status[x][y][z]
           \/ status[x][y][x] # "none"
              /\ \A z \in Mediators : status'[x][y][z] # "none"
  <2>1. CASE status' = status
    BY <1>0, <2>1
  <2>2. CASE status' = SetTimeout
    <3>1. \A x \in Local, y \in Mediators :
            status'[x][y] = IF status[x][y][x] = "none" THEN status[x][y]
                            ELSE [r \in Mediators |->
                                    IF status[x][y][r] = "none" THEN "complaint" ELSE status[x][y][r]]
      BY <2>2 DEF SetTimeout
    <3>2. \A x \in Local, y \in Mediators :
            \/ \A z \in Mediators : status'[x][y][z] = status[x][y][z]
            \/ status[x][y][x] # "none"
               /\ \A z \in Mediators : status'[x][y][z] # "none"
      <4> SUFFICES ASSUME NEW x \in Local, NEW y \in Mediators, status[x][y][x] # "none",
                          NEW z \in Mediators
                   PROVE  status'[x][y][z] # "none"
        BY <3>1, Zenon
      <4>1. status'[x][y][z] = IF status[x][y][z] = "none" THEN "complaint" ELSE status[x][y][z]
        <5>1. status'[x][y] = [r \in Mediators |->
                                 IF status[x][y][r] = "none" THEN "complaint" ELSE status[x][y][r]]
          BY <3>1, Zenon
        <5>2. QED
          BY <5>1, Zenon
      <4>2. QED
        BY <4>1
    <3>3. SetTimeout \in Records(Local)
      <4>1. \A x \in Local, y \in Mediators :
              /\ status[x][y] \in [Mediators -> Statuses]
              /\ [r \in Mediators |-> IF status[x][y][r] = "none" THEN "complaint" ELSE status[x][y][r]]
                   \in [Mediators -> Statuses]
        BY <1>0, <1>1, SMT, Z3 DEF Records, Statuses
      <4>2. QED
        BY <4>1 DEF SetTimeout, Records
    <3>4. QED
      BY <2>2, <3>2, <3>3
  <2>3. QED
    BY <2>1, <2>2 DEF EndVSSProtocol
<1>3. Kept
  BY <1>2 DEF Kept
<1>4. TypeOK'
  BY <1>0, <1>2 DEF TypeOK, Records, Statuses
<1>5. SenderInv' /\ ChannelInv'
  BY <1>0, ShapeKept
<1>6. TokenInv'
  <2> SUFFICES ASSUME NEW x \in Local, NEW b \in Mediators, NEW e \in Mediators, b # x, b # e
               PROVE  TokenOK(x, b, e)'
    BY <1>0 DEF TokenInv
  <2>1. TokenOK(x, b, e)
    BY <1>0 DEF TokenInv
  <2>2. Unsent(b, e)' => Unsent(b, e)
    BY <1>0, <1>3, UnsentKept, Zenon DEF Kept
  <2>3. Sending(x, b, e)' = Sending(x, b, e) /\ Queued(x, b, e)' = Queued(x, b, e)
    BY <1>0, PlacesKept
  <2>4. Fresh(x, b, e) => Fresh(x, b, e)'
    <3>1. Closed(x, e) => Closed(x, e)'
      BY <1>0, <1>3, FullKept
    <3>2. status'[x][e][b] = status[x][e][b] \/ Closed(x, e)'
      BY <1>0, <1>2 DEF Closed, Full
    <3>3. QED
      BY <3>1, <3>2 DEF Fresh
  <2>5. QED
    BY <2>1, <2>2, <2>3, <2>4, TokenKept
<1>7. ASSUME NEW x \in Local, NEW y \in Mediators PROVE LoopOK(x, y)'
  <2>1. LoopOK(x, y)
    BY <1>0 DEF LoopInv
  <2>2. CASE \A z \in Mediators : status'[x][y][z] = status[x][y][z]
    BY <1>0, <2>1, <2>2, LoopKept
  <2>3. CASE status[x][y][x] # "none" /\ \A z \in Mediators : status'[x][y][z] # "none"
    <3>1. Closed(x, y)' /\ Full(x, y)' /\ x \in Mediators
      BY <1>0, <2>3 DEF Closed, Full
    <3>2. QED
      BY <1>0, <2>1, <2>3, <3>1, Zenon DEF LoopOK
  <2>4. QED
    BY <1>2, <2>2, <2>3
<1>8. LoopInv'
  BY <1>0, <1>7 DEF LoopInv
<1>9. StateInv'
  <2>1. \A x \in Local : signing'[x] > 0 => \A y \in Mediators : Full(x, y)'
    BY <1>0, <1>3, FullKept DEF StateInv
  <2>2. \A r \in resps' : r[1] \in Local /\ status'[r[1]][r[2]][r[1]] # "none"
    BY <1>0, <1>3, ResponseParts DEF StateInv, TypeOK, Kept
  <2>3. QED
    BY <1>0, <2>1, <2>2 DEF StateInv
<1>10. QED
  BY <1>4, <1>5, <1>6, <1>8, <1>9 DEF VssInv

(* Every step keeps the invariant. *)
LEMMA VssStep ==
  ASSUME MaxCopies = 1, VssInv, [Next]_vars
  PROVE  VssInv'
<1>1. CASE Next
  BY <1>1, BroadcastInv, ProcessDealInv, OwnResponseInv, RemoteResponseInv, AddToResponseBufInv,
     ProcessResponseInv, CountResponseInv, TimeoutInv DEF Next
<1>2. CASE UNCHANGED vars
  <2>1. UNCHANGED <<status, deals, dealt, resps, delivered, senders, respBuf, loop, respCount,
                    signing, timedOut, node>>
    BY <1>2 DEF vars
  <2>2. Local' = Local /\ Pairs' = Pairs
    BY <2>1 DEF Local, Pairs
  <2>3. TypeOK'
    BY <2>1, <2>2 DEF VssInv, TypeOK
  <2>4. SenderInv' /\ ChannelInv'
    BY <2>1, ShapeKept DEF VssInv
  <2>5. \A x, a, y : TokenOK(x, a, y)' <=> TokenOK(x, a, y)
    BY <2>1, TokensSame
  <2>6. TokenInv'
    BY <2>2, <2>5 DEF VssInv, TokenInv
  <2>7. LoopInv' /\ StateInv'
    BY <2>1, RecordsKept
  <2>8. QED
    BY <2>3, <2>4, <2>6, <2>7 DEF VssInv
<1>3. QED
  BY <1>1, <1>2

(* When every response is delivered once, responses, channels and loops agree *)
(* in every state of the key generation.                                      *)
THEOREM VssInvariant ==
  ASSUME MaxCopies = 1
  PROVE  Spec => []VssInv
<1>1. VssInv /\ [Next]_vars => VssInv'
  BY VssStep
<1>2. QED
  BY <1>1, VssInvInit, PTL DEF Spec

(* A response loop that has counted to its end has all mediators' responses   *)
(* to the deal recorded, whatever the order of deals, responses and the       *)
(* timeout, and whatever the number of mediators and of local ones.           *)
THEOREM FinishedIsCompleteAlways ==
  ASSUME MaxCopies = 1
  PROVE  Spec => []FinishedIsComplete
<1>1. VssInv => FinishedIsComplete
  <2> SUFFICES ASSUME VssInv, NEW p \in Pairs, loop[p] = "done"
               PROVE  \A r \in Mediators : status[p[1]][p[2]][r] # "none"
    BY DEF VssInv, FinishedIsComplete
  <2>1. p = <<p[1], p[2]>> /\ p[1] \in Local /\ p[2] \in Mediators
    BY DEF Pairs
  <2>2. LoopOK(p[1], p[2])
    BY <2>1 DEF VssInv, LoopInv
  <2>3. QED
    BY <2>1, <2>2 DEF LoopOK, Full
<1>2. QED
  BY <1>1, VssInvariant, PTL

(* With good deals and no timeout, every goroutine that hands a response on   *)
(* finds the channel it is to put it into: a loop that has ended, and a       *)
(* mediator that is certified, have recorded the response already.            *)
THEOREM NoSenderLostAlways ==
  ASSUME MaxCopies = 1
  PROVE  Spec => []NoSenderLost
<1>1. VssInv => NoSenderLost
  <2> SUFFICES ASSUME VssInv, Smooth, NEW s \in senders
               PROVE  Channel(<<s.at, s.resp[2]>>)
    BY Zenon DEF NoSenderLost
  <2> DEFINE a == s.resp[1]
             d == s.resp[2]
             m == s.at
  <2>1. TypeOK /\ SenderInv /\ TokenInv /\ LoopInv /\ StateInv /\ ~timedOut
    BY DEF VssInv, Smooth, StateInv
  <2>2. s \in [resp : Responses, copy : 1 .. MaxCopies, at : Local, todo : SUBSET Local]
    BY <2>1 DEF TypeOK
  <2>3. s.resp \in Responses /\ m \in Local /\ m \in s.todo /\ a \notin s.todo
    BY <2>1, <2>2 DEF SenderInv
  <2>4. s.resp = <<a, d>> /\ a \in Mediators /\ d \in Mediators /\ a # d /\ a # m
    BY <2>3, ResponseParts
  <2>5. Sending(m, a, d) /\ TokenOK(m, a, d)
    BY <2>1, <2>3, <2>4 DEF Sending, TokenInv
  <2>6. status[m][d][a] = "none"
    BY <2>1, <2>5, Zenon DEF TokenOK, Fresh, Closed
  <2>7. ~Full(m, d)
    BY <2>4, <2>6 DEF Full
  <2>8. loop[<<m, d>>] # "done"
    BY <2>1, <2>3, <2>4, <2>7 DEF LoopInv, LoopOK
  <2>9. signing[m] = 0
    <3>1. signing[m] \in Nat
      BY <2>1, <2>3 DEF TypeOK
    <3>2. ~(signing[m] > 0)
      BY <2>1, <2>3, <2>4, <2>7, Zenon DEF StateInv
    <3>3. QED
      BY <3>1, <3>2
  <2>10. <<m, d>>[1] = m
    OBVIOUS
  <2>11. QED
    BY <2>8, <2>9, <2>10 DEF Channel
<1>2. QED
  BY <1>1, VssInvariant, PTL

=============================================================================
