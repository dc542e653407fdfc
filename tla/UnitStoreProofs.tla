-------------------------- MODULE UnitStoreProofs --------------------------
(***************************************************************************)
(* The unit store implements the ledger, and what a reader finds in it is  *)
(* complete, for every set of units, callers and batches and any number of *)
(* crashes and failed writes.                                              *)
(***************************************************************************)
EXTENDS UnitStore, SequenceTheorems, TLAPS

\* The provers of a step that names none, in the order they are tried.
USE Zenon, SMT, Z3

-----------------------------------------------------------------------------
(* The invariant *)

TableType ==
  /\ txs \subseteq Transactions /\ lookups \subseteq Transactions
  /\ bodies \subseteq Units /\ headers \subseteq Units /\ numbers \subseteq Units

IndexType ==
  /\ byNumber \in [Numbers -> Units \union {None}]
  /\ canonical \in [Numbers -> Units \union {None}]
  /\ headHeader \in Units /\ headUnit \in Units /\ headFast \in Units

UtxoType == utxo \in [Outputs -> {"absent", "unspent", "spent"}]

Calls == [batch : Seq(Units), i : Nat, t : Nat, pc : PCs]

\* A call that is under way is at a transaction of a unit of its batch.
CallOK(d) ==
  d.pc # "idle" => /\ d.batch \in plan.batches
                   /\ d.i \in 1 .. Len(d.batch)
                   /\ d.t \in 1 .. Len(TxsOf[d.batch[d.i]])

CallType == call \in [Callers -> Calls] /\ \A c \in Callers : CallOK(call[c])

Errors == {"none", "number", "parent", "exists", "save"}
Results == [batch : Seq(Units), count : Nat, err : Errors]

ResultType ==
  /\ result \in [Callers -> Results]
  /\ \A c \in Callers : result[c].count \in 0 .. Len(result[c].batch)

Goroutines ==
  [by : Callers, unit : Units, fetched : BOOLEAN, spend : SUBSET Outputs, save : SUBSET Outputs]

RestType ==
  /\ updates \subseteq Goroutines /\ begun \subseteq Units
  /\ plan \in Plans /\ faults \in 0 .. plan.maxFaults

StoreType == TableType /\ IndexType /\ UtxoType /\ CallType /\ ResultType /\ RestType

\* The writes that come after the transactions, after the body, and so on.
FromHash == {"hash", "canonical", "headHeader", "headUnit", "headFast"}
FromNumber == FromHash \union {"number"}
FromHeader == FromNumber \union {"header"}
FromLookup == FromHeader \union {"lookup"}
FromBody == FromLookup \union {"body"}

\* What a call has written of its unit, and that the units before it are stored,
\* in tables of transactions, lookup entries, bodies, headers and numbers.
WrittenIn(d, ts, ls, bs, hs, ns) ==
  LET u == d.batch[d.i] IN
  /\ d.pc \in {"check", "create", "destroy", "tx"} => \A k \in 1 .. (d.t - 1) : TxsOf[u][k] \in ts
  /\ d.pc \in FromBody => UnitTxs(u) \subseteq ts
  /\ d.pc \in FromLookup => u \in bs
  /\ d.pc \in FromHeader => UnitTxs(u) \subseteq ls
  /\ d.pc \in FromNumber => u \in hs
  /\ d.pc \in FromHash => u \in ns
  /\ d.pc # "idle" => \A k \in 1 .. (d.i - 1) : d.batch[k] \in ns

Written(d) == WrittenIn(d, txs, lookups, bodies, headers, numbers)
WrittenThen(d) == WrittenIn(d, txs', lookups', bodies', headers', numbers')

CallsWritten == \A c \in Callers : Written(call[c])

\* A unit with a number is complete, and what is found has a number.
Complete ==
  /\ \A u \in numbers : u \in headers /\ u \in bodies /\ UnitTxs(u) \subseteq txs \intersect lookups
  /\ {headHeader, headUnit, headFast} \subseteq numbers
  /\ \A n \in Numbers : canonical[n] # None => canonical[n] \in numbers

Returned == \A c \in Callers : \A k \in 1 .. result[c].count : result[c].batch[k] \in numbers

StoreInv == StoreType /\ CallsWritten /\ Complete /\ Returned

-----------------------------------------------------------------------------
(* Facts about the constants *)

(* The transactions of a unit, and what they create. *)
LEMMA UnitFacts ==
  ASSUME NEW u \in Units
  PROVE  /\ TxsOf[u] \in Seq(Transactions) /\ Len(TxsOf[u]) \in Nat /\ Len(TxsOf[u]) >= 1
         /\ \A k \in 1 .. Len(TxsOf[u]) : TxsOf[u][k] \in Transactions
         /\ UnitTxs(u) \subseteq Transactions
         /\ UnitOuts(u) \subseteq Outputs
         /\ Number[u] \in Numbers
<1>1. TxsOf[u] \in Seq(Transactions) /\ TxsOf[u] # <<>>
  BY StoreAssumption
<1>2. Len(TxsOf[u]) \in Nat /\ Len(TxsOf[u]) >= 1
  BY <1>1, EmptySeq
<1>3. \A k \in 1 .. Len(TxsOf[u]) : TxsOf[u][k] \in Transactions
  BY <1>1
<1>4. UnitTxs(u) \subseteq Transactions
  BY <1>3 DEF UnitTxs
<1>5. UnitOuts(u) \subseteq Outputs
  BY <1>4, StoreAssumption, SMT, Z3 DEF UnitOuts
<1>6. Number[u] \in Numbers
  BY DEF Numbers
<1> QED BY <1>1, <1>2, <1>3, <1>4, <1>5, <1>6

(* A plan and its batches. *)
LEMMA PlanFacts ==
  ASSUME NEW p \in Plans
  PROVE  /\ p.callers \subseteq Callers /\ p.maxFaults \in Nat
         /\ \A b \in p.batches : b \in Seq(Units) /\ Len(b) \in Nat /\ Len(b) >= 1
                                 /\ \A k \in 1 .. Len(b) : b[k] \in Units
<1>1. p.callers \subseteq Callers /\ p.maxFaults \in Nat /\ p.batches \subseteq Seq(Units) \ {<<>>}
  BY StoreAssumption
<1>2. ASSUME NEW b \in p.batches
      PROVE  b \in Seq(Units) /\ Len(b) \in Nat /\ Len(b) >= 1 /\ \A k \in 1 .. Len(b) : b[k] \in Units
  BY <1>1, EmptySeq
<1> QED BY <1>1, <1>2

(* The unit and the transaction that a call is at. *)
LEMMA AtUnit ==
  ASSUME StoreType, NEW c \in Callers, call[c].pc # "idle"
  PROVE  /\ Unit(c) \in Units /\ Tx(c) \in UnitTxs(Unit(c)) /\ Tx(c) \in Transactions
         /\ call[c].batch \in plan.batches /\ call[c].batch \in Seq(Units)
         /\ Len(call[c].batch) \in Nat
         /\ call[c].i \in 1 .. Len(call[c].batch)
         /\ call[c].t \in 1 .. Len(TxsOf[Unit(c)]) /\ Len(TxsOf[Unit(c)]) \in Nat
<1>1. /\ call[c].batch \in plan.batches /\ call[c].i \in 1 .. Len(call[c].batch)
      /\ call[c].t \in 1 .. Len(TxsOf[Unit(c)])
  BY DEF StoreType, CallType, CallOK, Unit
<1>2. plan \in Plans
  BY DEF StoreType, RestType
<1>3. Unit(c) \in Units /\ call[c].batch \in Seq(Units) /\ Len(call[c].batch) \in Nat
  BY <1>1, <1>2, PlanFacts DEF Unit
<1>4. Tx(c) \in UnitTxs(Unit(c)) /\ Tx(c) \in Transactions /\ Len(TxsOf[Unit(c)]) \in Nat
  BY <1>1, <1>3, UnitFacts DEF Tx, UnitTxs
<1> QED BY <1>1, <1>3, <1>4

-----------------------------------------------------------------------------
(* The empty database with the genesis unit *)

(* The initial state has the invariant. *)
LEMMA StoreInvInit == Init => StoreInv
<1> SUFFICES ASSUME Init PROVE StoreInv
  OBVIOUS
<1>0. Genesis \in Units
  BY StoreAssumption
<1>1. TableType
  BY <1>0, UnitFacts DEF Init, TableType
<1>2. IndexType /\ UtxoType
  BY <1>0 DEF Init, IndexType, UtxoType
<1>3. Idle \in Calls /\ NoResult \in Results
  BY DEF Idle, NoResult, Calls, Results, Errors, PCs
<1>4. CallType /\ CallsWritten
  BY <1>3 DEF Init, CallType, CallOK, CallsWritten, Written, WrittenIn, Idle, FromBody, FromLookup, FromHeader,
              FromNumber, FromHash
<1>5. ResultType /\ Returned
  BY <1>3 DEF Init, ResultType, Returned, NoResult
<1>6. RestType
  BY <1>0, PlanFacts DEF Init, RestType
<1>7. Complete
  BY <1>0 DEF Init, Complete
<1> QED BY <1>1, <1>2, <1>4, <1>5, <1>6, <1>7 DEF StoreInv, StoreType

-----------------------------------------------------------------------------
(* The steps *)

\* The tables only grow.
Grown ==
  /\ txs \subseteq txs' /\ lookups \subseteq lookups' /\ bodies \subseteq bodies'
  /\ headers \subseteq headers' /\ numbers \subseteq numbers'


(* The order of the writes, write by write. *)
LEMMA AfterFacts ==
  /\ After["create"] = "destroy" /\ After["destroy"] = "tx"
  /\ After["body"] = "lookup" /\ After["lookup"] = "header" /\ After["header"] = "number"
  /\ After["number"] = "hash" /\ After["hash"] = "canonical" /\ After["canonical"] = "headHeader"
  /\ After["headHeader"] = "headUnit" /\ After["headUnit"] = "headFast"
BY DEF After

(* What a call has written stays written. *)
LEMMA WrittenKept ==
  ASSUME Grown, NEW d, Written(d)
  PROVE  WrittenThen(d)
BY DEF Grown, Written, WrittenThen, WrittenIn

(* Tables that only grow, with the numbers, heads and indexes as they were. *)
LEMMA CompleteKept ==
  ASSUME Complete, Grown, UNCHANGED <<numbers, heads, canonical>>
  PROVE  Complete'
BY DEF Complete, Grown, heads

(* A step of one call that leaves the results alone. *)
LEMMA CallAdvances ==
  ASSUME StoreInv, Grown, NEW c \in Callers, NEW d \in Calls, CallOK(d), WrittenThen(d),
         call' = [call EXCEPT ![c] = d], UNCHANGED <<result, plan>>,
         TableType', IndexType', UtxoType', RestType', Complete'
  PROVE  StoreInv'
<1>1. call \in [Callers -> Calls] /\ \A e \in Callers : CallOK(call[e]) /\ Written(call[e])
  BY DEF StoreInv, StoreType, CallType, CallsWritten
<1>2. \A e \in Callers : call'[e] = IF e = c THEN d ELSE call[e]
  BY <1>1
<1>3. CallType'
  <2>1. call' \in [Callers -> Calls]
    BY <1>1
  <2>2. ASSUME NEW e \in Callers PROVE CallOK(call[e])'
    BY <1>1, <1>2 DEF CallOK
  <2> QED BY <2>1, <2>2 DEF CallType
<1>4. CallsWritten'
  <2> SUFFICES ASSUME NEW e \in Callers PROVE Written(call[e])'
    BY DEF CallsWritten
  <2>1. CASE e = c
    <3>1. call'[e] = d
      BY <1>2, <2>1
    <3> QED BY <3>1 DEF Written, WrittenThen
  <2>2. CASE e # c
    <3>1. call'[e] = call[e]
      BY <1>2, <2>2
    <3>2. Written(call[e])
      BY <1>1
    <3> QED BY <3>1, <3>2, WrittenKept DEF Written, WrittenThen
  <2> QED BY <2>1, <2>2
<1>5. ResultType' /\ Returned'
  BY DEF StoreInv, StoreType, ResultType, Returned, Grown
<1> QED BY <1>3, <1>4, <1>5 DEF StoreInv, StoreType

(* A call returns: the units it counts are stored. *)
LEMMA CallReturns ==
  ASSUME StoreInv, Grown, NEW c \in Callers, call[c].pc # "idle", UNCHANGED plan,
         NEW n \in 0 .. Len(call[c].batch), NEW e \in Errors, Return(c, n, e),
         \A k \in 1 .. n : call[c].batch[k] \in numbers',
         TableType', IndexType', UtxoType', RestType', Complete'
  PROVE  StoreInv'
<1>1. call \in [Callers -> Calls] /\ \A d \in Callers : CallOK(call[d]) /\ Written(call[d])
  BY DEF StoreInv, StoreType, CallType, CallsWritten
<1>2. /\ call' = [call EXCEPT ![c] = Idle]
      /\ result' = [result EXCEPT ![c] = [batch |-> call[c].batch, count |-> n, err |-> e]]
  BY DEF Return
<1>3. Idle \in Calls /\ Idle.pc = "idle"
  BY DEF Idle, Calls, PCs
<1>4. \A d \in Callers : call'[d] = IF d = c THEN Idle ELSE call[d]
  BY <1>1, <1>2
<1>5. CallType'
  <2>1. call' \in [Callers -> Calls]
    BY <1>1, <1>2, <1>3
  <2>2. ASSUME NEW d \in Callers PROVE CallOK(call[d])'
    BY <1>1, <1>3, <1>4 DEF CallOK
  <2> QED BY <2>1, <2>2 DEF CallType
<1>6. CallsWritten'
  <2> SUFFICES ASSUME NEW d \in Callers PROVE Written(call[d])'
    BY DEF CallsWritten
  <2>1. CASE d = c
    <3>1. call'[d].pc = "idle"
      BY <1>3, <1>4, <2>1
    <3> QED BY <3>1 DEF Written, WrittenIn, FromBody, FromLookup, FromHeader, FromNumber, FromHash
  <2>2. CASE d # c
    <3>1. call'[d] = call[d] /\ Written(call[d])
      BY <1>1, <1>4, <2>2
    <3> QED BY <3>1, WrittenKept DEF Written, WrittenThen
  <2> QED BY <2>1, <2>2
<1>7. call[c].batch \in Seq(Units) /\ Len(call[c].batch) \in Nat
  BY AtUnit DEF StoreInv
<1>8. ResultType'
  <2>1. result \in [Callers -> Results] /\ \A d \in Callers : result[d].count \in 0 .. Len(result[d].batch)
    BY DEF StoreInv, StoreType, ResultType
  <2>2. [batch |-> call[c].batch, count |-> n, err |-> e] \in Results
    BY <1>7 DEF Results
  <2>3. result' \in [Callers -> Results]
    BY <1>2, <2>1, <2>2
  <2>4. ASSUME NEW d \in Callers PROVE result'[d].count \in 0 .. Len(result'[d].batch)
    BY <1>2, <2>1
  <2> QED BY <2>3, <2>4 DEF ResultType
<1>9. Returned'
  <2>1. \A d \in Callers : result'[d] = IF d = c THEN [batch |-> call[c].batch, count |-> n, err |-> e] ELSE result[d]
    BY <1>2 DEF StoreInv, StoreType, ResultType
  <2>2. \A d \in Callers : \A k \in 1 .. result[d].count : result[d].batch[k] \in numbers'
    BY DEF StoreInv, Returned, Grown
  <2> QED BY <2>1, <2>2, SMT, Z3 DEF Returned
<1> QED BY <1>5, <1>6, <1>8, <1>9 DEF StoreInv, StoreType

(* Where the writing of a unit gets to with the next write. *)
LEMMA WriteAdvances ==
  ASSUME StoreInv, Grown, NEW c \in Callers, call[c].pc # "idle", NEW q \in PCs \ {"idle"},
         call' = [call EXCEPT ![c].pc = q], UNCHANGED <<result, plan>>,
         WrittenThen([call[c] EXCEPT !.pc = q]),
         TableType', IndexType', UtxoType', RestType', Complete'
  PROVE  StoreInv'
<1> DEFINE d == [call[c] EXCEPT !.pc = q]
<1>1. call[c] \in Calls /\ CallOK(call[c])
  BY DEF StoreInv, StoreType, CallType
<1>2. d \in Calls /\ CallOK(d)
  BY <1>1 DEF Calls, CallOK
<1>3. call' = [call EXCEPT ![c] = d]
  BY DEF StoreInv, StoreType, CallType
<1> QED BY <1>2, <1>3, CallAdvances, Zenon

(* InsertDag begins with a batch. *)
LEMMA StoreInvInsert ==
  ASSUME StoreInv, NEW c \in Callers, NEW b \in plan.batches, InsertDag(c, b)
  PROVE  StoreInv'
<1> DEFINE d == [batch |-> b, i |-> 1, t |-> 1, pc |-> "check"]
<1>1. plan \in Plans
  BY DEF StoreInv, StoreType, RestType
<1>2. b \in Seq(Units) /\ Len(b) \in Nat /\ Len(b) >= 1 /\ b[1] \in Units
  BY <1>1, PlanFacts
<1>3. d \in Calls
  BY <1>2 DEF Calls, PCs
<1>4. CallOK(d)
  BY <1>2, UnitFacts DEF CallOK
<1>5. Grown /\ WrittenThen(d)
  BY DEF InsertDag, tables, Grown, WrittenThen, WrittenIn, FromBody, FromLookup, FromHeader, FromNumber, FromHash
<1>6. TableType' /\ IndexType' /\ UtxoType' /\ RestType' /\ Complete'
  BY DEF InsertDag, tables, indexes, heads, StoreInv, StoreType, TableType, IndexType, UtxoType,
         RestType, Complete
<1>7. call' = [call EXCEPT ![c] = d] /\ UNCHANGED <<result, plan>>
  BY DEF InsertDag
<1> HIDE DEF d
<1> QED BY <1>3, <1>4, <1>5, <1>6, <1>7, CallAdvances, Zenon

(* The checks before a unit is written. *)
LEMMA StoreInvCheck ==
  ASSUME StoreInv, NEW c \in Callers, Check(c)
  PROVE  StoreInv'
<1>0. StoreType /\ call[c].pc = "check" /\ call[c].pc # "idle" /\ Written(call[c]) /\ Unit(c) \in Units
  BY AtUnit DEF Check, StoreInv, CallsWritten
<1>1. Grown /\ UNCHANGED <<tables, indexes, heads, utxo, updates, faults, plan>>
  BY DEF Check, tables, Grown
<1>2. TableType' /\ IndexType' /\ UtxoType' /\ Complete'
  BY <1>1 DEF tables, indexes, heads, StoreInv, StoreType, TableType, IndexType, UtxoType, Complete
<1>3. begun' = begun \/ begun' = begun \union {Unit(c)}
  BY DEF Check
<1>4. RestType'
  BY <1>0, <1>1, <1>3 DEF StoreType, RestType
<1>5. ASSUME NEW e \in Errors, Return(c, call[c].i - 1, e) PROVE StoreInv'
  <2>1. call[c].i \in 1 .. Len(call[c].batch) /\ Len(call[c].batch) \in Nat
    BY <1>0, AtUnit
  <2>2. call[c].i - 1 \in 0 .. Len(call[c].batch)
    BY <2>1
  <2>3. \A k \in 1 .. (call[c].i - 1) : call[c].batch[k] \in numbers'
    BY <1>0, <1>1 DEF Written, WrittenIn, tables
  <2> QED BY <1>0, <1>1, <1>2, <1>4, <1>5, <2>2, <2>3, CallReturns
<1>6. ASSUME call' = [call EXCEPT ![c].pc = "create"], UNCHANGED result PROVE StoreInv'
  <2>1. WrittenThen([call[c] EXCEPT !.pc = "create"])
    <3> DEFINE d == [call[c] EXCEPT !.pc = "create"]
    <3>1. call[c] \in Calls
      BY <1>0 DEF StoreType, CallType
    <3>2. d.pc = "create" /\ d.batch = call[c].batch /\ d.i = call[c].i /\ d.t = call[c].t
      BY <3>1 DEF Calls
    <3>3. \A k \in 1 .. (d.t - 1) : TxsOf[d.batch[d.i]][k] \in txs'
      BY <1>0, <1>1, <3>2, SMT, Z3 DEF Written, WrittenIn, tables
    <3>4. \A k \in 1 .. (d.i - 1) : d.batch[k] \in numbers'
      BY <1>0, <1>1, <3>2, SMT, Z3 DEF Written, WrittenIn, tables
    <3> QED BY <3>2, <3>3, <3>4 DEF WrittenThen, WrittenIn, FromBody, FromLookup, FromHeader, FromNumber, FromHash
  <2>2. "create" \in PCs \ {"idle"}
    BY DEF PCs
  <2> QED BY <1>0, <1>1, <1>2, <1>4, <1>6, <2>1, <2>2, WriteAdvances, Zenon
<1>7. "number" \in Errors /\ "parent" \in Errors /\ "exists" \in Errors
  BY DEF Errors
<1> QED BY <1>5, <1>6, <1>7 DEF Check

(* What is left to show of a write from the body on: the unit's own rows. *)
LEMMA WrittenNext ==
  ASSUME StoreInv, Grown, NEW c \in Callers, call[c].pc # "idle", NEW q \in FromBody,
         UnitTxs(Unit(c)) \subseteq txs',
         q \in FromLookup => Unit(c) \in bodies',
         q \in FromHeader => UnitTxs(Unit(c)) \subseteq lookups',
         q \in FromNumber => Unit(c) \in headers',
         q \in FromHash => Unit(c) \in numbers'
  PROVE  WrittenThen([call[c] EXCEPT !.pc = q])
<1> DEFINE d == [call[c] EXCEPT !.pc = q]
<1>1. call[c] \in Calls /\ Written(call[c])
  BY DEF StoreInv, StoreType, CallType, CallsWritten
<1>2. d.pc = q /\ d.batch = call[c].batch /\ d.i = call[c].i /\ d.batch[d.i] = Unit(c)
  BY <1>1 DEF Calls, Unit
<1>3. \A k \in 1 .. (call[c].i - 1) : call[c].batch[k] \in numbers'
  BY <1>1 DEF Written, WrittenIn, Grown
<1>4. q \notin {"check", "create", "destroy", "tx"}
  BY DEF FromBody, FromLookup, FromHeader, FromNumber, FromHash
<1> HIDE DEF d
<1> QED BY <1>2, <1>3, <1>4 DEF WrittenThen, WrittenIn, d

(* What was written for the unit before the step. *)
LEMMA UnitWritten ==
  ASSUME StoreInv, NEW c \in Callers
  PROVE  /\ call[c].pc \in FromBody => UnitTxs(Unit(c)) \subseteq txs
         /\ call[c].pc \in FromLookup => Unit(c) \in bodies
         /\ call[c].pc \in FromHeader => UnitTxs(Unit(c)) \subseteq lookups
         /\ call[c].pc \in FromNumber => Unit(c) \in headers
         /\ call[c].pc \in FromHash => Unit(c) \in numbers
BY DEF StoreInv, CallsWritten, Written, WrittenIn, Unit

(* A write of a row, an index or a head pointer. *)
LEMMA StoreInvWrite ==
  ASSUME StoreInv, NEW c \in Callers, NEW p \in FromBody, NEW q \in FromBody, Write(c, p),
         After[p] = q, Grown, UNCHANGED utxo, TableType', IndexType', Complete',
         q \in FromLookup => Unit(c) \in bodies',
         q \in FromHeader => UnitTxs(Unit(c)) \subseteq lookups',
         q \in FromNumber => Unit(c) \in headers',
         q \in FromHash => Unit(c) \in numbers'
  PROVE  StoreInv'
<1>1. call[c].pc = p /\ call' = [call EXCEPT ![c].pc = q] /\ UNCHANGED <<result, plan>>
  BY DEF Write
<1>2. call[c].pc # "idle" /\ q \in PCs \ {"idle"}
  BY <1>1 DEF FromBody, FromLookup, FromHeader, FromNumber, FromHash, PCs
<1>3. UnitTxs(Unit(c)) \subseteq txs'
  BY <1>1, UnitWritten DEF Grown
<1>4. WrittenThen([call[c] EXCEPT !.pc = q])
  BY <1>2, <1>3, WrittenNext
<1>5. UtxoType' /\ RestType'
  BY DEF StoreInv, StoreType, UtxoType, RestType, Write
<1> QED BY <1>1, <1>2, <1>4, <1>5, WriteAdvances, Zenon

(* UpdateUtxo touches only the UTXO set. *)
LEMMA StoreInvUpdateUtxo ==
  ASSUME StoreInv, NEW c \in Callers, WriteUtxo(c) \/ DestroyUtxo(c)
  PROVE  StoreInv'
<1> DEFINE q == IF call[c].pc = "create" THEN "destroy" ELSE "tx"
           d == [call[c] EXCEPT !.pc = q]
<1>1. /\ call[c].pc \in {"create", "destroy"} /\ call' = [call EXCEPT ![c].pc = q]
      /\ UNCHANGED <<tables, indexes, heads, result, updates, begun, faults, plan>>
  BY AfterFacts, SMT, Zenon DEF WriteUtxo, DestroyUtxo, Write
<1>2. call[c].pc # "idle" /\ q \in PCs \ {"idle"} /\ q \in {"destroy", "tx"}
  BY <1>1 DEF PCs
<1>3. UtxoType'
  BY DEF WriteUtxo, DestroyUtxo, StoreInv, StoreType, UtxoType
<1>4. Grown /\ TableType' /\ IndexType' /\ RestType' /\ Complete'
  BY <1>1 DEF Grown, tables, indexes, heads, StoreInv, StoreType, TableType, IndexType, RestType, Complete
<1>5. WrittenThen(d)
  <2>1. call[c] \in Calls /\ Written(call[c])
    BY DEF StoreInv, StoreType, CallType, CallsWritten
  <2>2. d.pc = q /\ d.batch = call[c].batch /\ d.i = call[c].i /\ d.t = call[c].t
    BY <2>1 DEF Calls
  <2>3. \A k \in 1 .. (d.t - 1) : TxsOf[d.batch[d.i]][k] \in txs'
    BY <1>1, <2>1, <2>2, SMT, Z3 DEF Written, WrittenIn, tables
  <2>4. \A k \in 1 .. (d.i - 1) : d.batch[k] \in numbers'
    BY <1>1, <2>1, <2>2, SMT, Z3 DEF Written, WrittenIn, tables
  <2>5. d.pc \notin FromBody
    BY <1>2, <2>2, SMT, Z3 DEF FromBody, FromLookup, FromHeader, FromNumber, FromHash
  <2> HIDE DEF d, q
  <2> QED BY <2>3, <2>4, <2>5 DEF WrittenThen, WrittenIn, FromBody, FromLookup, FromHeader, FromNumber
<1> HIDE DEF q
<1> QED BY <1>1, <1>2, <1>3, <1>4, <1>5, WriteAdvances, Zenon DEF d

(* SaveTransaction, with more transactions to come or on to the body. *)
LEMMA StoreInvTransaction ==
  ASSUME StoreInv, NEW c \in Callers, SaveTransaction(c)
  PROVE  StoreInv'
<1> DEFINE T == TxsOf[Unit(c)]
           d == IF call[c].t < Len(T)
                THEN [call[c] EXCEPT !.t = call[c].t + 1, !.pc = "create"]
                ELSE [call[c] EXCEPT !.pc = "body"]
<1>0. call' = [call EXCEPT ![c] = d]
  <2>1. CASE call[c].t < Len(T)
    BY <2>1 DEF SaveTransaction
  <2>2. CASE ~(call[c].t < Len(T))
    BY <2>2 DEF SaveTransaction
  <2> QED BY <2>1, <2>2
<1>1. /\ call[c].pc = "tx" /\ call[c].pc # "idle" /\ txs' = txs \union {Tx(c)} /\ call' = [call EXCEPT ![c] = d]
      /\ UNCHANGED <<lookups, bodies, headers, numbers, indexes, heads, utxo, result, updates, begun, faults, plan>>
  BY <1>0 DEF SaveTransaction
<1>2. call[c] \in Calls /\ Written(call[c]) /\ CallOK(call[c])
  BY DEF StoreInv, StoreType, CallType, CallsWritten
<1>3. /\ Tx(c) \in Transactions /\ Tx(c) = T[call[c].t] /\ call[c].t \in 1 .. Len(T) /\ Len(T) \in Nat
      /\ call[c].batch \in plan.batches /\ call[c].i \in 1 .. Len(call[c].batch)
  BY <1>1, AtUnit DEF StoreInv, Tx
<1>4. Grown /\ TableType' /\ IndexType' /\ UtxoType' /\ RestType'
  BY <1>1, <1>3 DEF Grown, indexes, heads, StoreInv, StoreType, TableType, IndexType, UtxoType, RestType
<1>5. Complete'
  BY <1>1, <1>4, CompleteKept DEF StoreInv, indexes
<1>6. \A k \in 1 .. call[c].t : T[k] \in txs'
  <2>1. \A k \in 1 .. (call[c].t - 1) : T[k] \in txs
    BY <1>1, <1>2 DEF Written, WrittenIn, Unit
  <2> QED BY <1>1, <1>3, <2>1, SMT, Z3
<1>7. d.batch = call[c].batch /\ d.i = call[c].i /\ d.batch[d.i] = Unit(c)
  BY <1>2 DEF Calls, Unit
<1>8. \A k \in 1 .. (d.i - 1) : d.batch[k] \in numbers'
  BY <1>1, <1>2, <1>7 DEF Written, WrittenIn
<1>9. CASE call[c].t < Len(T)
  <2>0. d = [call[c] EXCEPT !.t = call[c].t + 1, !.pc = "create"] /\ call[c].t + 1 \in Nat
    BY <1>3, <1>9
  <2>1. d.t = call[c].t + 1 /\ d.pc = "create" /\ d \in Calls
    BY <1>2, <2>0, Zenon DEF Calls, PCs
  <2>t. T = TxsOf[d.batch[d.i]]
    BY <1>7
  <2> HIDE DEF d, T
  <2>2. CallOK(d)
    <3>1. d.batch \in plan.batches /\ d.i \in 1 .. Len(d.batch)
      BY <1>3, <1>7
    <3>2. d.t \in 1 .. Len(T)
      BY <1>3, <1>9, <2>1
    <3> QED BY <2>t, <3>1, <3>2 DEF CallOK
  <2>3. \A k \in 1 .. (d.t - 1) : TxsOf[d.batch[d.i]][k] \in txs'
    <3>1. \A k \in 1 .. (d.t - 1) : k \in 1 .. call[c].t
      BY <1>3, <2>1
    <3> QED BY <1>6, <2>t, <3>1
  <2>4. "create" \notin FromBody
    BY DEF FromBody, FromLookup, FromHeader, FromNumber, FromHash
  <2>5. WrittenThen(d)
    BY <1>8, <2>1, <2>3, <2>4 DEF WrittenThen, WrittenIn, FromBody, FromLookup, FromHeader, FromNumber
  <2> QED BY <1>1, <1>4, <1>5, <2>1, <2>2, <2>5, CallAdvances, Zenon
<1>10. CASE ~(call[c].t < Len(T))
  <2>1. d = [call[c] EXCEPT !.pc = "body"] /\ d.pc = "body" /\ d.t = call[c].t /\ d \in Calls
    BY <1>2, <1>10 DEF Calls, PCs
  <2>2. CallOK(d)
    BY <1>3, <1>7, <2>1 DEF CallOK
  <2>3. UnitTxs(Unit(c)) \subseteq txs'
    BY <1>3, <1>6, <1>10, SMT, Z3 DEF UnitTxs
  <2>4. "body" \in FromBody /\ "body" \notin FromLookup
    BY DEF FromBody, FromLookup, FromHeader, FromNumber, FromHash
  <2> HIDE DEF d
  <2>5. WrittenThen(d)
    BY <1>1, <1>4, <2>1, <2>3, <2>4, WrittenNext DEF FromLookup, FromHeader, FromNumber
  <2> QED BY <1>1, <1>4, <1>5, <2>1, <2>2, <2>5, CallAdvances, Zenon
<1> QED BY <1>9, <1>10

(* The writes from the body to the number. *)
LEMMA StoreInvRows ==
  ASSUME StoreInv, NEW c \in Callers,
         SaveBody(c) \/ SaveTxLookupEntry(c) \/ SaveHeader(c) \/ SaveNumberByHash(c)
  PROVE  StoreInv'
<1> USE DEF FromBody, FromLookup, FromHeader, FromNumber, FromHash
<1>0. call[c].pc # "idle" /\ call[c].pc \in FromBody /\ UNCHANGED <<indexes, heads, utxo>>
  BY DEF SaveBody, SaveTxLookupEntry, SaveHeader, SaveNumberByHash, Write
<1>1. Unit(c) \in Units /\ UnitTxs(Unit(c)) \subseteq Transactions
  BY <1>0, AtUnit, UnitFacts DEF StoreInv
<1>2. Grown
  BY DEF SaveBody, SaveTxLookupEntry, SaveHeader, SaveNumberByHash, Grown
<1>3. TableType' /\ IndexType'
  BY <1>0, <1>1 DEF SaveBody, SaveTxLookupEntry, SaveHeader, SaveNumberByHash, StoreInv, StoreType,
                    TableType, IndexType, indexes, heads
<1>4. CASE SaveBody(c)
  <2>1. Complete'
    BY <1>2, <1>4, CompleteKept DEF StoreInv, SaveBody, indexes
  <2>2. Write(c, "body") /\ Unit(c) \in bodies'
    BY <1>4 DEF SaveBody
  <2> QED BY <1>0, <1>2, <1>3, <2>1, <2>2, AfterFacts, StoreInvWrite
<1>5. CASE SaveTxLookupEntry(c)
  <2>1. Complete'
    BY <1>2, <1>5, CompleteKept DEF StoreInv, SaveTxLookupEntry, indexes
  <2>2. Write(c, "lookup") /\ UnitTxs(Unit(c)) \subseteq lookups'
    BY <1>5 DEF SaveTxLookupEntry
  <2>3. Unit(c) \in bodies'
    BY <1>2, <2>2, UnitWritten DEF Grown, Write
  <2> QED BY <1>0, <1>2, <1>3, <2>1, <2>2, <2>3, AfterFacts, StoreInvWrite
<1>6. CASE SaveHeader(c)
  <2>1. Complete'
    BY <1>2, <1>6, CompleteKept DEF StoreInv, SaveHeader, indexes
  <2>2. Write(c, "header") /\ Unit(c) \in headers'
    BY <1>6 DEF SaveHeader
  <2>3. Unit(c) \in bodies' /\ UnitTxs(Unit(c)) \subseteq lookups'
    BY <1>2, <2>2, UnitWritten DEF Grown, Write
  <2> QED BY <1>0, <1>2, <1>3, <2>1, <2>2, <2>3, AfterFacts, StoreInvWrite, Zenon
<1>7. CASE SaveNumberByHash(c)
  <2>1. Write(c, "number") /\ numbers' = numbers \union {Unit(c)}
        /\ UNCHANGED <<txs, lookups, bodies, headers, canonical, headHeader, headUnit, headFast>>
    BY <1>7 DEF SaveNumberByHash, indexes, heads
  <2>2. /\ Unit(c) \in bodies /\ UnitTxs(Unit(c)) \subseteq lookups
        /\ UnitTxs(Unit(c)) \subseteq txs /\ Unit(c) \in headers
    BY <2>1, UnitWritten DEF Write
  <2>3. Complete'
    BY <2>1, <2>2 DEF StoreInv, Complete
  <2> QED BY <1>0, <1>2, <1>3, <2>1, <2>2, <2>3, AfterFacts, StoreInvWrite, Zenon
<1> QED BY <1>4, <1>5, <1>6, <1>7

(* The indexes and the head pointers come after the number. *)
LEMMA StoreInvIndexes ==
  ASSUME StoreInv, NEW c \in Callers,
         \/ SaveHashByNumber(c) \/ PutCanonicalHash(c) \/ PutHeadHeaderHash(c) \/ PutHeadUnitHash(c)
  PROVE  StoreInv'
<1> DEFINE p == call[c].pc
<1>0. Write(c, p) /\ p \in FromHash /\ p # "headFast" /\ p # "idle" /\ UNCHANGED <<tables, utxo>>
  BY DEF SaveHashByNumber, PutCanonicalHash, PutHeadHeaderHash, PutHeadUnitHash, Write, FromHash
<1>1. After[p] \in FromHash
  BY <1>0, AfterFacts DEF FromHash
<1>2. Unit(c) \in Units /\ Number[Unit(c)] \in Numbers /\ Unit(c) \in numbers
  BY <1>0, AtUnit, UnitFacts, UnitWritten DEF StoreInv
<1>3. Unit(c) \in headers /\ Unit(c) \in bodies /\ UnitTxs(Unit(c)) \subseteq txs \intersect lookups
  BY <1>2 DEF StoreInv, Complete
<1>4. Grown /\ TableType'
  BY <1>0 DEF Grown, tables, StoreInv, StoreType, TableType
<1>5. IndexType'
  BY <1>2 DEF SaveHashByNumber, PutCanonicalHash, PutHeadHeaderHash, PutHeadUnitHash, heads, indexes,
              StoreInv, StoreType, IndexType
<1>6. Complete'
  <2>1. canonical \in [Numbers -> Units \union {None}]
    BY DEF StoreInv, StoreType, IndexType
  <2>2. UNCHANGED tables
    BY <1>0
  <2>3. \A n \in Numbers : canonical'[n] # None => canonical'[n] \in numbers
    BY <1>2, <2>1 DEF SaveHashByNumber, PutCanonicalHash, PutHeadHeaderHash, PutHeadUnitHash, indexes,
                      StoreInv, Complete
  <2>4. {headHeader', headUnit', headFast'} \subseteq numbers
    BY <1>2 DEF SaveHashByNumber, PutCanonicalHash, PutHeadHeaderHash, PutHeadUnitHash, heads,
                StoreInv, Complete
  <2> QED BY <2>2, <2>3, <2>4 DEF StoreInv, Complete, tables
<1>7. p \in FromBody /\ After[p] \in FromBody /\ UNCHANGED utxo
  BY <1>0, <1>1 DEF FromBody, FromLookup, FromHeader, FromNumber
<1>8. Unit(c) \in bodies' /\ UnitTxs(Unit(c)) \subseteq lookups' /\ Unit(c) \in headers' /\ Unit(c) \in numbers'
  BY <1>0, <1>2, <1>3 DEF tables
<1> HIDE DEF p
<1> QED BY <1>0, <1>4, <1>5, <1>6, <1>7, <1>8, StoreInvWrite

(* The goroutine that a call starts is well typed. *)
LEMMA GoroutineType ==
  ASSUME NEW c \in Callers, NEW u \in Units
  PROVE  Goroutine(c, u) \subseteq Goroutines
<1> DEFINE g == [by |-> c, unit |-> u, fetched |-> FALSE, spend |-> {}, save |-> UnitOuts(u)]
<1>1. UnitOuts(u) \subseteq Outputs
  BY UnitFacts
<1>2. g \in Goroutines
  BY <1>1 DEF Goroutines
<1> HIDE DEF g
<1>3. Goroutine(c, u) \subseteq {g}
  BY DEF Goroutine, g
<1> QED BY <1>2, <1>3

(* The last write, and on to the next unit or back to the caller. *)
LEMMA StoreInvHeadFast ==
  ASSUME StoreInv, NEW c \in Callers, PutHeadFastUnitHash(c)
  PROVE  StoreInv'
<1>0. /\ call[c].pc = "headFast" /\ call[c].pc # "idle"
      /\ UNCHANGED <<tables, indexes, headHeader, headUnit, utxo, begun, plan>>
      /\ updates' = updates \union Goroutine(c, Unit(c))
      /\ headFast' = Unit(c) \/ UNCHANGED headFast
      /\ faults' = faults \/ (faults < plan.maxFaults /\ faults' = faults + 1)
  BY DEF PutHeadFastUnitHash
<1>1. /\ Unit(c) \in Units /\ call[c].batch \in plan.batches /\ Len(call[c].batch) \in Nat
      /\ call[c].i \in 1 .. Len(call[c].batch)
  BY <1>0, AtUnit DEF StoreInv
<1>2. Unit(c) \in numbers
  BY <1>0, UnitWritten DEF FromHash
<1>3. call[c] \in Calls /\ Written(call[c])
  BY DEF StoreInv, StoreType, CallType, CallsWritten
<1>4. Grown /\ TableType' /\ IndexType' /\ UtxoType'
  BY <1>0, <1>1 DEF Grown, tables, indexes, StoreInv, StoreType, TableType, IndexType, UtxoType
<1>5. Complete'
  BY <1>0, <1>2, Zenon DEF tables, indexes, StoreInv, Complete
<1>6. RestType'
  <2>1. plan \in Plans /\ plan.maxFaults \in Nat /\ faults \in 0 .. plan.maxFaults
    BY PlanFacts DEF StoreInv, StoreType, RestType
  <2>2. faults' \in 0 .. plan.maxFaults
    BY <1>0, <2>1
  <2>3. updates' \subseteq Goroutines
    BY <1>0, <1>1, GoroutineType DEF StoreInv, StoreType, RestType
  <2> QED BY <1>0, <2>1, <2>2, <2>3 DEF StoreInv, StoreType, RestType
<1>7. \A k \in 1 .. call[c].i : call[c].batch[k] \in numbers'
  <2>1. \A k \in 1 .. (call[c].i - 1) : call[c].batch[k] \in numbers
    BY <1>0, <1>3, Zenon DEF Written, WrittenIn
  <2> QED BY <1>0, <1>1, <1>2, <2>1 DEF tables, Unit
<1>8. CASE call[c].i < Len(call[c].batch)
  <2> DEFINE d == [call[c] EXCEPT !.i = call[c].i + 1, !.t = 1, !.pc = "check"]
  <2>1. call' = [call EXCEPT ![c] = d] /\ UNCHANGED result
    BY <1>8, Zenon DEF PutHeadFastUnitHash
  <2>2. call[c].i + 1 \in Nat /\ 1 \in Nat /\ "check" \in PCs
    BY <1>1 DEF PCs
  <2>3. d.batch = call[c].batch /\ d.i = call[c].i + 1 /\ d.t = 1 /\ d.pc = "check"
    BY <1>3, Zenon DEF Calls
  <2>4. d \in Calls
    BY <1>3, <2>2, Zenon DEF Calls
  <2> HIDE DEF d
  <2>5. CallOK(d)
    <3>1. plan \in Plans
      BY DEF StoreInv, StoreType, RestType
    <3>2. d.i \in 1 .. Len(d.batch)
      BY <1>1, <1>8, <2>3
    <3>3. d.batch[d.i] \in Units
      BY <1>1, <2>3, <3>1, <3>2, PlanFacts
    <3>4. d.t \in 1 .. Len(TxsOf[d.batch[d.i]])
      BY <2>3, <3>3, UnitFacts
    <3> QED BY <1>1, <2>3, <3>2, <3>4 DEF CallOK
  <2>6. WrittenThen(d)
    <3>1. \A k \in 1 .. (d.i - 1) : d.batch[k] \in numbers'
      BY <1>1, <1>7, <2>3
    <3> QED BY <2>3, <3>1 DEF WrittenThen, WrittenIn, FromBody, FromLookup, FromHeader, FromNumber, FromHash
  <2> QED BY <1>0, <1>4, <1>5, <1>6, <2>1, <2>4, <2>5, <2>6, CallAdvances, Zenon
<1>9. CASE ~(call[c].i < Len(call[c].batch))
  <2>1. Return(c, call[c].i, "none") /\ "none" \in Errors
    BY <1>9 DEF PutHeadFastUnitHash, Errors
  <2>2. call[c].i \in 0 .. Len(call[c].batch)
    BY <1>1
  <2> QED BY <1>0, <1>4, <1>5, <1>6, <1>7, <2>1, <2>2, CallReturns
<1> QED BY <1>8, <1>9

(* A write fails: SaveUnit gives up, or a later key stays as it was. *)
LEMMA StoreInvFails ==
  ASSUME StoreInv, NEW c \in Callers, SaveFails(c)
  PROVE  StoreInv'
<1>0. /\ faults < plan.maxFaults /\ faults' = faults + 1 /\ call[c].pc # "idle"
      /\ UNCHANGED <<tables, indexes, heads, updates, begun, plan>>
  BY DEF SaveFails
<1>1. /\ call[c].batch \in plan.batches /\ Len(call[c].batch) \in Nat
      /\ call[c].i \in 1 .. Len(call[c].batch)
  BY <1>0, AtUnit DEF StoreInv
<1>2. Grown /\ TableType' /\ IndexType' /\ Complete'
  BY <1>0, Zenon DEF Grown, tables, indexes, heads, StoreInv, StoreType, TableType, IndexType, Complete
<1>3. UtxoType'
  BY DEF SaveFails, StoreInv, StoreType, UtxoType
<1>4. RestType'
  <2>1. plan \in Plans /\ plan.maxFaults \in Nat /\ faults \in 0 .. plan.maxFaults
    BY PlanFacts DEF StoreInv, StoreType, RestType
  <2> QED BY <1>0, <2>1 DEF StoreInv, StoreType, RestType
<1>5. CASE Return(c, call[c].i - 1, "save")
  <2>1. Written(call[c])
    BY DEF StoreInv, CallsWritten
  <2>2. \A k \in 1 .. (call[c].i - 1) : call[c].batch[k] \in numbers'
    BY <1>0, <2>1, Zenon DEF Written, WrittenIn, tables
  <2>3. call[c].i - 1 \in 0 .. Len(call[c].batch) /\ "save" \in Errors
    BY <1>1 DEF Errors
  <2> QED BY <1>0, <1>2, <1>3, <1>4, <1>5, <2>2, <2>3, CallReturns
<1>6. CASE /\ call[c].pc \in {"canonical", "headHeader", "headUnit"}
           /\ call' = [call EXCEPT ![c].pc = After[call[c].pc]]
           /\ UNCHANGED <<result, utxo>>
  <2> DEFINE p == call[c].pc
             q == After[p]
  <2>1. p \in FromHash /\ q \in FromHash /\ q \in FromBody /\ q \in PCs \ {"idle"}
    BY <1>6, AfterFacts DEF FromHash, FromBody, FromLookup, FromHeader, FromNumber, PCs
  <2>2. /\ Unit(c) \in numbers /\ Unit(c) \in headers /\ Unit(c) \in bodies
        /\ UnitTxs(Unit(c)) \subseteq txs \intersect lookups
    BY <2>1, UnitWritten DEF StoreInv, Complete
  <2> HIDE DEF q
  <2>3. WrittenThen([call[c] EXCEPT !.pc = q])
    BY <1>0, <1>2, <2>1, <2>2, WrittenNext DEF tables
  <2>4. call' = [call EXCEPT ![c].pc = q]
    BY <1>6 DEF q
  <2> QED BY <1>0, <1>2, <1>3, <1>4, <1>6, <2>1, <2>3, <2>4, WriteAdvances, ZenonT(40)
<1> QED BY <1>5, <1>6 DEF SaveFails

(* The UTXO goroutines and a crash leave the tables alone. *)
LEMMA StoreInvUpdate ==
  ASSUME StoreInv, NEW g \in updates, Update(g)
  PROVE  StoreInv'
<1>0. g \in Goroutines /\ utxo \in [Outputs -> {"absent", "unspent", "spent"}]
  BY DEF StoreInv, StoreType, RestType, UtxoType
<1>1. UNCHANGED <<tables, indexes, heads, call, result, begun, faults, plan>>
  BY Zenon DEF Update, FetchUnitUtxos, SpentUtxo, SaveUtxoEntity, EndUpdate
<1>2. UtxoType'
  BY <1>0, Zenon DEF Update, FetchUnitUtxos, SpentUtxo, SaveUtxoEntity, EndUpdate, UtxoType
<1>3. updates' \subseteq Goroutines
  <2>1. CASE FetchUnitUtxos(g)
    <3>1. PICK view \in SUBSET Needed(g.unit), added \in SUBSET AddedOuts(g.unit) :
            updates' = (updates \ {g}) \union
                         {[g EXCEPT !.fetched = TRUE, !.spend = view \union added]}
      BY <2>1, Zenon DEF FetchUnitUtxos
    <3>2. Needed(g.unit) \subseteq Outputs /\ AddedOuts(g.unit) \subseteq Outputs
      <4>1. g.unit \in Units
        BY <1>0 DEF Goroutines
      <4>2. \A t \in Transactions : Ins[t] \subseteq Outputs /\ Outs[t] \subseteq Outputs
        BY StoreAssumption
      <4>3. \A k \in 2 .. Len(TxsOf[g.unit]) : TxsOf[g.unit][k] \in Transactions
        BY <4>1, UnitFacts
      <4> QED BY <4>1, <4>2, <4>3, UnitFacts DEF Needed, AddedOuts
    <3>3. view \union added \in SUBSET Outputs /\ TRUE \in BOOLEAN
      BY <3>2
    <3>4. [g EXCEPT !.fetched = TRUE, !.spend = view \union added] \in Goroutines
      BY <1>0, <3>3, Zenon DEF Goroutines
    <3> QED BY <3>1, <3>4, Zenon DEF StoreInv, StoreType, RestType
  <2>2. ASSUME NEW o \in Outputs, SpentUtxo(g, o) PROVE updates' \subseteq Goroutines
    <3>1. [g EXCEPT !.spend = @ \ {o}] \in Goroutines
      BY <1>0 DEF Goroutines
    <3> QED BY <2>2, <3>1, Zenon DEF SpentUtxo, StoreInv, StoreType, RestType
  <2>3. ASSUME NEW o \in Outputs, SaveUtxoEntity(g, o) PROVE updates' \subseteq Goroutines
    <3>1. [g EXCEPT !.save = @ \ {o}] \in Goroutines
      BY <1>0 DEF Goroutines
    <3> QED BY <2>3, <3>1 DEF SaveUtxoEntity, StoreInv, StoreType, RestType
  <2>4. CASE EndUpdate(g)
    BY <2>4 DEF EndUpdate, StoreInv, StoreType, RestType
  <2> QED BY <2>1, <2>2, <2>3, <2>4 DEF Update
<1>4. TableType' /\ IndexType' /\ CallType' /\ ResultType' /\ RestType'
  BY <1>1, <1>3 DEF tables, indexes, heads, StoreInv, StoreType, TableType, IndexType, CallType, CallOK,
                    ResultType, RestType
<1>5. CallsWritten' /\ Complete' /\ Returned'
  BY <1>1 DEF tables, indexes, heads, StoreInv, CallsWritten, Written, Complete, Returned
<1> QED BY <1>2, <1>4, <1>5 DEF StoreInv, StoreType

(* After a crash the calls and the goroutines are gone. *)
LEMMA StoreInvCrash == StoreInv /\ Crash => StoreInv'
<1> SUFFICES ASSUME StoreInv, Crash PROVE StoreInv'
  OBVIOUS
<1>1. UNCHANGED <<tables, indexes, heads, utxo, begun, plan>>
  BY DEF Crash
<1>2. Idle \in Calls /\ Idle.pc = "idle"
  BY DEF Idle, Calls, PCs
<1>3. NoResult \in Results /\ NoResult.count = 0 /\ Len(NoResult.batch) = 0
  BY DEF NoResult, Results, Errors
<1>4. CallType'
  BY <1>2 DEF Crash, CallType, CallOK
<1>5. CallsWritten'
  BY <1>2 DEF Crash, CallsWritten, Written, WrittenIn, FromBody, FromLookup, FromHeader, FromNumber, FromHash
<1>6. ResultType' /\ Returned'
  BY <1>3 DEF Crash, ResultType, Returned
<1>7. RestType'
  <2>1. plan \in Plans /\ plan.maxFaults \in Nat /\ faults \in 0 .. plan.maxFaults
    BY PlanFacts DEF StoreInv, StoreType, RestType
  <2> QED BY <2>1 DEF Crash, StoreInv, StoreType, RestType
<1>8. TableType' /\ IndexType' /\ UtxoType' /\ Complete'
  BY <1>1 DEF tables, indexes, heads, StoreInv, StoreType, TableType, IndexType, UtxoType, Complete
<1> QED BY <1>4, <1>5, <1>6, <1>7, <1>8 DEF StoreInv, StoreType

-----------------------------------------------------------------------------
(* What holds in every state, and the refinement *)

(* The callers of a plan are callers. *)
LEMMA PlanCallers ==
  ASSUME StoreInv, NEW c \in plan.callers
  PROVE  c \in Callers
BY PlanFacts DEF StoreInv, StoreType, RestType

(* Every step keeps the invariant. *)
LEMMA StoreInvNext == StoreInv /\ [Next]_vars => StoreInv'
<1> SUFFICES ASSUME StoreInv, [Next]_vars PROVE StoreInv'
  OBVIOUS
<1>1. ASSUME NEW c \in plan.callers, Insert(c) PROVE StoreInv'
  <2>0. c \in Callers
    BY <1>1, PlanCallers
  <2>1. CASE \E batch \in plan.batches : InsertDag(c, batch)
    BY <2>0, <2>1, StoreInvInsert
  <2>2. CASE Check(c)
    BY <2>0, <2>2, StoreInvCheck
  <2>3. CASE WriteUtxo(c) \/ DestroyUtxo(c)
    BY <2>0, <2>3, StoreInvUpdateUtxo
  <2>4. CASE SaveTransaction(c)
    BY <2>0, <2>4, StoreInvTransaction
  <2>5. CASE SaveBody(c) \/ SaveTxLookupEntry(c) \/ SaveHeader(c) \/ SaveNumberByHash(c)
    BY <2>0, <2>5, StoreInvRows
  <2>6. CASE \/ SaveHashByNumber(c) \/ PutCanonicalHash(c) \/ PutHeadHeaderHash(c) \/ PutHeadUnitHash(c)
    BY <2>0, <2>6, StoreInvIndexes
  <2>7. CASE PutHeadFastUnitHash(c)
    BY <2>0, <2>7, StoreInvHeadFast
  <2>8. CASE SaveFails(c)
    BY <2>0, <2>8, StoreInvFails
  <2> QED BY <1>1, <2>1, <2>2, <2>3, <2>4, <2>5, <2>6, <2>7, <2>8, ZenonT(40) DEF Insert
<1>2. ASSUME NEW g \in updates, Update(g) PROVE StoreInv'
  BY <1>2, StoreInvUpdate
<1>3. CASE Crash
  BY <1>3, StoreInvCrash
<1>4. CASE UNCHANGED vars
  BY <1>4, Zenon DEF vars, tables, indexes, heads, StoreInv, StoreType, TableType, IndexType, UtxoType, CallType,
              CallOK, ResultType, RestType, CallsWritten, Written, Complete, Returned
<1> QED BY <1>1, <1>2, <1>3, <1>4 DEF Next

(* The invariant holds in every state. *)
LEMMA StoreInvariant == Spec => []StoreInv
BY StoreInvInit, StoreInvNext, PTL DEF Spec

(* The visible units are those with a number. *)
LEMMA VisibleUnits ==
  ASSUME StoreInv
  PROVE  /\ {u \in Units : Exists(u)} = numbers
         /\ \A u \in numbers : u \in Units /\ Exists(u)
<1>1. numbers \subseteq Units
  BY DEF StoreInv, StoreType, TableType
<1>2. \A u \in numbers : Exists(u)
  BY DEF StoreInv, Complete, Exists
<1> QED BY <1>1, <1>2 DEF Exists

(* A unit that a reader comes upon is complete, however saves interleave,    *)
(* fail or are cut off: for every set of units, callers and batches, and any *)
(* number of failed writes and crashes.                                      *)
THEOREM VisibleAlwaysComplete == Spec => []VisibleIsComplete
<1>1. StoreInv => VisibleIsComplete
  <2> SUFFICES ASSUME StoreInv PROVE VisibleIsComplete
    OBVIOUS
  <2>1. TypeOK
    <3>1. \A c \in Callers : call[c].pc \in PCs
      BY DEF StoreInv, StoreType, CallType, Calls
    <3>2. \A g \in updates : g.by \in Callers /\ g.unit \in Units
                             /\ g.spend \subseteq Outputs /\ g.save \subseteq Outputs
      BY DEF StoreInv, StoreType, RestType, Goroutines
    <3> QED BY <3>1, <3>2, Zenon DEF StoreInv, StoreType, TableType, IndexType, UtxoType, CallType, CallOK,
                              ResultType, RestType, TypeOK
  <2>2. Found \subseteq numbers
    BY DEF StoreInv, Complete, Found
  <2>3. \A u \in Found : Exists(u) /\ UnitTxs(u) \subseteq txs \intersect lookups
    BY <2>2 DEF StoreInv, Complete, Exists
  <2> QED BY <2>1, <2>3 DEF VisibleIsComplete
<1> QED BY <1>1, StoreInvariant, PTL

(* What InsertDag returns counts units of the batch that are visible, also   *)
(* after a failure half-way and while other calls go on.                     *)
THEOREM InsertedAlwaysPrefix == Spec => []InsertedPrefix
<1>1. StoreInv => InsertedPrefix
  BY DEF StoreInv, Returned, Complete, InsertedPrefix, Exists
<1> QED BY <1>1, StoreInvariant, PTL

(* The first state is one of the ledger's. *)
LEMMA LedgerInitHolds == Init => L!LedgerInit
<1> SUFFICES ASSUME Init PROVE L!LedgerInit
  OBVIOUS
<1>1. Genesis \in Units
  BY StoreAssumption
<1>2. {u \in Units : Exists(u)} = {Genesis}
  BY <1>1 DEF Init, Exists
<1> QED BY <1>2 DEF Init, L!LedgerInit, Numbers

(* Every step is a step of the ledger or leaves it as it is: a unit becomes  *)
(* visible with its number, is entered for its number, becomes the head.     *)
LEMMA LedgerStep == StoreInv /\ StoreInv' /\ [Next]_vars => [L!LedgerNext]_(L!ledger)
<1> SUFFICES ASSUME StoreInv, StoreInv', [Next]_vars PROVE [L!LedgerNext]_(L!ledger)
  OBVIOUS
<1> DEFINE stored == {u \in Units : Exists(u)}
<1>1. stored = numbers /\ stored' = numbers'
  <2>1. numbers' \subseteq Units /\ \A u \in numbers' : u \in headers' /\ u \in bodies'
    BY DEF StoreInv, StoreType, TableType, Complete
  <2>2. stored' = numbers'
    BY <2>1 DEF Exists
  <2> QED BY <2>2, VisibleUnits
<1>2. CASE UNCHANGED <<numbers, headUnit, byNumber>>
  BY <1>1, <1>2 DEF L!ledger
<1>3. ASSUME NEW c \in Callers, SaveNumberByHash(c) PROVE L!LedgerNext
  <2>1. Unit(c) \in Units
    BY <1>3, AtUnit DEF SaveNumberByHash, Write, StoreInv
  <2>2. stored' = stored \union {Unit(c)} /\ UNCHANGED <<headUnit, byNumber>>
    BY <1>1, <1>3 DEF SaveNumberByHash, heads, indexes
  <2>3. L!Store(Unit(c))
    BY <2>2 DEF L!Store
  <2> QED BY <2>1, <2>3 DEF L!LedgerNext
<1>4. ASSUME NEW c \in Callers, SaveHashByNumber(c) PROVE L!LedgerNext
  <2>1. Unit(c) \in Units /\ Unit(c) \in numbers
    BY <1>4, AtUnit, UnitWritten DEF SaveHashByNumber, Write, StoreInv, FromHash
  <2>2. stored' = stored /\ headUnit' = headUnit
        /\ byNumber' = [byNumber EXCEPT ![Number[Unit(c)]] = Unit(c)]
    BY <1>1, <1>4 DEF SaveHashByNumber, heads, tables
  <2>3. L!Index(Unit(c))
    BY <1>1, <2>1, <2>2 DEF L!Index
  <2> QED BY <2>1, <2>3 DEF L!LedgerNext
<1>5. ASSUME NEW c \in Callers, PutHeadUnitHash(c) PROVE L!LedgerNext
  <2>1. Unit(c) \in Units /\ Unit(c) \in numbers
    BY <1>5, AtUnit, UnitWritten DEF PutHeadUnitHash, Write, StoreInv, FromHash
  <2>2. stored' = stored /\ headUnit' = Unit(c) /\ byNumber' = byNumber
    BY <1>1, <1>5 DEF PutHeadUnitHash, indexes, tables
  <2>3. L!MoveHead(Unit(c))
    BY <1>1, <2>1, <2>2 DEF L!MoveHead
  <2> QED BY <2>1, <2>3 DEF L!LedgerNext
<1>6. ASSUME NEW c \in plan.callers, Insert(c) PROVE [L!LedgerNext]_(L!ledger)
  <2>0. c \in Callers
    BY <1>6, PlanCallers
  <2>1. CASE SaveNumberByHash(c) \/ SaveHashByNumber(c) \/ PutHeadUnitHash(c)
    BY <1>3, <1>4, <1>5, <2>0, <2>1
  <2>2. CASE \/ \E batch \in plan.batches : InsertDag(c, batch)
             \/ Check(c) \/ WriteUtxo(c) \/ DestroyUtxo(c) \/ SaveTransaction(c)
             \/ SaveBody(c) \/ SaveTxLookupEntry(c) \/ SaveHeader(c)
             \/ PutCanonicalHash(c) \/ PutHeadHeaderHash(c) \/ PutHeadFastUnitHash(c) \/ SaveFails(c)
    <3>1. UNCHANGED <<numbers, headUnit, byNumber>>
      BY <2>2 DEF InsertDag, Check, WriteUtxo, DestroyUtxo, SaveTransaction, SaveBody, SaveTxLookupEntry,
                  SaveHeader, PutCanonicalHash, PutHeadHeaderHash, PutHeadFastUnitHash, SaveFails,
                  tables, indexes, heads
    <3> QED BY <1>2, <3>1
  <2> QED BY <1>6, <2>1, <2>2, Zenon DEF Insert
<1>7. ASSUME NEW g \in updates, Update(g) PROVE [L!LedgerNext]_(L!ledger)
  <2>1. UNCHANGED <<numbers, headUnit, byNumber>>
    BY <1>7, Zenon DEF Update, FetchUnitUtxos, SpentUtxo, SaveUtxoEntity, EndUpdate, tables, indexes, heads
  <2> QED BY <1>2, <2>1
<1>8. CASE Crash \/ UNCHANGED vars
  <2>1. UNCHANGED <<numbers, headUnit, byNumber>>
    BY <1>8 DEF Crash, vars, tables, indexes, heads
  <2> QED BY <1>2, <2>1
<1> QED BY <1>6, <1>7, <1>8, Zenon DEF Next

(* The unit store implements the ledger: units become visible one at a time  *)
(* and for good, also over crashes, the head is a visible unit, and so is    *)
(* the unit recorded for a number.                                           *)
THEOREM StoreImplementsLedger == Spec => ImplementsLedger
BY LedgerInitHolds, LedgerStep, StoreInvariant, PTL DEF Spec, ImplementsLedger, L!LedgerSpec

-----------------------------------------------------------------------------
(***************************************************************************)
(* No output gets lost while units are saved and their UTXO goroutines     *)
(* run, for every set of units, callers and batches.                       *)
(***************************************************************************)

\* The outputs that a call has written of the unit it is at.
Done(d) ==
  LET u == d.batch[d.i] IN
  {o \in Outputs :
     \/ d.pc \in {"check", "create", "destroy", "tx"} /\ \E k \in 1 .. (d.t - 1) : o \in Outs[TxsOf[u][k]]
     \/ d.pc \in {"destroy", "tx"} /\ o \in Outs[TxsOf[u][d.t]]
     \/ d.pc \in FromBody /\ o \in UnitOuts(u)}

\* An output that is unspent, will be saved by a goroutine, or is spent by a unit.
Safe(o) ==
  \/ \E v \in begun : o \in Spends(v)
  \/ utxo[o] = "unspent"
  \/ \E g \in updates : o \in g.save

CallBegun(d) == d.pc \notin {"idle", "check"} => d.batch[d.i] \in begun

\* A goroutine keeps all outputs of its unit until it has marked the spent ones.
UpdateOK(g) ==
  /\ g.unit \in begun
  /\ ~g.fetched \/ g.spend # {} => g.save = UnitOuts(g.unit)
  /\ g.spend \subseteq Spends(g.unit) \union UnitOuts(g.unit)

Begun == (\A c \in Callers : CallBegun(call[c])) /\ (\A g \in updates : UpdateOK(g))

Kept ==
  faults = 0 => /\ \A u \in numbers : \A o \in UnitOuts(u) : Safe(o)
                /\ \A c \in Callers : \A o \in Done(call[c]) : Safe(o)

UtxoInv == Begun /\ Kept

-----------------------------------------------------------------------------
(* Facts about the operators *)

(* The inputs of a transaction are spent by its unit. *)
LEMMA SpendsFacts ==
  ASSUME NEW u \in Units, NEW k \in 1 .. Len(TxsOf[u])
  PROVE  Ins[TxsOf[u][k]] \subseteq Spends(u) /\ Outs[TxsOf[u][k]] \subseteq UnitOuts(u)
BY DEF Spends, UnitOuts, UnitTxs

(* The outputs of the transactions of a unit are all the outputs of a unit.  *)
LEMMA AllOuts ==
  ASSUME NEW u \in Units, NEW o \in UnitOuts(u)
  PROVE  o \in Outputs /\ \E k \in 1 .. Len(TxsOf[u]) : o \in Outs[TxsOf[u][k]]
BY UnitFacts DEF UnitOuts, UnitTxs

(* What FetchUnitUtxos looks up is spent by the unit, and what AddTxOut adds *)
(* is an output of the unit.                                                 *)
LEMMA ViewFacts ==
  ASSUME NEW u \in Units
  PROVE  Needed(u) \subseteq Spends(u) /\ AddedOuts(u) \subseteq UnitOuts(u)
<1>1. Len(TxsOf[u]) \in Nat
  BY UnitFacts
<1>2. \A k \in 2 .. Len(TxsOf[u]) : Ins[TxsOf[u][k]] \subseteq Spends(u)
  BY <1>1, SpendsFacts
<1>3. Needed(u) \subseteq Spends(u)
  BY <1>2 DEF Needed
<1>4. AddedOuts(u) \subseteq UnitOuts(u)
  BY DEF AddedOuts, UnitOuts
<1> QED BY <1>3, <1>4

(* A call that has not written anything of its unit. *)
LEMMA DoneEmpty ==
  ASSUME NEW d, d.pc = "idle" \/ (d.pc = "check" /\ d.t = 1)
  PROVE  Done(d) = {} /\ CallBegun(d)
BY DEF Done, CallBegun, FromBody, FromLookup, FromHeader, FromNumber, FromHash

(* Steps that change neither calls nor tables: safe outputs must stay safe.  *)
LEMMA KeptBySafe ==
  ASSUME Kept, UNCHANGED <<call, numbers, faults>>, \A o \in Outputs : Safe(o) => Safe(o)',
         \A u \in numbers : u \in Units
  PROVE  Kept'
<1> SUFFICES ASSUME faults = 0
             PROVE  /\ \A u \in numbers : \A o \in UnitOuts(u) : Safe(o)'
                    /\ \A c \in Callers : \A o \in Done(call[c]) : Safe(o)'
  BY DEF Kept
<1>1. \A u \in numbers : UnitOuts(u) \subseteq Outputs
  BY UnitFacts
<1>2. \A c \in Callers : Done(call[c]) \subseteq Outputs
  BY ZenonT(40) DEF Done
<1> QED BY <1>1, <1>2 DEF Kept

(* A step of one call: what it has done, and what becomes visible.           *)
LEMMA CallStep ==
  ASSUME StoreInv, UtxoInv, NEW c \in Callers, NEW d, call' = [call EXCEPT ![c] = d],
         \A u \in begun : u \in begun', \A g \in updates' : g \in updates \/ UpdateOK(g)',
         d.pc \notin {"idle", "check"} => d.batch[d.i] \in begun',
         faults' = 0 => /\ faults = 0 /\ (\A o \in Outputs : Safe(o) => Safe(o)')
                        /\ (\A o \in Done(d) : Safe(o)')
                        /\ \A u \in numbers' : u \in numbers \/ UnitOuts(u) \subseteq Done(call[c])
  PROVE  UtxoInv'
<1>1. \A e \in Callers : call'[e] = IF e = c THEN d ELSE call[e]
  BY DEF StoreInv, StoreType, CallType
<1>2. Begun'
  <2>1. \A e \in Callers : CallBegun(call[e])'
    BY <1>1, ZenonT(40) DEF UtxoInv, Begun, CallBegun
  <2>2. \A g \in updates' : UpdateOK(g)'
    BY Zenon DEF UtxoInv, Begun, UpdateOK
  <2> QED BY <2>1, <2>2 DEF Begun
<1>3. Kept'
  <2> SUFFICES ASSUME faults' = 0
               PROVE  /\ \A u \in numbers' : \A o \in UnitOuts(u) : Safe(o)'
                      /\ \A e \in Callers : \A o \in Done(call'[e]) : Safe(o)'
    BY ZenonT(40) DEF Kept, Done
  <2>1. \A e \in Callers : Done(call[e]) \subseteq Outputs
    BY ZenonT(40) DEF Done
  <2>2. \A u \in numbers : UnitOuts(u) \subseteq Outputs
    BY UnitFacts, Zenon DEF StoreInv, StoreType, TableType
  <2>3. \A o \in Outputs : Safe(o) => Safe(o)'
    BY Zenon
  <2>4. ASSUME NEW u \in numbers', NEW o \in UnitOuts(u) PROVE Safe(o)'
    BY <2>1, <2>2, <2>3 DEF UtxoInv, Kept
  <2>5. ASSUME NEW e \in Callers, NEW o \in Done(call'[e]) PROVE Safe(o)'
    BY <1>1, <2>1, <2>3 DEF UtxoInv, Kept
  <2> QED BY <2>4, <2>5, ZenonT(40)
<1> QED BY <1>2, <1>3 DEF UtxoInv

(* While nothing of the UTXO set changes, safe outputs stay safe.            *)
LEMMA SafeSame ==
  ASSUME \A u \in begun : u \in begun', UNCHANGED <<utxo, updates>>
  PROVE  /\ \A o \in Outputs : Safe(o) => Safe(o)'
         /\ \A g \in updates' : g \in updates \/ UpdateOK(g)'
BY DEF Safe

(* The fields of a call after a write. *)
LEMMA MovedCall ==
  ASSUME StoreInv, NEW c \in Callers, NEW q
  PROVE  LET d == [call[c] EXCEPT !.pc = q]
         IN /\ d.pc = q /\ d.batch = call[c].batch /\ d.i = call[c].i /\ d.t = call[c].t
            /\ (call' = [call EXCEPT ![c].pc = q]) => call' = [call EXCEPT ![c] = d]
<1>1. call \in [Callers -> Calls] /\ call[c] \in Calls
  BY DEF StoreInv, StoreType, CallType
<1> QED BY <1>1 DEF Calls

(* The empty store. *)
LEMMA UtxoInvInit == Init => UtxoInv
<1> SUFFICES ASSUME Init PROVE UtxoInv
  OBVIOUS
<1>1. \A c \in Callers : call[c].pc = "idle"
  BY DEF Init, Idle
<1>2. Begun
  BY <1>1, DoneEmpty DEF Init, Begun
<1>3. UnitOuts(Genesis) \subseteq Outputs
  BY UnitFacts, StoreAssumption
<1>4. \A o \in UnitOuts(Genesis) : Safe(o)
  BY <1>3 DEF Init, Safe
<1>5. Kept
  BY <1>1, <1>4, DoneEmpty DEF Init, Kept
<1> QED BY <1>2, <1>5 DEF UtxoInv

(* InsertDag begins, or its checks end the call or let the writing begin.    *)
LEMMA UtxoInvBegins ==
  ASSUME StoreInv, UtxoInv, NEW c \in Callers, (\E b \in plan.batches : InsertDag(c, b)) \/ Check(c)
  PROVE  UtxoInv'
<1>0. UNCHANGED <<utxo, updates, numbers, faults>> /\ \A u \in begun : u \in begun'
  BY DEF InsertDag, Check, tables
<1>1. /\ \A o \in Outputs : Safe(o) => Safe(o)'
      /\ \A g \in updates' : g \in updates \/ UpdateOK(g)'
  BY <1>0, SafeSame
<1>2. ASSUME NEW d, call' = [call EXCEPT ![c] = d], d.pc = "idle" \/ (d.pc = "check" /\ d.t = 1)
      PROVE  UtxoInv'
  <2>1. Done(d) = {} /\ d.pc \in {"idle", "check"}
    BY <1>2, DoneEmpty
  <2> QED BY <1>0, <1>1, <1>2, <2>1, CallStep, Zenon
<1>3. ASSUME NEW b \in plan.batches, InsertDag(c, b) PROVE UtxoInv'
  <2> DEFINE d == [batch |-> b, i |-> 1, t |-> 1, pc |-> "check"]
  <2>1. call' = [call EXCEPT ![c] = d] /\ d.pc = "check" /\ d.t = 1
    BY <1>3 DEF InsertDag
  <2> HIDE DEF d
  <2> QED BY <1>2, <2>1, Zenon
<1>4. CASE call' = [call EXCEPT ![c] = Idle]
  <2>1. Idle.pc = "idle"
    BY DEF Idle
  <2> QED BY <1>2, <1>4, <2>1, Zenon
<1>5. CASE call[c].pc = "check" /\ call' = [call EXCEPT ![c].pc = "create"] /\ Unit(c) \in begun'
  <2> DEFINE d == [call[c] EXCEPT !.pc = "create"]
  <2>1. /\ d.pc = "create" /\ d.batch = call[c].batch /\ d.i = call[c].i /\ d.t = call[c].t
        /\ call' = [call EXCEPT ![c] = d]
    BY <1>5, MovedCall
  <2> HIDE DEF d
  <2>2. Done(d) = Done(call[c])
    BY <1>5, <2>1 DEF Done, FromBody, FromLookup, FromHeader, FromNumber, FromHash
  <2>3. faults = 0 => \A o \in Done(d) : Safe(o)
    BY <2>2 DEF UtxoInv, Kept
  <2>4. Done(d) \subseteq Outputs /\ d.batch[d.i] \in begun'
    BY <1>5, <2>1 DEF Done, Unit
  <2> QED BY <1>0, <1>1, <2>1, <2>3, <2>4, CallStep, Zenon
<1> QED BY <1>3, <1>4, <1>5 DEF Check, Return

(* UpdateUtxo writes the outputs, and removes only what the unit spends.     *)
LEMMA UtxoInvUpdateUtxo ==
  ASSUME StoreInv, UtxoInv, NEW c \in Callers, WriteUtxo(c) \/ DestroyUtxo(c)
  PROVE  UtxoInv'
<1> DEFINE q == IF call[c].pc = "create" THEN "destroy" ELSE "tx"
           d == [call[c] EXCEPT !.pc = q]
<1>0. /\ call[c].pc \in {"create", "destroy"} /\ call' = [call EXCEPT ![c].pc = q]
      /\ UNCHANGED <<numbers, updates, begun, faults>>
  BY AfterFacts DEF WriteUtxo, DestroyUtxo, Write, tables
<1>1. /\ d.pc = q /\ d.batch = call[c].batch /\ d.i = call[c].i /\ d.t = call[c].t
      /\ call' = [call EXCEPT ![c] = d]
  BY <1>0, MovedCall, SMT, Z3
<1>2. call[c].pc # "idle" /\ q \in {"destroy", "tx"}
  BY <1>0
<1> HIDE DEF d, q
<1>3. Unit(c) \in Units /\ Unit(c) \in begun /\ call[c].t \in 1 .. Len(TxsOf[Unit(c)]) /\ Unit(c) = d.batch[d.i]
  BY <1>0, <1>1, <1>2, AtUnit DEF StoreInv, UtxoInv, Begun, CallBegun, Unit
<1>4. Tx(c) = TxsOf[Unit(c)][call[c].t] /\ Ins[Tx(c)] \subseteq Spends(Unit(c)) /\ Outs[Tx(c)] \subseteq Outputs
  BY <1>2, <1>3, SpendsFacts, AtUnit, StoreAssumption, Zenon DEF Tx, StoreInv
<1>5. ASSUME NEW o \in Outputs, Safe(o) PROVE Safe(o)'
  <2>1. CASE WriteUtxo(c)
    BY <1>0, <1>5, <2>1 DEF Safe, WriteUtxo
  <2>2. CASE DestroyUtxo(c)
    BY <1>0, <1>3, <1>4, <1>5, <2>2, Zenon DEF Safe, DestroyUtxo
  <2> QED BY <2>1, <2>2
<1>6. ASSUME faults = 0, NEW o \in Done(d) PROVE Safe(o)'
  <2>1. o \in Outputs
    BY <1>6, Zenon DEF Done
  <2>2. CASE o \in Done(call[c])
    BY <1>5, <1>6, <2>1, <2>2 DEF UtxoInv, Kept
  <2>3. CASE o \notin Done(call[c])
    <3>1. call[c].pc = "create" /\ o \in Outs[Tx(c)]
      BY <1>0, <1>1, <1>2, <1>3, <1>4, <1>6, <2>3, Zenon
         DEF Done, Unit, FromBody, FromLookup, FromHeader, FromNumber, FromHash
    <3>2. WriteUtxo(c)
      BY <3>1 DEF DestroyUtxo, Write
    <3> QED BY <2>1, <3>1, <3>2, ZenonT(40) DEF WriteUtxo, Safe
  <2> QED BY <2>2, <2>3
<1> QED BY <1>0, <1>1, <1>3, <1>5, <1>6, CallStep, ZenonT(40)

(* SaveTransaction: after the last one, all outputs of the unit are written. *)
LEMMA UtxoInvTransaction ==
  ASSUME StoreInv, UtxoInv, NEW c \in Callers, SaveTransaction(c)
  PROVE  UtxoInv'
<1> DEFINE T == TxsOf[Unit(c)]
           d == IF call[c].t < Len(T)
                THEN [call[c] EXCEPT !.t = call[c].t + 1, !.pc = "create"]
                ELSE [call[c] EXCEPT !.pc = "body"]
<1>0. call[c].pc = "tx" /\ call[c].pc # "idle" /\ UNCHANGED <<numbers, utxo, updates, begun, faults>>
  BY DEF SaveTransaction
<1>1. call' = [call EXCEPT ![c] = d]
  <2>1. CASE call[c].t < Len(T)
    BY <2>1 DEF SaveTransaction
  <2>2. CASE ~(call[c].t < Len(T))
    BY <2>2 DEF SaveTransaction
  <2> QED BY <2>1, <2>2
<1>2. call[c] \in Calls /\ Unit(c) \in begun
  BY <1>0, Zenon DEF StoreInv, StoreType, CallType, UtxoInv, Begun, CallBegun, Unit
<1>3. Unit(c) \in Units /\ call[c].t \in 1 .. Len(T) /\ Len(T) \in Nat
  BY <1>0, AtUnit DEF StoreInv
<1>4. d.batch = call[c].batch /\ d.i = call[c].i /\ d.batch[d.i] = Unit(c)
  BY <1>2 DEF Calls, Unit
<1>5. \/ d.pc = "create" /\ d.t = call[c].t + 1
      \/ d.pc = "body" /\ call[c].t = Len(T)
  BY <1>2, <1>3 DEF Calls
<1> HIDE DEF d
<1>6. Done(d) \subseteq Done(call[c])
  <2>1. CASE d.pc = "create" /\ d.t = call[c].t + 1
    <3>1. \A k \in 1 .. (d.t - 1) : k \in 1 .. (call[c].t - 1) \/ k = call[c].t
      BY <1>3, <2>1
    <3> QED BY <1>0, <1>4, <2>1, <3>1, Zenon
            DEF Done, Unit, FromBody, FromLookup, FromHeader, FromNumber, FromHash
  <2>2. CASE d.pc = "body" /\ call[c].t = Len(T)
    <3>1. ASSUME NEW o \in Done(d) PROVE o \in Done(call[c])
      <4>1. o \in UnitOuts(Unit(c)) /\ o \in Outputs
        BY <1>4, <2>2, <3>1 DEF Done
      <4>2. PICK k \in 1 .. Len(T) : o \in Outs[T[k]]
        BY <1>3, <4>1, AllOuts
      <4>3. k \in 1 .. (call[c].t - 1) \/ k = call[c].t
        BY <1>3, <2>2
      <4> QED BY <1>0, <4>1, <4>2, <4>3, ZenonT(40) DEF Done, Unit
    <3> QED BY <3>1
  <2> QED BY <1>5, <2>1, <2>2
<1>7. faults = 0 => \A o \in Done(d) : o \in Outputs /\ Safe(o)
  BY <1>6, Zenon DEF UtxoInv, Kept, Done
<1>8. /\ \A o \in Outputs : Safe(o) => Safe(o)'
      /\ \A g \in updates' : g \in updates \/ UpdateOK(g)'
  BY <1>0, SafeSame
<1> QED BY <1>0, <1>1, <1>2, <1>4, <1>7, <1>8, CallStep, Zenon

(* The writes that follow leave the UTXO set alone; the unit that becomes    *)
(* visible has all its outputs written.                                      *)
LEMMA UtxoInvWrite ==
  ASSUME StoreInv, UtxoInv, NEW c \in Callers, NEW q \in FromBody, call[c].pc \in FromBody,
         call' = [call EXCEPT ![c].pc = q], UNCHANGED <<utxo, updates, begun>>,
         faults' = 0 => faults = 0, \A u \in numbers' : u \in numbers \/ u = Unit(c)
  PROVE  UtxoInv'
<1> DEFINE d == [call[c] EXCEPT !.pc = q]
<1>1. /\ d.pc = q /\ d.batch = call[c].batch /\ d.i = call[c].i /\ d.t = call[c].t
      /\ call' = [call EXCEPT ![c] = d]
  BY MovedCall
<1> HIDE DEF d
<1>2. call[c].pc \notin {"idle", "check", "create", "destroy", "tx"} /\ q \notin {"check", "create", "destroy", "tx"}
  BY DEF FromBody, FromLookup, FromHeader, FromNumber, FromHash
<1>3. Done(d) = Done(call[c])
  BY <1>1, <1>2, Zenon DEF Done
<1>4. Unit(c) \in Units /\ UnitOuts(Unit(c)) \subseteq Done(call[c])
  <2>1. Unit(c) \in Units
    BY <1>2, AtUnit DEF StoreInv
  <2> QED BY <1>2, <2>1, UnitFacts, Zenon DEF Done, Unit
<1>5. d.batch[d.i] \in begun
  BY <1>1, <1>2 DEF UtxoInv, Begun, CallBegun
<1>6. /\ \A o \in Outputs : Safe(o) => Safe(o)'
      /\ \A g \in updates' : g \in updates \/ UpdateOK(g)'
  BY SafeSame
<1>7. faults = 0 => \A o \in Done(d) : o \in Outputs /\ Safe(o)
  BY <1>3, Zenon DEF UtxoInv, Kept, Done
<1> QED BY <1>1, <1>4, <1>5, <1>6, <1>7, CallStep, ZenonT(40)

(* SaveBody to PutHeadUnitHash. *)
LEMMA UtxoInvRows ==
  ASSUME StoreInv, UtxoInv, NEW c \in Callers,
         \/ SaveBody(c) \/ SaveTxLookupEntry(c) \/ SaveHeader(c) \/ SaveNumberByHash(c)
         \/ SaveHashByNumber(c) \/ PutCanonicalHash(c) \/ PutHeadHeaderHash(c) \/ PutHeadUnitHash(c)
  PROVE  UtxoInv'
<1> DEFINE q == After[call[c].pc]
<1>1. /\ call[c].pc \in FromBody \ {"headFast"} /\ call' = [call EXCEPT ![c].pc = q]
      /\ UNCHANGED <<utxo, updates, begun, faults>>
  BY DEF SaveBody, SaveTxLookupEntry, SaveHeader, SaveNumberByHash, SaveHashByNumber, PutCanonicalHash,
         PutHeadHeaderHash, PutHeadUnitHash, Write, FromBody, FromLookup, FromHeader, FromNumber, FromHash
<1>2. q \in FromBody
  BY <1>1, AfterFacts DEF FromBody, FromLookup, FromHeader, FromNumber, FromHash
<1>3. \A u \in numbers' : u \in numbers \/ u = Unit(c)
  <2>1. CASE SaveNumberByHash(c)
    BY <2>1 DEF SaveNumberByHash
  <2>2. CASE ~SaveNumberByHash(c)
    <3>1. numbers' = numbers
      BY <2>2, Zenon DEF SaveBody, SaveTxLookupEntry, SaveHeader, SaveHashByNumber, PutCanonicalHash,
         PutHeadHeaderHash, PutHeadUnitHash, tables
    <3> QED BY <3>1, Zenon
  <2> QED BY <2>1, <2>2, Zenon
<1> HIDE DEF q
<1> QED BY <1>1, <1>2, <1>3, UtxoInvWrite, Zenon

(* The goroutine starts with all outputs of the unit left to save.           *)
LEMMA UtxoInvHeadFast ==
  ASSUME StoreInv, UtxoInv, NEW c \in Callers, PutHeadFastUnitHash(c)
  PROVE  UtxoInv'
<1>0. /\ call[c].pc = "headFast" /\ UNCHANGED <<numbers, utxo, begun>>
      /\ updates' = updates \union Goroutine(c, Unit(c))
      /\ faults' = faults \/ faults' = faults + 1
  BY DEF PutHeadFastUnitHash, tables
<1>1. Unit(c) \in begun /\ call[c] \in Calls
  BY <1>0, Zenon DEF StoreInv, StoreType, CallType, UtxoInv, Begun, CallBegun, Unit
<1>2. faults' = 0 => faults = 0
  <2>1. plan.maxFaults \in Nat /\ faults \in 0 .. plan.maxFaults
    BY PlanFacts DEF StoreInv, StoreType, RestType
  <2>2. faults' = faults \/ faults' = faults + 1
    BY <1>0, ZenonT(40)
  <2> QED BY <2>1, <2>2
<1>3. \A o \in Outputs : Safe(o) => Safe(o)'
  BY <1>0, Zenon DEF Safe
<1>4. \A g \in updates' : g \in updates \/ UpdateOK(g)'
  BY <1>0, <1>1, SMT, Z3 DEF Goroutine, UpdateOK
<1>5. ASSUME NEW d, call' = [call EXCEPT ![c] = d], d.pc = "idle" \/ (d.pc = "check" /\ d.t = 1)
      PROVE  UtxoInv'
  <2>1. Done(d) = {} /\ d.pc \in {"idle", "check"}
    BY <1>5, DoneEmpty
  <2> QED BY <1>0, <1>2, <1>3, <1>4, <1>5, <2>1, CallStep, Zenon
<1>6. CASE call[c].i < Len(call[c].batch)
  <2> DEFINE d == [call[c] EXCEPT !.i = call[c].i + 1, !.t = 1, !.pc = "check"]
  <2>1. call' = [call EXCEPT ![c] = d]
    BY <1>6, Zenon DEF PutHeadFastUnitHash
  <2>2. d.t = 1 /\ d.pc = "check"
    BY <1>1, Zenon DEF Calls
  <2> HIDE DEF d
  <2> QED BY <1>5, <2>1, <2>2, Zenon
<1>7. CASE ~(call[c].i < Len(call[c].batch))
  <2>1. call' = [call EXCEPT ![c] = Idle] /\ Idle.pc = "idle"
    BY <1>7 DEF PutHeadFastUnitHash, Return, Idle
  <2> QED BY <1>5, <2>1, Zenon
<1> QED BY <1>6, <1>7

(* After a failed write nothing is promised of the outputs.                  *)
LEMMA UtxoInvFails ==
  ASSUME StoreInv, UtxoInv, NEW c \in Callers, SaveFails(c)
  PROVE  UtxoInv'
<1>0. faults' # 0 /\ UNCHANGED <<updates, begun>>
  <2>1. plan.maxFaults \in Nat /\ faults \in 0 .. plan.maxFaults
    BY PlanFacts DEF StoreInv, StoreType, RestType
  <2> QED BY <2>1, SMT, Z3 DEF SaveFails
<1>1. Kept'
  BY <1>0 DEF Kept
<1>2. \A e \in Callers : CallBegun(call[e])'
  <2>1. call \in [Callers -> Calls]
    BY DEF StoreInv, StoreType, CallType
  <2>2. \A e \in Callers : call'[e].pc \in {"idle"} \/ (call[e].pc \notin {"idle", "check"}
                              /\ call'[e].batch = call[e].batch /\ call'[e].i = call[e].i)
                            \/ call'[e] = call[e]
    BY <2>1, SMT, Z3 DEF SaveFails, Return, Idle, Calls
  <2> QED BY <1>0, <2>2 DEF UtxoInv, Begun, CallBegun
<1>3. \A g \in updates' : UpdateOK(g)'
  BY <1>0 DEF UtxoInv, Begun, UpdateOK
<1> QED BY <1>1, <1>2, <1>3 DEF UtxoInv, Begun

(* A crash is a fault. *)
LEMMA UtxoInvCrash == StoreInv /\ UtxoInv /\ Crash => UtxoInv'
<1> SUFFICES ASSUME StoreInv, UtxoInv, Crash PROVE UtxoInv'
  OBVIOUS
<1>1. Kept'
  <2>1. plan.maxFaults \in Nat /\ faults \in 0 .. plan.maxFaults
    BY PlanFacts DEF StoreInv, StoreType, RestType
  <2> QED BY <2>1 DEF Crash, Kept
<1>2. Begun'
  BY DEF Crash, Begun, CallBegun, Idle
<1> QED BY <1>1, <1>2 DEF UtxoInv

(* A goroutine of the UTXO set: an output that it marks as spent is spent by *)
(* its unit, or will be saved again.                                         *)
LEMMA UtxoInvUpdate ==
  ASSUME StoreInv, UtxoInv, NEW g \in updates, Update(g)
  PROVE  UtxoInv'
<1>0. g \in Goroutines /\ g.unit \in Units /\ UpdateOK(g) /\ utxo \in [Outputs -> {"absent", "unspent", "spent"}]
  BY DEF StoreInv, StoreType, RestType, Goroutines, UtxoInv, Begun, UtxoType
<1>1. UNCHANGED <<call, numbers, begun, faults>> /\ \A u \in numbers : u \in Units
  BY Zenon DEF Update, FetchUnitUtxos, SpentUtxo, SaveUtxoEntity, EndUpdate, tables, StoreInv, StoreType, TableType
<1>2. ASSUME NEW h, updates' \subseteq updates \union {h}, UpdateOK(h), \A o \in Outputs : Safe(o) => Safe(o)'
      PROVE  UtxoInv'
  <2>1. Kept'
    BY <1>1, <1>2, KeptBySafe DEF UtxoInv
  <2>2. \A c \in Callers : CallBegun(call[c])'
    BY <1>1, Zenon DEF UtxoInv, Begun, CallBegun
  <2>3. \A k \in updates' : UpdateOK(k)'
    BY <1>1, <1>2 DEF UtxoInv, Begun, UpdateOK
  <2> QED BY <2>1, <2>2, <2>3 DEF UtxoInv, Begun
<1>3. CASE FetchUnitUtxos(g)
  <2>1. PICK view \in SUBSET Needed(g.unit), added \in SUBSET AddedOuts(g.unit) :
          updates' = (updates \ {g}) \union {[g EXCEPT !.fetched = TRUE, !.spend = view \union added]}
    BY <1>3, Zenon DEF FetchUnitUtxos
  <2> DEFINE h == [g EXCEPT !.fetched = TRUE, !.spend = view \union added]
  <2>2. h.unit = g.unit /\ h.save = g.save /\ h.spend = view \union added
    BY <1>0, Zenon DEF Goroutines
  <2>3. ~g.fetched /\ utxo' = utxo
    BY <1>3 DEF FetchUnitUtxos
  <2> HIDE DEF h
  <2>4. UpdateOK(h)
    BY <1>0, <2>2, <2>3, ViewFacts DEF UpdateOK
  <2>5. updates' = (updates \ {g}) \union {h}
    BY <2>1 DEF h
  <2>6. \A o \in Outputs : Safe(o) => Safe(o)'
    BY <1>1, <2>2, <2>3, <2>5 DEF Safe
  <2> QED BY <1>2, <2>4, <2>5, <2>6
<1>4. ASSUME NEW o \in Outputs, SpentUtxo(g, o) PROVE UtxoInv'
  <2> DEFINE h == [g EXCEPT !.spend = @ \ {o}]
  <2>1. h.unit = g.unit /\ h.save = g.save /\ h.spend = g.spend \ {o} /\ h.fetched = g.fetched
    BY <1>0 DEF Goroutines
  <2>2. /\ utxo' = [utxo EXCEPT ![o] = "spent"] /\ updates' = (updates \ {g}) \union {h}
        /\ o \in g.spend /\ g.fetched
    BY <1>4 DEF SpentUtxo
  <2> HIDE DEF h
  <2>3. UpdateOK(h)
    BY <1>0, <2>1, <2>2 DEF UpdateOK
  <2>4. o \in Spends(g.unit) \/ o \in h.save
    BY <1>0, <2>1, <2>2 DEF UpdateOK
  <2>5. ASSUME NEW p \in Outputs, Safe(p) PROVE Safe(p)'
    <3>1. CASE p = o
      BY <1>0, <1>1, <2>2, <2>4, <3>1 DEF Safe, UpdateOK
    <3>2. CASE p # o
      <4>1. utxo'[p] = utxo[p]
        BY <1>0, <2>2, <3>2
      <4> QED BY <1>1, <2>1, <2>2, <2>5, <4>1 DEF Safe
    <3> QED BY <3>1, <3>2
  <2> QED BY <1>2, <2>2, <2>3, <2>5
<1>5. ASSUME NEW o \in Outputs, SaveUtxoEntity(g, o) PROVE UtxoInv'
  <2> DEFINE h == [g EXCEPT !.save = @ \ {o}]
  <2>1. h.unit = g.unit /\ h.save = g.save \ {o} /\ h.spend = g.spend /\ h.fetched = g.fetched
    BY <1>0 DEF Goroutines
  <2>2. /\ utxo' = [utxo EXCEPT ![o] = "unspent"] /\ updates' = (updates \ {g}) \union {h}
        /\ g.spend = {} /\ g.fetched
    BY <1>5 DEF SaveUtxoEntity, Saving
  <2> HIDE DEF h
  <2>3. UpdateOK(h)
    BY <1>0, <2>1, <2>2 DEF UpdateOK
  <2>4. ASSUME NEW p \in Outputs, Safe(p) PROVE Safe(p)'
    <3>1. CASE p = o
      BY <1>0, <2>2, <3>1 DEF Safe
    <3>2. CASE p # o
      <4>1. utxo'[p] = utxo[p]
        BY <1>0, <2>2, <3>2
      <4>2. CASE \E x \in updates : p \in x.save
        <5>1. PICK x \in updates : p \in x.save
          BY <4>2
        <5>2. x = g => p \in h.save
          BY <2>1, <3>2, <5>1
        <5>3. \E y \in updates' : p \in y.save
          BY <2>2, <5>1, <5>2
        <5> QED BY <5>3 DEF Safe
      <4>3. CASE ~\E x \in updates : p \in x.save
        BY <1>1, <2>4, <4>1, <4>3, Zenon DEF Safe
      <4> QED BY <4>2, <4>3
    <3> QED BY <3>1, <3>2
  <2> QED BY <1>2, <2>2, <2>3, <2>4
<1>6. CASE EndUpdate(g)
  <2>1. utxo' = utxo /\ updates' = updates \ {g} /\ g.save = {}
    BY <1>6 DEF EndUpdate
  <2>2. \A o \in Outputs : Safe(o) => Safe(o)'
    BY <1>1, <2>1 DEF Safe
  <2> QED BY <1>0, <1>2, <2>1, <2>2
<1> QED BY <1>3, <1>4, <1>5, <1>6 DEF Update

-----------------------------------------------------------------------------
(* The theorem *)

(* Every step keeps the invariant. *)
LEMMA UtxoInvNext == StoreInv /\ UtxoInv /\ [Next]_vars => UtxoInv'
<1> SUFFICES ASSUME StoreInv, UtxoInv, [Next]_vars PROVE UtxoInv'
  OBVIOUS
<1>1. ASSUME NEW c \in plan.callers, Insert(c) PROVE UtxoInv'
  <2>0. c \in Callers
    BY <1>1, PlanCallers
  <2>1. CASE (\E batch \in plan.batches : InsertDag(c, batch)) \/ Check(c)
    BY <2>0, <2>1, UtxoInvBegins
  <2>2. CASE WriteUtxo(c) \/ DestroyUtxo(c)
    BY <2>0, <2>2, UtxoInvUpdateUtxo
  <2>3. CASE SaveTransaction(c)
    BY <2>0, <2>3, UtxoInvTransaction
  <2>4. CASE \/ SaveBody(c) \/ SaveTxLookupEntry(c) \/ SaveHeader(c) \/ SaveNumberByHash(c)
             \/ SaveHashByNumber(c) \/ PutCanonicalHash(c) \/ PutHeadHeaderHash(c) \/ PutHeadUnitHash(c)
    BY <2>0, <2>4, UtxoInvRows, Zenon
  <2>5. CASE PutHeadFastUnitHash(c)
    BY <2>0, <2>5, UtxoInvHeadFast
  <2>6. CASE SaveFails(c)
    BY <2>0, <2>6, UtxoInvFails
  <2> QED BY <1>1, <2>1, <2>2, <2>3, <2>4, <2>5, <2>6, Zenon DEF Insert
<1>2. ASSUME NEW g \in updates, Update(g) PROVE UtxoInv'
  BY <1>2, UtxoInvUpdate
<1>3. CASE Crash
  BY <1>3, UtxoInvCrash
<1>4. CASE UNCHANGED vars
  BY <1>4, Zenon DEF vars, tables, UtxoInv, Begun, CallBegun, UpdateOK, Kept, Safe
<1> QED BY <1>1, <1>2, <1>3, <1>4 DEF Next

(* No output gets lost.  While nothing has failed, an output of a visible    *)
(* unit is unspent, or spent by a unit whose saving has begun, whenever no   *)
(* UTXO goroutine is under way: SpentUtxo, destoryUtxo and the saves of      *)
(* several units may interleave in any way.                                  *)
THEOREM UnspentAlwaysKept == Spec => []UnspentKept
<1>1. StoreInv /\ UtxoInv => UnspentKept
  BY VisibleUnits, Zenon DEF UtxoInv, Kept, Safe, UnspentKept, Settled
<1> QED BY <1>1, UtxoInvInit, UtxoInvNext, StoreInvariant, PTL DEF Spec

=============================================================================
