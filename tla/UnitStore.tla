------------------------------ MODULE UnitStore ------------------------------
(***************************************************************************)
(* How units reach the database: Dag.InsertDag and Dag.SaveUnit, the       *)
(* writes of UnitRepository.SaveUnit one by one, and the goroutine that    *)
(* updates the UTXO set afterwards (dag/dag.go, dag/common, dag/storage).  *)
(*                                                                         *)
(* No lock is held: calls of several goroutines (production, fetcher,      *)
(* downloader) interleave between writes, and the process may crash        *)
(* between any two of them.  Transactions carry payments only, an output   *)
(* is a value of its own, and units have the size and the signature that   *)
(* SaveUnit checks before it writes.                                       *)
(***************************************************************************)
EXTENDS Integers, Sequences, FiniteSets

CONSTANTS
  Units, Genesis, Number, Parents,
  Transactions, TxsOf,      \* the transactions of a unit, coinbase first
  Outputs, Ins, Outs,       \* what a transaction spends and creates
  Callers,                  \* goroutines that may call InsertDag
  Plans,                    \* situations: the callers, with what they call it, and
                            \* a bound on crashes and failed writes
  None

Numbers == {Number[u] : u \in Units}
UnitTxs(u) == {TxsOf[u][i] : i \in 1 .. Len(TxsOf[u])}
UnitOuts(u) == UNION {Outs[t] : t \in UnitTxs(u)}

ASSUME StoreAssumption ==
  /\ Genesis \in Units /\ Number \in [Units -> Nat]
  /\ Parents \in [Units -> SUBSET Units]
  /\ TxsOf \in [Units -> Seq(Transactions) \ {<<>>}]
  /\ Ins \in [Transactions -> SUBSET Outputs] /\ Outs \in [Transactions -> SUBSET Outputs]
  /\ \A p \in Plans : /\ p.callers \subseteq Callers /\ p.maxFaults \in Nat
                     /\ p.batches \subseteq Seq(Units) \ {<<>>}
  /\ None \notin Units

VARIABLES
  txs, lookups, bodies, headers, numbers,   \* what is stored under which key
  byNumber, canonical,                      \* the unit stored for a number
  headHeader, headUnit, headFast,           \* the head pointers
  utxo,       \* the UTXO set: an output is absent, unspent, or marked as spent
  call,       \* by caller: batch, position i, transaction t, and next write pc
  result,     \* by caller: what the last call returned
  updates,    \* UTXO goroutines: caller, unit, and what is left to write
  begun,      \* units whose writing has begun (history)
  faults,
  plan        \* the situation, one of Plans

tables == <<txs, lookups, bodies, headers, numbers>>
indexes == <<byNumber, canonical>>
heads == <<headHeader, headUnit, headFast>>
vars == <<tables, indexes, heads, utxo, call, result, updates, begun, faults, plan>>

Idle == [batch |-> <<>>, i |-> 0, t |-> 0, pc |-> "idle"]
NoResult == [batch |-> <<>>, count |-> 0, err |-> "none"]

PCs == {"idle", "check", "create", "destroy", "tx", "body", "lookup", "header", "number",
        "hash", "canonical", "headHeader", "headUnit", "headFast"}

(* Tables, indexes, head pointers and goroutines have their types.          *)
TypeOK ==
  /\ txs \subseteq Transactions /\ lookups \subseteq Transactions
  /\ bodies \subseteq Units /\ headers \subseteq Units /\ numbers \subseteq Units
  /\ byNumber \in [Numbers -> Units \union {None}]
  /\ canonical \in [Numbers -> Units \union {None}]
  /\ headHeader \in Units /\ headUnit \in Units /\ headFast \in Units
  /\ utxo \in [Outputs -> {"absent", "unspent", "spent"}]
  /\ \A c \in Callers :
       /\ call[c].pc \in PCs
       /\ call[c].pc # "idle" => /\ call[c].batch \in plan.batches
                                 /\ call[c].i \in 1 .. Len(call[c].batch)
                                 /\ call[c].t \in 1 .. Len(TxsOf[call[c].batch[call[c].i]])
       /\ result[c].count \in 0 .. Len(result[c].batch)
  /\ \A g \in updates : g.by \in Callers /\ g.unit \in Units
                        /\ g.spend \subseteq Outputs /\ g.save \subseteq Outputs
  /\ begun \subseteq Units
  /\ faults \in 0 .. plan.maxFaults
  /\ plan \in Plans

\* The database when SaveUnit4GenesisInit has stored the genesis unit.
Init ==
  /\ txs = UnitTxs(Genesis) /\ lookups = UnitTxs(Genesis)
  /\ bodies = {Genesis} /\ headers = {Genesis} /\ numbers = {Genesis}
  /\ byNumber = [n \in Numbers |-> IF n = Number[Genesis] THEN Genesis ELSE None]
  /\ canonical = byNumber
  /\ headHeader = Genesis /\ headUnit = Genesis /\ headFast = Genesis
  /\ utxo = [o \in Outputs |-> IF o \in UnitOuts(Genesis) THEN "unspent" ELSE "absent"]
  /\ call = [c \in Callers |-> Idle]
  /\ result = [c \in Callers |-> NoResult]
  /\ updates = {}
  /\ begun = {Genesis}
  /\ faults = 0
  /\ plan \in Plans

\* DagDb.GetUnit finds the unit: its number, its header and its body.
Exists(u) == u \in numbers /\ u \in headers /\ u \in bodies

-----------------------------------------------------------------------------
(* InsertDag *)

Unit(c) == call[c].batch[call[c].i]
Tx(c) == TxsOf[Unit(c)][call[c].t]

InsertDag(c, batch) ==
  /\ call[c].pc = "idle"
  /\ call' = [call EXCEPT ![c] = [batch |-> batch, i |-> 1, t |-> 1, pc |-> "check"]]
  /\ UNCHANGED <<tables, indexes, heads, utxo, result, updates, begun, faults, plan>>

\* The two comparisons with the unit before.
NotContinuous(batch, i) == i > 1 /\ Number[batch[i]] = Number[batch[i - 1]] + 1
NotChild(batch, i) == i > 1 /\ batch[i - 1] \notin Parents[batch[i]]

\* Mutant: the failing unit is counted.
ReturnAttempted(c, count, err) ==
  /\ result' = [result EXCEPT ![c] = [batch |-> call[c].batch, err |-> err,
                                      count |-> IF err = "none" THEN count ELSE count + 1]]
  /\ call' = [call EXCEPT ![c] = Idle]

Return(c, count, err) ==
  /\ result' = [result EXCEPT ![c] = [batch |-> call[c].batch, count |-> count, err |-> err]]
  /\ call' = [call EXCEPT ![c] = Idle]

\* InsertDag's checks and the check of SaveUnit; the error paths return the
\* number of units saved so far.
Check(c) ==
  LET batch == call[c].batch
      i == call[c].i IN
  /\ call[c].pc = "check"
  /\ \/ NotContinuous(batch, i) /\ Return(c, i - 1, "number") /\ UNCHANGED begun
     \/ /\ ~NotContinuous(batch, i) /\ NotChild(batch, i)
        /\ Return(c, i - 1, "parent") /\ UNCHANGED begun
     \/ /\ ~NotContinuous(batch, i) /\ ~NotChild(batch, i) /\ Exists(Unit(c))
        /\ Return(c, i - 1, "exists") /\ UNCHANGED begun
     \/ /\ ~NotContinuous(batch, i) /\ ~NotChild(batch, i) /\ ~Exists(Unit(c))
        /\ call' = [call EXCEPT ![c].pc = "create"]
        /\ begun' = begun \union {Unit(c)}
        /\ UNCHANGED result
  /\ UNCHANGED <<tables, indexes, heads, utxo, updates, faults, plan>>

-----------------------------------------------------------------------------
(* UnitRepository.SaveUnit, one database write at a time *)

\* Mutant: the unit becomes visible before its header is there.
AfterNumberEarly ==
  [create |-> "destroy", destroy |-> "tx", body |-> "number", number |-> "lookup",
   lookup |-> "header", header |-> "hash", hash |-> "canonical",
   canonical |-> "headHeader", headHeader |-> "headUnit", headUnit |-> "headFast"]

\* Mutant: the head moves before the unit is visible.
AfterHeadEarly ==
  [create |-> "destroy", destroy |-> "tx", body |-> "lookup", lookup |-> "header",
   header |-> "headUnit", headUnit |-> "number", number |-> "hash", hash |-> "canonical",
   canonical |-> "headHeader", headHeader |-> "headFast"]

\* The order of the writes.
After ==
  [create |-> "destroy", destroy |-> "tx", body |-> "lookup", lookup |-> "header",
   header |-> "number", number |-> "hash", hash |-> "canonical",
   canonical |-> "headHeader", headHeader |-> "headUnit", headUnit |-> "headFast"]

\* The caller is at the given write, and goes on to the next one.
Write(c, pc) ==
  /\ call[c].pc = pc
  /\ call' = [call EXCEPT ![c].pc = After[pc]]
  /\ UNCHANGED <<result, updates, begun, faults, plan>>

\* UpdateUtxo: writeUtxo and then destoryUtxo, which skips what is not there.
WriteUtxo(c) ==
  /\ Write(c, "create")
  /\ utxo' = [o \in Outputs |-> IF o \in Outs[Tx(c)] THEN "unspent" ELSE utxo[o]]
  /\ UNCHANGED <<tables, indexes, heads>>

DestroyUtxo(c) ==
  /\ Write(c, "destroy")
  /\ utxo' = [o \in Outputs |-> IF o \in Ins[Tx(c)] THEN "absent" ELSE utxo[o]]
  /\ UNCHANGED <<tables, indexes, heads>>

\* SaveTransaction, and on to the next transaction or to the body.
SaveTransaction(c) ==
  /\ call[c].pc = "tx"
  /\ txs' = txs \union {Tx(c)}
  /\ call' = [call EXCEPT ![c] = IF call[c].t < Len(TxsOf[Unit(c)])
                                 THEN [@ EXCEPT !.t = call[c].t + 1, !.pc = "create"]
                                 ELSE [@ EXCEPT !.pc = "body"]]
  /\ UNCHANGED <<lookups, bodies, headers, numbers, indexes, heads, utxo, result,
                 updates, begun, faults, plan>>

SaveBody(c) ==
  /\ Write(c, "body")
  /\ bodies' = bodies \union {Unit(c)}
  /\ UNCHANGED <<txs, lookups, headers, numbers, indexes, heads, utxo>>

SaveTxLookupEntry(c) ==
  /\ Write(c, "lookup")
  /\ lookups' = lookups \union UnitTxs(Unit(c))
  /\ UNCHANGED <<txs, bodies, headers, numbers, indexes, heads, utxo>>

SaveHeader(c) ==
  /\ Write(c, "header")
  /\ headers' = headers \union {Unit(c)}
  /\ UNCHANGED <<txs, lookups, bodies, numbers, indexes, heads, utxo>>

SaveNumberByHash(c) ==
  /\ Write(c, "number")
  /\ numbers' = numbers \union {Unit(c)}
  /\ UNCHANGED <<txs, lookups, bodies, headers, indexes, heads, utxo>>

SaveHashByNumber(c) ==
  /\ Write(c, "hash")
  /\ byNumber' = [byNumber EXCEPT ![Number[Unit(c)]] = Unit(c)]
  /\ UNCHANGED <<tables, canonical, heads, utxo>>

PutCanonicalHash(c) ==
  /\ Write(c, "canonical")
  /\ canonical' = [canonical EXCEPT ![Number[Unit(c)]] = Unit(c)]
  /\ UNCHANGED <<tables, byNumber, heads, utxo>>

PutHeadHeaderHash(c) ==
  /\ Write(c, "headHeader")
  /\ headHeader' = Unit(c)
  /\ UNCHANGED <<tables, indexes, headUnit, headFast, utxo>>

PutHeadUnitHash(c) ==
  /\ Write(c, "headUnit")
  /\ headUnit' = Unit(c)
  /\ UNCHANGED <<tables, indexes, headHeader, headFast, utxo>>

\* The UTXO goroutine for a unit; one without inputs and outputs writes nothing
\* and is left out.
Goroutine(c, u) ==
  {g \in {[by |-> c, unit |-> u, fetched |-> FALSE, spend |-> {}, save |-> UnitOuts(u)]} :
     \E t \in UnitTxs(u) : Ins[t] \union Outs[t] # {}}

\* The last write; Dag.SaveUnit starts the UTXO goroutine, and InsertDag goes
\* on to the next unit or returns.
PutHeadFastUnitHash(c) ==
  /\ call[c].pc = "headFast"
  /\ \/ headFast' = Unit(c) /\ UNCHANGED faults
     \/ faults < plan.maxFaults /\ faults' = faults + 1 /\ UNCHANGED headFast
  /\ updates' = updates \union Goroutine(c, Unit(c))
  /\ IF call[c].i < Len(call[c].batch)
     THEN /\ call' = [call EXCEPT ![c] = [@ EXCEPT !.i = call[c].i + 1, !.t = 1, !.pc = "check"]]
          /\ UNCHANGED result
     ELSE Return(c, call[c].i, "none")
  /\ UNCHANGED <<tables, indexes, headHeader, headUnit, utxo, begun, plan>>

\* A write of SaveUnit up to SaveHashByNumber fails, except in destoryUtxo;
\* errors of the later ones are ignored, which leaves their keys as they are.
SaveFails(c) ==
  /\ faults < plan.maxFaults
  /\ faults' = faults + 1
  /\ \/ /\ call[c].pc \in {"tx", "body", "lookup", "header", "number", "hash"}
        /\ Return(c, call[c].i - 1, "save") /\ UNCHANGED utxo
     \/ /\ call[c].pc = "create"
        /\ \E written \in SUBSET Outs[Tx(c)] :
             utxo' = [o \in Outputs |-> IF o \in written THEN "unspent" ELSE utxo[o]]
        /\ Return(c, call[c].i - 1, "save")
     \/ /\ call[c].pc \in {"canonical", "headHeader", "headUnit"}
        /\ call' = [call EXCEPT ![c].pc = After[call[c].pc]]
        /\ UNCHANGED <<result, utxo>>
  /\ UNCHANGED <<tables, indexes, heads, updates, begun, plan>>

-----------------------------------------------------------------------------
(* The goroutine of Dag.SaveUnit that updates the UTXO set *)

\* FetchUnitUtxos looks at all transactions but the first.  Inputs from earlier
\* transactions of the same unit are not looked up in the database.
Position(u, o) == {i \in 1 .. Len(TxsOf[u]) : o \in Outs[TxsOf[u][i]]}
InFlight(u) ==
  {o \in UnitOuts(u) : \E i \in 2 .. Len(TxsOf[u]) :
                         o \in Ins[TxsOf[u][i]] /\ \E j \in Position(u, o) : j < i}
Needed(u) == UNION {Ins[TxsOf[u][i]] : i \in 2 .. Len(TxsOf[u])} \ InFlight(u)

\* AddTxOut adds an output of the transaction that created an input in flight,
\* not always the one that is spent: its indexes are those of the spender.
AddedOuts(u) ==
  UNION {Outs[t] : t \in {t \in UnitTxs(u) : Outs[t] \intersect InFlight(u) # {}}}

\* fetchUtxosMain stops at the first output that it does not find.
Fetched(u, view) ==
  LET found == {o \in Needed(u) : utxo[o] # "absent"} IN
  IF found = Needed(u) THEN view = found ELSE view \subseteq found

FetchUnitUtxos(g) ==
  /\ g \in updates /\ ~g.fetched
  /\ \E view \in SUBSET Needed(g.unit), added \in SUBSET AddedOuts(g.unit) :
       /\ Fetched(g.unit, view)
       /\ updates' = (updates \ {g}) \union
                       {[g EXCEPT !.fetched = TRUE, !.spend = view \union added]}
  /\ UNCHANGED <<tables, indexes, heads, utxo, call, result, begun, faults, plan>>

\* SpentUtxo writes the outputs of the view back, marked as spent.
SpentUtxo(g, o) ==
  /\ g \in updates /\ g.fetched /\ o \in g.spend
  /\ utxo' = [utxo EXCEPT ![o] = "spent"]
  /\ updates' = (updates \ {g}) \union {[g EXCEPT !.spend = @ \ {o}]}
  /\ UNCHANGED <<tables, indexes, heads, call, result, begun, faults, plan>>

\* Mutant: outputs are saved before the spent ones are marked.
SavingNow(g) == g.fetched

\* The outputs are saved after SpentUtxo has returned.
Saving(g) == g.fetched /\ g.spend = {}

\* The outputs of the unit are saved, again.
SaveUtxoEntity(g, o) ==
  /\ g \in updates /\ Saving(g) /\ o \in g.save
  /\ utxo' = [utxo EXCEPT ![o] = "unspent"]
  /\ updates' = (updates \ {g}) \union {[g EXCEPT !.save = @ \ {o}]}
  /\ UNCHANGED <<tables, indexes, heads, call, result, begun, faults, plan>>

EndUpdate(g) ==
  /\ g \in updates /\ g.fetched /\ g.spend = {} /\ g.save = {}
  /\ updates' = updates \ {g}
  /\ UNCHANGED <<tables, indexes, heads, utxo, call, result, begun, faults, plan>>

\* The process stops and is started again: the database is what remains.
Crash ==
  /\ faults < plan.maxFaults
  /\ faults' = faults + 1
  /\ call' = [c \in Callers |-> Idle]
  /\ result' = [c \in Callers |-> NoResult]
  /\ updates' = {}
  /\ UNCHANGED <<tables, indexes, heads, utxo, begun, plan>>

Insert(c) ==
  \/ \E batch \in plan.batches : InsertDag(c, batch)
  \/ Check(c)
  \/ WriteUtxo(c) \/ DestroyUtxo(c) \/ SaveTransaction(c)
  \/ SaveBody(c) \/ SaveTxLookupEntry(c) \/ SaveHeader(c)
  \/ SaveNumberByHash(c) \/ SaveHashByNumber(c) \/ PutCanonicalHash(c)
  \/ PutHeadHeaderHash(c) \/ PutHeadUnitHash(c) \/ PutHeadFastUnitHash(c)
  \/ SaveFails(c)

Update(g) ==
  \/ FetchUnitUtxos(g) \/ EndUpdate(g)
  \/ \E o \in Outputs : SpentUtxo(g, o) \/ SaveUtxoEntity(g, o)

Next ==
  \/ \E c \in plan.callers : Insert(c)
  \/ \E g \in updates : Update(g)
  \/ Crash

Spec == Init /\ [][Next]_vars

-----------------------------------------------------------------------------
(* Properties *)

(* The units that a reader of the database comes upon: by the index of       *)
(* numbers, by a head pointer, or as the canonical unit of a number.         *)
Found == numbers \union {headHeader, headUnit, headFast} \union ({canonical[n] : n \in Numbers} \ {None})

(* Because of the order of the writes in SaveUnit, a unit that is found is   *)
(* complete: its header, its body, its transactions and their lookup entries *)
(* are in the database, although saves interleave, fail, or are cut off by a *)
(* crash and repeated.  So CurrentUnit does not return nil after a crash.    *)
(* All tables are well typed.                                                *)
VisibleIsComplete ==
  /\ TypeOK
  /\ \A u \in Found : Exists(u) /\ UnitTxs(u) \subseteq txs \intersect lookups

(* InsertDag counts no unit as inserted that is not in the database: what it *)
(* returns is at most the number of stored units at the front of the batch,  *)
(* also when the call fails half-way.  Another caller may have stored more.   *)
InsertedPrefix ==
  \A c \in Callers : \A i \in 1 .. result[c].count : Exists(result[c].batch[i])

L == INSTANCE Ledger WITH stored <- {u \in Units : Exists(u)}, head <- headUnit

(* The unit store implements the ledger that the other parts assume.         *)
ImplementsLedger == L!LedgerSpec

Spends(u) == UNION {Ins[t] : t \in UnitTxs(u)}
Settled == faults = 0 /\ updates = {}

(* No output gets lost: when the UTXO goroutines have ended and nothing has  *)
(* failed, an output of a visible unit is unspent unless a unit whose saving *)
(* has begun spends it.                                                      *)
UnspentKept ==
  Settled => \A u \in Units : Exists(u) =>
    \A o \in UnitOuts(u) : (\A v \in begun : o \notin Spends(v)) => utxo[o] = "unspent"

(* The comment of UpdateUtxo: UTXOs are destroyed according to the inputs of *)
(* a transaction.  When all goroutines have ended and nothing has failed, an *)
(* output that a visible unit spends is not unspent.                         *)
SpentDestroyed ==
  Settled /\ (\A c \in Callers : call[c].pc = "idle") =>
    \A u \in Units : Exists(u) => \A o \in Spends(u) : utxo[o] # "unspent"

=============================================================================
