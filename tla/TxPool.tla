------------------------------- MODULE TxPool -------------------------------
(***************************************************************************)
(* The transaction pool (dag/txspool/txpool.go, txlist.go, txjournal.go):  *)
(* transactions are added by the API and by peers, GetSortedTxs hands them *)
(* to unit production, and the journal carries some over a restart.        *)
(*                                                                         *)
(* What the node calls is modelled.  No chain-head event is ever sent and  *)
(* add reports every success as a replacement, so nothing calls reset,     *)
(* promoteExecutables or demoteUnexecutables and the queue stays empty;    *)
(* RemoveTransaction and RemoveDoubleSpends have no callers.  Transactions *)
(* are those that pass validateTx, each with a priority of its own.  The   *)
(* fields of the pool are a record, and the operators that change it       *)
(* return the new record.                                                  *)
(***************************************************************************)
EXTENDS Integers, SequencesExt

CONSTANTS
  Txs,
  Inputs,          \* for each transaction the sequence of outpoints it spends
  Output,          \* for each transaction the outpoint it creates
  Priority,        \* Priority_lvl of each transaction, a number
  Size,            \* of each transaction, a number
  Coins,           \* the outpoints in the utxo database at first
  Capacity,        \* GlobalSlots + GlobalQueue
  UnitTxSize,      \* what the transactions of a unit may add up to
  MaxAdds,         \* bound: calls of AddLocal and AddRemotes
  MaxUnits         \* bound: calls of GetSortedTxs

VARIABLES
  pool,            \* the fields all and pending (sets of transactions), outpoints
                   \* (pairs of an outpoint and its spender), items and stales
                   \* of the priced list, and locals (outpoints)
  journal,         \* the file, a sequence of transactions
  coins,           \* the outpoints in the utxo database
  list, total,     \* the local variables of GetSortedTxs
  making,          \* GetSortedTxs runs
  adds, units      \* the calls so far

vars == <<pool, journal, coins, list, total, making, adds, units>>

Spends(t) == ToSet(Inputs[t])

Empty == [all |-> {}, pending |-> {}, outpoints |-> {}, items |-> [t \in Txs |-> 0],
          stales |-> 0, locals |-> {}]

Init ==
  /\ pool = Empty /\ journal = <<>> /\ coins = Coins
  /\ list = <<>> /\ total = 0 /\ making = FALSE /\ adds = 0 /\ units = 0
-----------------------------------------------------------------------------
(* txPricedList.  items counts the entries of a transaction; the highest    *)
(* priority is on top, and the entries of transactions that left the pool   *)
(* are stale.                                                               *)

Items(p) == {t \in Txs : p.items[t] > 0}
Top(p) == CHOOSE t \in Items(p) : \A u \in Items(p) : Priority[u] <= Priority[t]
Put(p, t) == [p EXCEPT !.items[t] = @ + 1]
Pop(p) == [p EXCEPT !.items[Top(p)] = @ - 1]

Removed(p) ==
  IF p.stales + 1 <= SumFunction(p.items) \div 4
  THEN [p EXCEPT !.stales = @ + 1]
  ELSE [p EXCEPT !.stales = 0, !.items = [t \in Txs |-> IF t \in p.all THEN 1 ELSE 0]]

IsLocal(p, t) == Inputs[t] # <<>> /\ Spends(t) \subseteq p.locals

\* The entries that Underpriced pops: the stale ones above every other.
StaleTop(p) ==
  {t \in Items(p) \ p.all : \A u \in Items(p) : Priority[u] > Priority[t] => u \notin p.all}

DropStale(p) ==
  [p EXCEPT !.items = [t \in Txs |-> IF t \in StaleTop(p) THEN 0 ELSE @[t]],
            !.stales = @ - SumFunctionOnSet(p.items, StaleTop(p))]

Underpriced(p, t) == ~IsLocal(p, t) /\ Items(p) # {} /\ Priority[Top(p)] >= Priority[t]

RECURSIVE Discard(_, _, _, _)
Discard(p, count, save, drop) ==
  IF Items(p) = {} \/ count <= 0
  THEN [pool |-> FoldLeft(Put, p, save), drop |-> drop]
  ELSE LET t == Top(p) IN
       IF t \notin p.all THEN Discard([Pop(p) EXCEPT !.stales = @ - 1], count, save, drop)
       ELSE IF IsLocal(p, t) THEN Discard(Pop(p), count, Append(save, t), drop)
       ELSE Discard(Pop(p), count - 1, save, Append(drop, t))
-----------------------------------------------------------------------------
(* Adding and removing, under the lock of the pool.                         *)

Unlink(p, t) ==
  LET q == [p EXCEPT !.pending = @ \ {t}] IN
  IF t \notin q.all THEN q
  ELSE Removed([q EXCEPT !.outpoints = {e \in @ : e[1] \notin Spends(t)}, !.all = @ \ {t}])

\* outpoints has at most one entry, so what spends t has no redeemer itself.
removeTransaction(p, t) ==
  Unlink(FoldLeft(Unlink, p, SetToSeq({e[2] : e \in {f \in p.outpoints : f[1] = Output[t]}})), t)

Full(p) == Cardinality(p.all) >= Capacity

MakeRoom(p) ==
  IF ~Full(p) THEN p
  ELSE LET d == Discard(p, Cardinality(p.all) - (Capacity - 1), <<>>, <<>>)
       IN  FoldLeft(removeTransaction, d.pool, d.drop)

\* The map of outpoints is made anew for each input, the last one stays.
Pooled(p, t) ==
  LET q == [p EXCEPT !.all = @ \union {t},
                     !.outpoints = IF Inputs[t] = <<>> THEN @ ELSE {<<Last(Inputs[t]), t>>}]
  IN  Put(q, t)

checkPoolDoubleSpend(p, t) == \A e \in p.outpoints : e[1] \notin Spends(t)

Acceptable(p, t) ==
  /\ t \notin p.all
  /\ checkPoolDoubleSpend(p, t)
  /\ Spends(t) \subseteq coins

Priced(p, t) == IF Full(p) /\ ~IsLocal(p, t) THEN DropStale(p) ELSE p

Refused(p, t) == Full(p) /\ Underpriced(Priced(p, t), t)

\* The pool after add, and whether the transaction is a new one.
Added(p, t, local) ==
  LET room == MakeRoom(Priced(p, t)) IN
  IF ~Acceptable(p, t) THEN [pool |-> p, new |-> FALSE]
  ELSE IF Refused(p, t) THEN [pool |-> Priced(p, t), new |-> FALSE]
  ELSE IF t \in room.pending
  THEN [pool |-> Removed([room EXCEPT !.all = @ \ {t}]), new |-> FALSE]
  ELSE [pool |-> [Pooled(room, t) EXCEPT !.locals = IF local THEN @ \union Spends(t) ELSE @],
        new |-> TRUE]

\* journalTx comes before the inputs are made local.
Journaled(p, t) == Inputs[t] = <<>> \/ IsLocal(p, t)

Add(t, local) ==
  /\ adds < MaxAdds
  /\ LET a == Added(pool, t, local) IN
       /\ pool' = a.pool
       /\ journal' = IF a.new /\ Journaled(pool, t) THEN Append(journal, t) ELSE journal
  /\ adds' = adds + 1
  /\ UNCHANGED <<coins, list, total, making, units>>

AddLocal(t) == Add(t, TRUE)
AddRemotes(t) == Add(t, FALSE)

promoteTx(p, t) ==
  IF t \in p.pending THEN Removed([p EXCEPT !.all = @ \ {t}])
  ELSE [p EXCEPT !.all = @ \union {t}, !.pending = @ \union {t}]
-----------------------------------------------------------------------------
(* GetSortedTxs, which does not take the lock: other calls come between the *)
(* rounds of its loop.                                                      *)

GetSortedTxs ==
  /\ ~making /\ units < MaxUnits
  /\ making' = TRUE /\ list' = <<>> /\ total' = 0 /\ units' = units + 1
  /\ UNCHANGED <<pool, journal, coins, adds>>

Take ==
  /\ making /\ Items(pool) # {}
  /\ LET t == Top(pool) IN
       IF total + Size[t] <= UnitTxSize
       THEN /\ list' = Append(list, t) /\ total' = total + Size[t]
            /\ pool' = promoteTx(Pop(pool), t)
            /\ UNCHANGED making
       ELSE pool' = Pop(pool) /\ making' = FALSE /\ UNCHANGED <<list, total>>
  /\ UNCHANGED <<journal, coins, adds, units>>

Exhausted ==
  /\ making /\ Items(pool) = {}
  /\ making' = FALSE
  /\ UNCHANGED <<pool, journal, coins, list, total, adds, units>>
-----------------------------------------------------------------------------
(* What happens around the pool.                                            *)

Stored(txs) ==
  /\ \A t \in ToSet(txs) : Spends(t) \subseteq coins
  /\ coins' = FoldLeft(LAMBDA c, t : (c \union {Output[t]}) \ Spends(t), coins, txs)

\* The node stores the unit it made of the list.
SaveUnit ==
  /\ ~making /\ list # <<>> /\ Stored(list)
  /\ list' = <<>> /\ total' = 0
  /\ UNCHANGED <<pool, journal, making, adds, units>>

\* The node stores another mediator's unit, whose transactions stay in the pool.
InsertDag(t) ==
  /\ Stored(<<t>>)
  /\ UNCHANGED <<pool, journal, list, total, making, adds, units>>

Rotate ==
  /\ journal' = SetToSeq(pool.pending)
  /\ UNCHANGED <<pool, coins, list, total, making, adds, units>>

\* NewTxPool after the process ended: the journal is loaded, and rotated while
\* nothing is pending.
Restart ==
  /\ pool' = FoldLeft(LAMBDA p, t : Added(p, t, TRUE).pool, Empty, journal)
  /\ journal' = <<>>
  /\ list' = <<>> /\ total' = 0 /\ making' = FALSE
  /\ UNCHANGED <<coins, adds, units>>

Next ==
  \/ \E t \in Txs : AddLocal(t) \/ AddRemotes(t) \/ InsertDag(t)
  \/ GetSortedTxs \/ Take \/ Exhausted
  \/ SaveUnit \/ Rotate \/ Restart

Spec == Init /\ [][Next]_vars
-----------------------------------------------------------------------------
(* Properties                                                               *)

\* The transactions that GetSortedTxs collects for a unit spend every output
\* once: the pool is to refuse what spends an output that is spent in the
\* pool, and a transaction that was listed is not to come back to the heap.
ProposalSpendsOnce ==
  \A i, j \in DOMAIN list : i # j => Spends(list[i]) \intersect Spends(list[j]) = {}
=============================================================================
