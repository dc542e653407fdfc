----------------------------- MODULE MCUnitStore -----------------------------
(***************************************************************************)
(* UnitStore for TLC: a genesis unit g, its children v1, w1 and u1, and a  *)
(* child u2 of u1.  In u1 a payment spends the genesis output; in u2 a     *)
(* payment spends an output of u1 and another one spends its change.  v1   *)
(* and w1 have a coinbase each, without outputs.                           *)
(***************************************************************************)
EXTENDS UnitStore, TLC

CONSTANTS g, u1, u2, v1, w1, c1, c2, c3, c4, t0, t1, t2, t3, o0, o1, o2, o3, o4

MCUnits == {g, u1, u2, v1, w1}
MCNumber == [u \in MCUnits |-> CASE u = g -> 0 [] u = u2 -> 2 [] OTHER -> 1]
MCParents == [u \in MCUnits |-> CASE u = g -> {} [] u = u2 -> {u1} [] OTHER -> {g}]

MCTransactions == {t0, t1, t2, t3, c1, c2, c3, c4}
MCTxsOf == (g :> <<t0>>) @@ (u1 :> <<c1, t1>>) @@ (u2 :> <<c2, t2, t3>>)
             @@ (v1 :> <<c3>>) @@ (w1 :> <<c4>>)
MCOutputs == {o0, o1, o2, o3, o4}
MCIns == [t \in MCTransactions |-> CASE t = t1 -> {o0} [] t = t2 -> {o1} [] t = t3 -> {o2}
                                     [] OTHER -> {}]
MCOuts == [t \in MCTransactions |-> CASE t = t0 -> {o0} [] t = t1 -> {o1} [] t = t2 -> {o2, o3}
                                      [] t = t3 -> {o4} [] OTHER -> {}]

MCCallers == {"a", "b"}

\* Two goroutines insert siblings, with a crash or a failing write; or one
\* inserts the chain.
MCSiblings == [callers |-> MCCallers, batches |-> {<<v1>>, <<w1>>, <<v1, w1>>}, maxFaults |-> 1]
MCChain == [callers |-> {"a"}, batches |-> {<<u1>>, <<u2>>, <<u1, u2>>}, maxFaults |-> 0]
MCSingles == [MCChain EXCEPT !.batches = {<<u1>>, <<u2>>}]

MCPlans == {MCSiblings, MCChain}
MCSpentPlans == {MCSingles}

=============================================================================
