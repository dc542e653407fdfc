------------------------------ MODULE MCTxPool ------------------------------
(* An instance of TxPool: a payment with two inputs, one that spends the    *)
(* first of them, one with an input of its own and one without inputs.      *)
EXTENDS TxPool

CONSTANTS c1, c2, c3, pair, rival, other, call

MCTxs == {pair, rival, other, call}
MCCoins == {c1, c2, c3}
MCInputs == pair :> <<c1, c2>> @@ rival :> <<c1>> @@ other :> <<c3>> @@ call :> <<>>
MCOutput == [t \in MCTxs |-> <<t, 1>>]
MCPriority == pair :> 2 @@ rival :> 1 @@ other :> 3 @@ call :> 4
MCSize == [t \in MCTxs |-> 1]
=============================================================================
