-------------------------- MODULE MCContractStream --------------------------
EXTENDS ContractStream, TLC

CONSTANTS c1, c2, t1, t2

MCCallers == {c1, c2}
MCTxids == {t1, t2}

Env(txOf, types, deploys, called, faults) ==
  [txOf |-> txOf, types |-> types, deploys |-> deploys, called |-> called, faults |-> faults]
Apart == (c1 :> t1) @@ (c2 :> t2)
Retry == (c1 :> t1) @@ (c2 :> t1)

MCEnvironments ==
  {Env(Apart, {"GET_STATE", "PUT_STATE"}, {c1}, {}, {}),
   Env(Retry, {"QUERY_STATE_CLOSE", "DEL_STATE"}, {}, {}, {"dies"}),
   Env(Retry, {"GET_QUERY_RESULT", "INVOKE_CHAINCODE"}, {}, {c2}, {"callFails"}),
   Env(Retry, {"OUTCHAIN_QUERY", "QUERY_STATE_NEXT"}, {c1}, {}, {})}
=============================================================================
