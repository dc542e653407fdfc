----------------------------- MODULE MCBodySync -----------------------------
EXTENDS BodySync, TLC

CONSTANTS master, other

MCPeers == {master, other}
Env(b, e, l, p, f) == [ancestor |-> 0, batches |-> b, empty |-> e, limits |-> l, pivot |-> p, faults |-> f]
MCEnvironments ==
  {Env({4}, {1, 3}, {1, 3}, 0, {}), Env({2}, {1}, {3}, 0, {"leave"}), Env({2}, {}, {3}, 0, {"empty"}),
   Env({2}, {1}, {3}, 0, {"headers"}), Env({2}, {2}, {3}, 0, {"insert", "cancel"}),
   Env({3}, {1}, {3}, 2, {}), [Env({1, 4}, {1, 2}, {3}, 0, {}) EXCEPT !.ancestor = ExactHeights + 1]}
MCLeaving == {Env({2}, {}, {3}, 0, {"leave"})}
=============================================================================
