------------------------------ MODULE MCFetcher ------------------------------
(* Fetcher for TLC: a chain of two units, the first of which may be without   *)
(* transactions.                                                              *)
EXTENDS Fetcher, TLC

CONSTANTS p1, p2, a, b

MCPeers == {p1, p2}
MCTwo == {a, b}
MCNumber == [h \in Hashes |-> IF h = a THEN 1 ELSE 2]
MCParents == [h \in Hashes |-> {x \in Hashes : MCNumber[x] = MCNumber[h] - 1}]

\* Two peers that announce one hash each at a time, or one peer that announces
\* both and repeats itself, with timers that fire and goroutines that end.
MCNets == {[peers |-> {p1, p2}, empty |-> {a}, fair |-> FALSE, hashLimit |-> 1,
            maxUncleDist |-> 1, maxDrift |-> 0, maxCopies |-> 1],
           [peers |-> {p1}, empty |-> {}, fair |-> TRUE, hashLimit |-> 2,
            maxUncleDist |-> 0, maxDrift |-> 1, maxCopies |-> 2]}

=============================================================================
