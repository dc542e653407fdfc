--------------------------- MODULE MCThresholdSign ---------------------------
(* ThresholdSign for TLC: three active mediators, a unit u1 of mediator m1,   *)
(* which is handed over by production and by BroadcastUnit, and a unit w of   *)
(* a peer's mediator m3, which does not pass validation.                      *)
EXTENDS ThresholdSign, TLC

CONSTANTS m1, m2, m3, u1, w

MCAll == {m1, m2, m3}
MCTwo == {m1, m2}
MCThird == {m3}
MCAuthor == [u \in Units |-> IF u = w THEN m3 ELSE m1]
MCUnit == {u1}
MCOwnAndPeer == {u1, w}
MCHanded == [u \in Units |-> IF u = u1 THEN 2 ELSE 1]
MCShares == {<<u1, m3>>}
MCNone == {}

=============================================================================
