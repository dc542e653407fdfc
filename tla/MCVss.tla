-------------------------------- MODULE MCVss --------------------------------
(* Vss for TLC: three active mediators.  Either one of them is on this node,  *)
(* another deals badly and the time may run out, or two are on this node and  *)
(* all goes well.                                                             *)
EXTENDS Vss, TLC

CONSTANTS m1, m2, m3

MCMediators == {m1, m2, m3}
MCNodes == {[local |-> {m1}, bad |-> {m3}, threshold |-> 2, timeout |-> TRUE],
            [local |-> {m1, m2}, bad |-> {}, threshold |-> 3, timeout |-> FALSE]}

=============================================================================
