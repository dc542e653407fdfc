-------------------------- MODULE MCUnitProduction --------------------------
(* UnitProduction for TLC: a node with two of three mediators, and peers     *)
(* that send units of the third.  Either anything may happen up to Horizon,  *)
(* or the node keeps time up to MaxTime, as in TimelySpec.                   *)
EXTENDS UnitProduction, TLC

CONSTANTS
  m1, m2, m3,
  Horizon, MaxHeight    \* bounds on time and heights when anything may happen

VARIABLE timely

MCMediators == {m1, m2, m3}
MCActive == <<m1, m2, m3>>
MCDraw == [t \in Times |-> [i \in 0 .. 2 |-> (5 * t + 3 * i + t * i) % 7]]
MCPeerUnits == {[num |-> 2, time |-> 6, author |-> m3]}
MCLocal == {m1, m2}

MCInit == Init /\ timely \in BOOLEAN /\ (timely \/ now <= Horizon)

\* The node keeps time; the end of the modelled time is not a deadlock.
TimelyStep ==
  /\ timely /\ UNCHANGED timely
  /\ \/ TimelyNext
     \/ now = MaxTime /\ result # "none" /\ saving = {} /\ UNCHANGED vars

AnyStep ==
  /\ ~timely /\ UNCHANGED timely
  /\ Next
  /\ now' <= Horizon /\ \A s \in saving' : s.unit.num <= MaxHeight

MCNext == TimelyStep \/ AnyStep
MCSpec == MCInit /\ [][MCNext]_<<vars, timely>> /\ WF_<<vars, timely>>(TimelyStep)

(* SlotCount for a node that keeps time: CurrentASlot is the head unit's     *)
(* height plus the slots lost, as the comment at global_property.go:55 says. *)
TimelySlotCount == timely => SlotCount

(* NeverStarves for a node that keeps time: if it may produce at first, it   *)
(* produces to the end of the modelled time.                                 *)
TimelyNeverStarves == timely => NeverStarves

=============================================================================
