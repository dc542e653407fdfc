-------------------------- MODULE MediatorSchedule --------------------------
(***************************************************************************)
(* The slot arithmetic and the mediator schedule of the DPoS producer:     *)
(* dag/modules/mediator_schedule.go and dag/modules/global_property.go.    *)
(* Everything here is a function of the dynamic global property (dgp) and  *)
(* of the shuffled list; the state that holds them is in UnitProduction.   *)
(*                                                                         *)
(* Times are whole seconds: the callers round the clock to the second and  *)
(* unit timestamps are seconds.  A slot number is a uint32 and a time an   *)
(* int64; with times below MaxTime neither can wrap.                       *)
(***************************************************************************)
EXTENDS Integers, Sequences, FiniteSets

CONSTANTS
  Mediators,    \* mediator addresses
  NoAddress,    \* the zero address
  Active,       \* the active mediators, in the order of GetActiveMediators
  Interval,     \* ChainParameters.MediatorInterval, in seconds
  GenesisTime,  \* genesis.InitialTimestamp
  MaxTime,      \* bound on every time the model considers
  Draw          \* Draw[t][i]: the scrambled 64-bit number of iteration i of
                \* the shuffle that starts from head time t

aSize == Len(Active)
Times == 0 .. MaxTime

(* validateGenesis accepts only an odd, non-zero number of mediators, a     *)
(* positive interval and a non-zero genesis time that the interval divides. *)
ASSUME ScheduleAssumption ==
  /\ NoAddress \notin Mediators
  /\ Active \in Seq(Mediators)
  /\ aSize >= 1
  /\ \A i, j \in 1 .. aSize : Active[i] = Active[j] => i = j
  /\ Interval \in Nat \ {0}
  /\ MaxTime \in Nat
  /\ GenesisTime \in Times \ {0}
  /\ GenesisTime % Interval = 0
  /\ Draw \in [Times -> [0 .. aSize - 1 -> Nat]]

ActiveSet == {Active[i] : i \in 1 .. aSize}

\* The orders of the active mediators: each of them once.
Orders ==
  {s \in [1 .. aSize -> ActiveSet] :
     /\ \A i, j \in 1 .. aSize : s[i] = s[j] => i = j
     /\ \A m \in ActiveSet : \E i \in 1 .. aSize : s[i] = m}

-----------------------------------------------------------------------------
(* Slots *)

\* Mutant: the first slot is at the head unit itself.
GetSlotTimeEarly(dgp, n) ==
  LET base == IF dgp.HeadUnitNum = 0
              THEN dgp.HeadUnitTime
              ELSE (dgp.HeadUnitTime \div Interval) * Interval
  IN  IF n = 0 THEN 0 ELSE base + (n - 1) * Interval

\* GetSlotTime: the time of the n-th slot after the head unit.
GetSlotTime(dgp, n) ==
  LET base == IF dgp.HeadUnitNum = 0
              THEN dgp.HeadUnitTime
              ELSE (dgp.HeadUnitTime \div Interval) * Interval
  IN  IF n = 0 THEN 0 ELSE base + n * Interval

\* GetSlotAtTime: the slot that a time falls in, 0 if before the first one.
GetSlotAtTime(dgp, when) ==
  LET first == GetSlotTime(dgp, 1)
  IN  IF when < first THEN 0 ELSE ((when - first) \div Interval) + 1

\* GetScheduledMediator: whose turn the n-th slot after the head unit is.
GetScheduledMediator(dgp, shuffled, n) ==
  IF Len(shuffled) = 0
  THEN NoAddress
  ELSE shuffled[((dgp.CurrentASlot + n - 1) % Len(shuffled)) + 1]

\* UpdateMediatorMissedUnits, the number it returns.
MissedUnits(dgp, when) ==
  LET slot == GetSlotAtTime(dgp, when)
  IN  IF slot = 0 THEN 0 ELSE slot - 1

\* Mutant: the producer of the unit is charged too.
ChargedProducer(dgp, shuffled, missed) ==
  IF missed < aSize
  THEN {GetScheduledMediator(dgp, shuffled, i) : i \in 1 .. missed + 1}
  ELSE {}

\* UpdateMediatorMissedUnits, the mediators whose TotalMissed it raises: no
\* one is charged when a whole round or more went by.  A mediator has one slot
\* in fewer than aSize consecutive slots, so it is charged once at most.
Charged(dgp, shuffled, missed) ==
  IF missed < aSize
  THEN {GetScheduledMediator(dgp, shuffled, i) : i \in 1 .. missed}
  ELSE {}

\* Mutant: the unit's own slot is taken off.
UpdateTakesOff(dgp, unit, missed) ==
  [HeadUnitNum  |-> unit.num,
   HeadUnitTime |-> unit.time,
   HeadUnitHash |-> unit,
   CurrentASlot |-> dgp.CurrentASlot + missed - 1]

\* DynamicGlobalProperty.UpdateDynGlobalProp
UpdateDynGlobalProp(dgp, unit, missed) ==
  [HeadUnitNum  |-> unit.num,
   HeadUnitTime |-> unit.time,
   HeadUnitHash |-> unit,
   CurrentASlot |-> dgp.CurrentASlot + missed + 1]

-----------------------------------------------------------------------------
(* The shuffle *)

\* Mutant: the second half of the exchange is missing.
SwapHalf(s, i, j) == [s EXCEPT ![i] = s[j]]

Swap(s, i, j) == [s EXCEPT ![i] = s[j], ![j] = s[i]]

\* The position that iteration i (counted from 1) swaps position i with.
SwapWith(t, i) == i + (Draw[t][i - 1] % (aSize - (i - 1)))

\* The list after each iteration of the loop of UpdateMediatorSchedule.
ShuffleSteps(t) ==
  LET after[i \in 0 .. aSize] ==
        IF i = 0 THEN Active ELSE Swap(after[i - 1], i, SwapWith(t, i))
  IN  after

Shuffle(t) == ShuffleSteps(t)[aSize]

\* MediatorSchedule.UpdateMediatorSchedule: a new order once per round.
UpdateMediatorSchedule(dgp, shuffled) ==
  IF aSize = 0 \/ dgp.HeadUnitNum % aSize # 0
  THEN shuffled
  ELSE Shuffle(dgp.HeadUnitTime)

=============================================================================
