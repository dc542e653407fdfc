------------------------ MODULE UnitProductionProofs ------------------------
(***************************************************************************)
(* What the slot arithmetic and the shuffle of MediatorSchedule compute,   *)
(* for every interval, every list of mediators and every sequence of       *)
(* random numbers, and the safety properties of UnitProduction for every   *)
(* set of mediators, interval, clock and number of crashes.                *)
(***************************************************************************)
EXTENDS UnitProduction, FiniteSetTheorems, TLAPS

\* The provers of a step that names none, in the order they are tried.
USE Zenon, SMT, Z3

-----------------------------------------------------------------------------
(* Natural numbers: an induction principle stated about a set, so that it  *)
(* can be used with a recursively defined function, and division.          *)

(* A non-empty set of naturals has a least element. *)
LEMMA LeastElement ==
  ASSUME NEW T, T \subseteq Nat, T # {}
  PROVE  \E n \in T : \A m \in T : n <= m
<1> DEFINE R == OpToRel(<, Nat)
<1>1. IsWellFoundedOn(R, Nat)
  BY NatLessThanWellFounded, Zenon
<1>2. PICK n \in T : \A m \in T : ~(<<m, n>> \in R)
  BY <1>1, WFMin, Zenon
<1>3. \A m \in T : <<m, n>> \in R <=> m < n
  BY <1>2 DEF OpToRel
<1>4. \A m \in T : ~(m < n)
  BY <1>2, <1>3, Zenon
<1> HIDE DEF R
<1> QED
  BY <1>2, <1>4, SMT, Z3

(* Induction on 0 .. N: a set that holds 0 and is closed under successor    *)
(* below N holds all of it.                                                 *)
LEMMA SetInduction ==
  ASSUME NEW N \in Nat, NEW S, 0 \in S,
         \A k \in 0 .. N - 1 : k \in S => k + 1 \in S
  PROVE  0 .. N \subseteq S
<1> DEFINE T == (0 .. N) \ S
<1> SUFFICES ASSUME T # {} PROVE FALSE
  OBVIOUS
<1>1. T \subseteq Nat
  OBVIOUS
<1>2. PICK n \in T : \A m \in T : n <= m
  BY <1>1, LeastElement, Zenon
<1>3. n # 0 /\ n \in 0 .. N
  BY <1>2
<1>4. n - 1 \in 0 .. N - 1 /\ n - 1 \notin T
  BY <1>2, <1>3, SMT
<1> QED
  BY <1>2, <1>3, <1>4

(* Integer division rounds down. *)
LEMMA DivBounds ==
  ASSUME NEW a \in Nat, NEW b \in Nat \ {0}
  PROVE  /\ a \div b \in Nat
         /\ (a \div b) * b <= a
         /\ a < (a \div b) * b + b
  BY SMT

(* A remainder is smaller than the divisor. *)
LEMMA ModRange ==
  ASSUME NEW a \in Nat, NEW b \in Nat \ {0}
  PROVE  a % b \in 0 .. b - 1
  BY SMT

(* Multiples of b that are less than b apart are in order. *)
LEMMA MultLess ==
  ASSUME NEW a \in Int, NEW c \in Int, NEW b \in Nat \ {0}, a * b < c * b + b
  PROVE  a <= c
  BY SMT

(* Division undoes multiplication. *)
LEMMA DivMult ==
  ASSUME NEW k \in Nat, NEW b \in Nat \ {0}
  PROVE  (k * b) \div b = k
<1>1. k * b \in Nat
  BY SMT
<1>2. /\ (k * b) \div b \in Nat
      /\ ((k * b) \div b) * b <= k * b
      /\ k * b < ((k * b) \div b) * b + b
  BY <1>1, DivBounds
<1>3. k <= (k * b) \div b
  BY <1>2, MultLess
<1>4. (k * b) \div b <= k
  BY <1>2, MultLess, SMT
<1> QED
  BY <1>2, <1>3, <1>4

(* Quotient and remainder are determined by their bounds. *)
LEMMA ModUnique ==
  ASSUME NEW b \in Nat \ {0}, NEW q \in Nat, NEW r \in 0 .. b - 1
  PROVE  (q * b + r) % b = r
<1> DEFINE a == q * b + r
           d == a \div b
<1>1. a \in Nat
  BY SMT
<1>2. d \in Nat /\ d * b <= a /\ a < d * b + b
  BY <1>1, DivBounds
<1>3. q * b < d * b + b /\ d * b < q * b + b
  BY <1>2, SMT
<1>4. q \in Int /\ d \in Int
  BY <1>2
<1>5. d = q
  <2> HIDE DEF d, a
  <2>1. q <= d
    BY <1>3, <1>4, MultLess
  <2>2. d <= q
    BY <1>3, <1>4, MultLess
  <2> QED BY <1>4, <2>1, <2>2
<1>6. a % b = a - d * b
  BY <1>1, SMT
<1> HIDE DEF d
<1> QED BY <1>5, <1>6, SMT

(* Every natural is a quotient times the divisor plus the remainder. *)
LEMMA DivMod ==
  ASSUME NEW a \in Nat, NEW b \in Nat \ {0}
  PROVE  a = (a \div b) * b + (a % b)
BY SMT

-----------------------------------------------------------------------------
(* The schedule *)

\* The body of the recursive function ShuffleSteps(t), up to iteration n.
StepsUpTo(f, t, n) ==
  [i \in 0 .. n |-> IF i = 0 THEN Active ELSE Swap(f[i - 1], i, SwapWith(t, i))]

(* The recursive definition of the shuffle's iterations defines a function. *)
LEMMA StepsExist ==
  ASSUME NEW t, NEW N \in Nat
  PROVE  \E f : f = StepsUpTo(f, t, N)
<1> DEFINE S == {n \in 0 .. N : \E f : f = StepsUpTo(f, t, n)}
<1>1. 0 \in S
  <2> DEFINE g == [i \in 0 .. 0 |-> Active]
  <2>1. g = StepsUpTo(g, t, 0)
    BY DEF StepsUpTo
  <2> QED BY <2>1
<1>2. ASSUME NEW k \in 0 .. N - 1, k \in S PROVE k + 1 \in S
  <2>1. PICK f : f = StepsUpTo(f, t, k)
    BY <1>2
  <2> DEFINE g == [i \in 0 .. k + 1 |->
                     IF i = k + 1 THEN Swap(f[k], k + 1, SwapWith(t, k + 1))
                                  ELSE f[i]]
  <2>2. \A i \in 0 .. k : f[i] = IF i = 0 THEN Active
                                 ELSE Swap(f[i - 1], i, SwapWith(t, i))
    BY <2>1 DEF StepsUpTo
  <2>3. \A i \in 0 .. k + 1 :
           g[i] = IF i = 0 THEN Active ELSE Swap(g[i - 1], i, SwapWith(t, i))
    <3> TAKE i \in 0 .. k + 1
    <3>1. CASE i = k + 1
      <4>1. i # 0 /\ i - 1 = k /\ k \in 0 .. k + 1 /\ k # k + 1
        BY <3>1
      <4>2. g[i - 1] = f[k]
        BY <4>1
      <4> QED BY <3>1, <4>1, <4>2
    <3>2. CASE i # k + 1
      <4>1. i \in 0 .. k /\ (i # 0 => i - 1 \in 0 .. k + 1 /\ i - 1 # k + 1)
        BY <3>2
      <4>2. g[i] = f[i] /\ (i # 0 => g[i - 1] = f[i - 1])
        BY <4>1, <3>2
      <4> HIDE DEF g
      <4> QED BY <4>1, <4>2, <2>2
    <3> QED BY <3>1, <3>2
  <2>4. g = StepsUpTo(g, t, k + 1)
    <3>1. g = [i \in 0 .. k + 1 |-> g[i]]
      OBVIOUS
    <3> HIDE DEF g
    <3> QED BY <3>1, <2>3, Zenon DEF StepsUpTo
  <2>5. k + 1 \in 0 .. N
    OBVIOUS
  <2> QED BY <2>4, <2>5
<1> HIDE DEF S
<1>3. 0 .. N \subseteq S
  BY <1>1, <1>2, SetInduction
<1> QED BY <1>3 DEF S

(* ShuffleSteps satisfies its recursive equation. *)
LEMMA StepsEquation ==
  ASSUME NEW t
  PROVE  ShuffleSteps(t) = StepsUpTo(ShuffleSteps(t), t, aSize)
<1>1. aSize \in Nat
  BY ScheduleAssumption, SMT, Z3 DEF aSize
<1>2. \E f : f = StepsUpTo(f, t, aSize)
  BY <1>1, StepsExist
<1> QED BY <1>2, Zenon DEF ShuffleSteps, StepsUpTo

(* The constants have the types that the slot arithmetic needs. *)
LEMMA ConstantTypes ==
  /\ aSize \in Nat \ {0}
  /\ Interval \in Nat \ {0}
  /\ GenesisTime \in Nat
  /\ Times \subseteq Nat
BY ScheduleAssumption, SMT, Z3 DEF aSize, Times

(* The list that the shuffle starts from is an order of the mediators. *)
LEMMA ActiveIsOrder == Active \in Orders
<1>1. Active \in [1 .. aSize -> ActiveSet]
  BY ScheduleAssumption, SMT, Z3 DEF ActiveSet, aSize
<1> QED BY <1>1, ScheduleAssumption DEF Orders, ActiveSet

(* Exchanging two positions leaves an order an order. *)
LEMMA SwapKeepsOrder ==
  ASSUME NEW s \in Orders, NEW i \in 1 .. aSize, NEW j \in 1 .. aSize
  PROVE  Swap(s, i, j) \in Orders
<1> DEFINE w == Swap(s, i, j)
<1>1. w \in [1 .. aSize -> ActiveSet]
  BY DEF Orders, Swap
<1>2. \A k \in 1 .. aSize :
         w[k] = IF k = j THEN s[i] ELSE IF k = i THEN s[j] ELSE s[k]
  BY DEF Orders, Swap
<1> HIDE DEF w
<1>3. \A k, l \in 1 .. aSize : w[k] = w[l] => k = l
  BY <1>2, SMT, Zenon DEF Orders
<1>4. ASSUME NEW m \in ActiveSet PROVE \E k \in 1 .. aSize : w[k] = m
  <2>1. PICK k \in 1 .. aSize : s[k] = m
    BY DEF Orders
  <2>2. CASE k = i
    BY <2>1, <2>2, <1>2
  <2>3. CASE k = j
    BY <2>1, <2>3, <1>2
  <2>4. CASE k # i /\ k # j
    BY <2>1, <2>4, <1>2
  <2> QED BY <2>2, <2>3, <2>4
<1> QED BY <1>1, <1>3, <1>4 DEF Orders, w

(* The random position stays within the part of the list not yet drawn, so   *)
(* the loop of UpdateMediatorSchedule never indexes outside of the list.     *)
LEMMA SwapWithRange ==
  ASSUME NEW t \in Times, NEW i \in 1 .. aSize
  PROVE  SwapWith(t, i) \in i .. aSize
<1>1. aSize - (i - 1) \in Nat \ {0}
  BY ConstantTypes
<1>2. Draw[t][i - 1] \in Nat
  <2>1. i - 1 \in 0 .. aSize - 1
    BY ConstantTypes
  <2>2. Draw[t] \in [0 .. aSize - 1 -> Nat]
    BY ScheduleAssumption
  <2> QED BY <2>1, <2>2, Zenon
<1>3. Draw[t][i - 1] % (aSize - (i - 1)) \in 0 .. (aSize - (i - 1)) - 1
  BY <1>1, <1>2, ModRange, Zenon
<1> DEFINE r == Draw[t][i - 1] % (aSize - (i - 1))
<1> HIDE DEF r
<1>4. i + r \in i .. aSize
  BY <1>3, ConstantTypes DEF r
<1> QED BY <1>4 DEF SwapWith, r

(* UpdateMediatorSchedule's loop yields each active mediator exactly once,    *)
(* whatever the random numbers are.                                           *)
THEOREM ShuffleIsOrder == \A t \in Times : Shuffle(t) \in Orders
<1> SUFFICES ASSUME NEW t \in Times PROVE Shuffle(t) \in Orders
  OBVIOUS
<1> DEFINE f == ShuffleSteps(t)
           S == {n \in 0 .. aSize : f[n] \in Orders}
<1>1. \A n \in 0 .. aSize :
         f[n] = IF n = 0 THEN Active ELSE Swap(f[n - 1], n, SwapWith(t, n))
  BY StepsEquation, Zenon DEF StepsUpTo
<1> HIDE DEF f
<1>2. 0 \in S
  BY <1>1, ActiveIsOrder, ConstantTypes
<1>3. ASSUME NEW k \in 0 .. aSize - 1, k \in S PROVE k + 1 \in S
  <2>1. k + 1 \in 1 .. aSize /\ k + 1 \in 0 .. aSize /\ k + 1 # 0 /\ (k + 1) - 1 = k
    BY ConstantTypes
  <2>2. f[k + 1] = Swap(f[k], k + 1, SwapWith(t, k + 1))
    BY <1>1, <2>1
  <2>3. SwapWith(t, k + 1) \in 1 .. aSize
    BY <2>1, SwapWithRange
  <2> QED BY <1>3, <2>1, <2>2, <2>3, SwapKeepsOrder
<1>4. aSize \in S
  <2> HIDE DEF S
  <2> QED BY <1>2, <1>3, SetInduction, ConstantTypes, SMT, Z3
<1> QED BY <1>4 DEF Shuffle, f

-----------------------------------------------------------------------------
(* Slots *)

\* What the slot functions need to know of a dynamic global property.
SlotState(d) == d.HeadUnitNum \in Nat /\ d.HeadUnitTime \in Nat /\ d.CurrentASlot \in Nat

\* The time that GetSlotTime counts from.
SlotBase(d) == IF d.HeadUnitNum = 0 THEN d.HeadUnitTime
               ELSE (d.HeadUnitTime \div Interval) * Interval

(* GetSlotTime counts intervals from a time less than one interval before    *)
(* the head unit.                                                             *)
LEMMA SlotTimeForm ==
  ASSUME NEW d, SlotState(d)
  PROVE  /\ SlotBase(d) \in Nat
         /\ SlotBase(d) <= d.HeadUnitTime
         /\ d.HeadUnitTime < SlotBase(d) + Interval
         /\ \A n \in Nat \ {0} : GetSlotTime(d, n) = SlotBase(d) + n * Interval
<1>1. /\ (d.HeadUnitTime \div Interval) \in Nat
      /\ (d.HeadUnitTime \div Interval) * Interval <= d.HeadUnitTime
      /\ d.HeadUnitTime < (d.HeadUnitTime \div Interval) * Interval + Interval
  BY ConstantTypes, DivBounds, Zenon DEF SlotState
<1>2. (d.HeadUnitTime \div Interval) * Interval \in Nat
  BY <1>1, ConstantTypes
<1>3. /\ SlotBase(d) \in Nat
      /\ SlotBase(d) <= d.HeadUnitTime
      /\ d.HeadUnitTime < SlotBase(d) + Interval
  BY <1>1, <1>2, ConstantTypes DEF SlotBase, SlotState
<1>4. \A n \in Nat \ {0} : GetSlotTime(d, n) = SlotBase(d) + n * Interval
  BY DEF GetSlotTime, SlotBase
<1> QED BY <1>3, <1>4

(* GetSlotAtTime returns the greatest N with GetSlotTime(N) <= when, and 0    *)
(* when there is none (the function's own comment).                           *)
THEOREM SlotAtTimeIsGreatest ==
  ASSUME NEW d, SlotState(d), NEW when \in Nat
  PROVE  /\ GetSlotAtTime(d, when) \in Nat
         /\ GetSlotAtTime(d, when) > 0 => GetSlotTime(d, GetSlotAtTime(d, when)) <= when
         /\ when < GetSlotTime(d, GetSlotAtTime(d, when) + 1)
<1> DEFINE base == SlotBase(d)
           first == base + Interval
           q == (when - first) \div Interval
<1>1. base \in Nat
  BY SlotTimeForm
<1>2. GetSlotTime(d, 1) = first
  BY SlotTimeForm, ConstantTypes
<1>3. \A n \in Nat \ {0} : GetSlotTime(d, n) = base + n * Interval
  BY SlotTimeForm
<1> HIDE DEF base
<1>4. CASE when < first
  <2>1. GetSlotAtTime(d, when) = 0
    BY <1>2, <1>4 DEF GetSlotAtTime
  <2>2. GetSlotTime(d, 0 + 1) = first
    BY <1>2
  <2> QED BY <1>4, <2>1, <2>2
<1>5. CASE ~(when < first)
  <2>1. when - first \in Nat
    BY <1>1, <1>5, ConstantTypes
  <2>2. q \in Nat /\ q * Interval <= when - first /\ when - first < q * Interval + Interval
    BY <2>1, ConstantTypes, DivBounds
  <2>3. GetSlotAtTime(d, when) = q + 1
    BY <1>2, <1>5 DEF GetSlotAtTime
  <2> HIDE DEF q
  <2>4. q + 1 \in Nat \ {0} /\ (q + 1) + 1 \in Nat \ {0}
    BY <2>2
  <2>5. /\ GetSlotTime(d, q + 1) = base + (q + 1) * Interval
        /\ GetSlotTime(d, (q + 1) + 1) = base + ((q + 1) + 1) * Interval
    BY <1>3, <2>4
  <2>6. /\ (q + 1) * Interval = q * Interval + Interval
        /\ ((q + 1) + 1) * Interval = q * Interval + Interval + Interval
    BY <2>2, ConstantTypes
  <2>7. q * Interval \in Int /\ Interval \in Int
    BY <2>2, ConstantTypes
  <2> QED BY <1>1, <2>2, <2>3, <2>4, <2>5, <2>6, <2>7
<1> QED BY <1>4, <1>5

(* A time that falls in a slot is after the head unit.                        *)
LEMMA SlotIsLater ==
  ASSUME NEW d, SlotState(d), NEW when \in Nat, GetSlotAtTime(d, when) > 0
  PROVE  when > d.HeadUnitTime
<1>1. GetSlotTime(d, 1) = SlotBase(d) + Interval
  BY SlotTimeForm, ConstantTypes
<1>2. ~(when < GetSlotTime(d, 1))
  BY DEF GetSlotAtTime
<1>3. d.HeadUnitTime < SlotBase(d) + Interval /\ SlotBase(d) \in Nat
  BY SlotTimeForm
<1> QED BY <1>1, <1>2, <1>3, ConstantTypes DEF SlotState

(* Counted from an aligned head unit the slots are whole intervals away.      *)
LEMMA AlignedSlotTime ==
  ASSUME NEW d, SlotState(d), NEW k \in Nat, d.HeadUnitTime = k * Interval,
         NEW n \in Nat \ {0}
  PROVE  GetSlotTime(d, n) = d.HeadUnitTime + n * Interval
<1>1. (d.HeadUnitTime \div Interval) * Interval = d.HeadUnitTime
  BY DivMult, ConstantTypes
<1> QED BY <1>1, SlotTimeForm DEF SlotBase

(* In aSize consecutive slots every active mediator has exactly one: the      *)
(* index of GetScheduledMediator runs once through an order.                  *)
THEOREM ScheduledOncePerRound ==
  ASSUME NEW d, SlotState(d), NEW s \in Orders, NEW m \in ActiveSet
  PROVE  \E n \in 1 .. aSize :
           /\ GetScheduledMediator(d, s, n) = m
           /\ \A k \in 1 .. aSize : GetScheduledMediator(d, s, k) = m => k = n
<1> DEFINE c == d.CurrentASlot
           q == c \div aSize
           r == c % aSize
           Index(n) == ((c + n - 1) % aSize) + 1
<1>1. c \in Nat /\ q \in Nat /\ r \in 0 .. aSize - 1 /\ c = q * aSize + r
  BY ConstantTypes, DivBounds, ModRange, DivMod, Zenon DEF SlotState
<1>2. \A n \in 1 .. aSize : GetScheduledMediator(d, s, n) = s[Index(n)]
  <2>1. Len(s) = aSize
    BY ConstantTypes, SMT, Z3 DEF Orders
  <2> QED BY <2>1, ConstantTypes DEF GetScheduledMediator
<1>3. ASSUME NEW n \in 1 .. aSize
      PROVE  Index(n) = IF r + n <= aSize THEN r + n ELSE r + n - aSize
  <2> HIDE DEF c, q, r
  <2>1. CASE r + n <= aSize
    <3>1. r + n - 1 \in 0 .. aSize - 1 /\ c + n - 1 = q * aSize + (r + n - 1)
      BY <1>1, <2>1, ConstantTypes
    <3>2. (c + n - 1) % aSize = r + n - 1
      BY <1>1, <3>1, ModUnique, ConstantTypes, SMT, Z3
    <3> QED BY <1>1, <2>1, <3>2, ConstantTypes
  <2>2. CASE ~(r + n <= aSize)
    <3>1. r + n - 1 - aSize \in 0 .. aSize - 1
      BY <1>1, <2>2, ConstantTypes
    <3>2. c + n - 1 = (q + 1) * aSize + (r + n - 1 - aSize)
      BY <1>1, ConstantTypes
    <3>3. ((q + 1) * aSize + (r + n - 1 - aSize)) % aSize = r + n - 1 - aSize
      <4> DEFINE p == q + 1
                 x == r + n - 1 - aSize
      <4>1. p \in Nat /\ x \in 0 .. aSize - 1
        BY <1>1, <3>1
      <4> HIDE DEF p, x
      <4>2. (p * aSize + x) % aSize = x
        BY <4>1, ModUnique, ConstantTypes
      <4> QED BY <4>2 DEF p, x
    <3> QED BY <1>1, <2>2, <3>2, <3>3, ConstantTypes
  <2> QED BY <2>1, <2>2
<1> HIDE DEF c, q, r, Index
<1>4. PICK i \in 1 .. aSize : s[i] = m
  BY DEF Orders
<1>5. PICK n \in 1 .. aSize : Index(n) = i
  <2>1. CASE i > r
    <3>1. i - r \in 1 .. aSize /\ r + (i - r) <= aSize /\ r + (i - r) = i
      BY <1>1, <2>1, ConstantTypes
    <3> QED BY <1>3, <3>1
  <2>2. CASE ~(i > r)
    <3>1. /\ i - r + aSize \in 1 .. aSize
          /\ ~(r + (i - r + aSize) <= aSize)
          /\ r + (i - r + aSize) - aSize = i
      BY <1>1, <2>2, ConstantTypes
    <3> QED BY <1>3, <3>1
  <2> QED BY <2>1, <2>2
<1>6. ASSUME NEW k \in 1 .. aSize, s[Index(k)] = m PROVE k = n
  <2>1. Index(k) \in 1 .. aSize
    BY <1>1, <1>3, ConstantTypes
  <2>2. Index(k) = i
    BY <1>4, <1>6, <2>1 DEF Orders
  <2> QED BY <1>1, <1>3, <1>5, <2>2, ConstantTypes
<1> QED BY <1>2, <1>4, <1>5, <1>6

-----------------------------------------------------------------------------
(* The production of units *)

\* No released unit is later than the head unit.
ReleasedByHead == \A u \in released : u.time <= dgp.HeadUnitTime

(* The inductive invariant.  OneUnitPerSlot alone is not inductive: that a   *)
(* new unit is later than all released ones takes ReleasedByHead, and that   *)
(* it is later than the head takes the slot arithmetic.                      *)
IInv ==
  /\ TypeOK
  /\ shuffled \in Orders
  /\ AbsoluteSlot
  /\ ReleasedByHead
  /\ OneUnitPerSlot

(* A type-correct property is one the slot functions are defined for. *)
LEMMA DgpIsSlotState == TypeOK => SlotState(dgp)
BY ScheduleAssumption, ProductionAssumption, SMT, Z3 DEF TypeOK, SlotState, Times

(* The genesis unit is a multiple of the interval away from time zero. *)
LEMMA GenesisAligned == \E g \in Nat : GenesisTime = g * Interval
<1>1. GenesisTime = (GenesisTime \div Interval) * Interval + (GenesisTime % Interval)
  BY ConstantTypes, DivMod
<1>2. GenesisTime \div Interval \in Nat
  BY ConstantTypes, DivBounds
<1>3. GenesisTime % Interval = 0
  BY ScheduleAssumption
<1> DEFINE g == GenesisTime \div Interval
<1> HIDE DEF g
<1>4. g \in Nat /\ GenesisTime = g * Interval + 0
  BY <1>1, <1>2, <1>3 DEF g
<1>5. GenesisTime = g * Interval
  BY <1>4, ConstantTypes
<1> QED BY <1>4, <1>5

(* The head unit's time is a multiple of the interval. *)
LEMMA HeadAligned ==
  ASSUME TypeOK, AbsoluteSlot
  PROVE  \E k \in Nat : dgp.HeadUnitTime = k * Interval
<1>1. PICK g \in Nat : GenesisTime = g * Interval
  BY GenesisAligned
<1>2. dgp.CurrentASlot \in Nat
  BY DEF TypeOK
<1>3. dgp.HeadUnitTime = g * Interval + dgp.CurrentASlot * Interval
  BY <1>1 DEF AbsoluteSlot
<1>4. g * Interval + dgp.CurrentASlot * Interval = (g + dgp.CurrentASlot) * Interval
  BY <1>2, ConstantTypes
<1> QED BY <1>2, <1>3, <1>4

(* What a unit that GenerateUnit is asked for looks like: it is later than    *)
(* the head, and the slots up to it are those missed and its own.             *)
LEMMA PendingUnitFacts ==
  ASSUME IInv, Producing
  PROVE  /\ PendingUnit \in Units
         /\ PendingUnit.time = now
         /\ PendingUnit.num \in 0 .. MaxNum
         /\ now > dgp.HeadUnitTime
         /\ MissedUnits(dgp, now) \in Nat
         /\ now = GenesisTime + (dgp.CurrentASlot + MissedUnits(dgp, now) + 1) * Interval
<1>1. SlotState(dgp)
  BY DgpIsSlotState DEF IInv
<1>2. now \in Nat /\ now \in Times
  BY ConstantTypes DEF IInv, TypeOK
<1>3. Slot \in Nat \ {0}
  BY <1>1, <1>2, SlotAtTimeIsGreatest DEF Producing, Due, Slot
<1>4. GetSlotTime(dgp, Slot) = now
  BY DEF Producing, OnTime
<1>5. now > dgp.HeadUnitTime
  BY <1>1, <1>2, <1>3, SlotIsLater DEF Slot
<1>6. MissedUnits(dgp, now) = Slot - 1
  BY <1>3 DEF MissedUnits, Slot
<1>7. now = dgp.HeadUnitTime + Slot * Interval
  <2>1. PICK k \in Nat : dgp.HeadUnitTime = k * Interval
    BY HeadAligned DEF IInv
  <2>2. GetSlotTime(dgp, Slot) = dgp.HeadUnitTime + Slot * Interval
    BY <1>1, <1>3, <2>1, AlignedSlotTime
  <2> QED BY <1>4, <2>2
<1>8. now = GenesisTime + (dgp.CurrentASlot + Slot) * Interval
  <2>1. dgp.CurrentASlot \in Nat /\ dgp.HeadUnitTime \in Nat
    BY <1>1 DEF SlotState
  <2>2. dgp.HeadUnitTime = GenesisTime + dgp.CurrentASlot * Interval
    BY DEF IInv, AbsoluteSlot
  <2>3. now = GenesisTime + dgp.CurrentASlot * Interval + Slot * Interval
    BY <1>7, <2>2
  <2> DEFINE a == dgp.CurrentASlot
             n == Slot
  <2>4. a \in Nat /\ n \in Nat
    BY <1>3, <2>1
  <2> HIDE DEF a, n
  <2>5. a * Interval + n * Interval = (a + n) * Interval
    BY <2>4, ConstantTypes
  <2>6. GenesisTime + a * Interval + n * Interval = GenesisTime + (a + n) * Interval
    BY <2>4, <2>5, ConstantTypes
  <2> QED BY <2>3, <2>6 DEF a, n
<1>9. (dgp.CurrentASlot + MissedUnits(dgp, now)) + 1 = dgp.CurrentASlot + Slot
  BY <1>1, <1>3, <1>6 DEF SlotState
<1>10. PendingUnit \in Units /\ PendingUnit.time = now /\ PendingUnit.num \in 0 .. MaxNum
  <2>1. Scheduled \in Mediators
    BY ProductionAssumption DEF Producing
  <2>2. memUnit.num \in Nat /\ head.num \in Nat
    BY ProductionAssumption, SMT, Z3 DEF IInv, TypeOK, Units, Genesis
  <2>3. PendingUnit.num \in 1 .. MaxNum
    BY <2>2, ProductionAssumption DEF Producing, PendingUnit
  <2> QED BY <1>2, <1>4, <2>1, <2>3, ProductionAssumption, SMT, Z3 DEF PendingUnit, Units
<1> QED BY <1>3, <1>5, <1>6, <1>8, <1>9, <1>10

(* ApplyUnit on a pending unit keeps the invariant's part about the property  *)
(* database, whichever of its writes reached the disk, and when the dynamic   *)
(* property is written its time and its slot grow.                            *)
LEMMA ApplyUnitFacts ==
  ASSUME IInv, Producing, NEW done \in {"missed", "dgp", "all"},
         ApplyUnit(PendingUnit, done)
  PROVE  /\ dgp' \in [HeadUnitNum : 0 .. MaxNum, HeadUnitTime : Times,
                       HeadUnitHash : Units \union {Genesis}, CurrentASlot : Nat]
         /\ shuffled' \in Orders
         /\ totalMissed' \in [ActiveSet -> Nat]
         /\ lostSlots' \in Nat
         /\ AbsoluteSlot'
         /\ IF done = "missed"
            THEN dgp' = dgp
            ELSE /\ dgp'.HeadUnitTime = now
                 /\ dgp'.HeadUnitTime > dgp.HeadUnitTime
                 /\ dgp'.CurrentASlot > dgp.CurrentASlot
<1> DEFINE missed == MissedUnits(dgp, PendingUnit.time)
           newDgp == UpdateDynGlobalProp(dgp, PendingUnit, missed)
<1>1. /\ PendingUnit \in Units
      /\ PendingUnit.time = now
      /\ PendingUnit.num \in 0 .. MaxNum
      /\ now > dgp.HeadUnitTime
      /\ missed \in Nat
      /\ now = GenesisTime + (dgp.CurrentASlot + missed + 1) * Interval
  BY PendingUnitFacts
<1>2. now \in Times /\ dgp.CurrentASlot \in Nat /\ lostSlots \in Nat
  BY DEF IInv, TypeOK
<1>3. /\ newDgp \in [HeadUnitNum : 0 .. MaxNum, HeadUnitTime : Times,
                     HeadUnitHash : Units \union {Genesis}, CurrentASlot : Nat]
      /\ newDgp.HeadUnitTime = now
      /\ newDgp.CurrentASlot = dgp.CurrentASlot + missed + 1
  <2> HIDE DEF missed
  <2> QED BY <1>1, <1>2 DEF UpdateDynGlobalProp
<1>4. totalMissed' \in [ActiveSet -> Nat]
  BY SMT, Z3 DEF IInv, TypeOK, ApplyUnit
<1>5. CASE done = "missed"
  <2>1. dgp' = dgp /\ lostSlots' = lostSlots /\ shuffled' = shuffled
    BY <1>5 DEF ApplyUnit
  <2> QED BY <1>4, <1>5, <2>1 DEF IInv, TypeOK, AbsoluteSlot
<1>6. CASE done # "missed"
  <2>1. dgp' = newDgp /\ lostSlots' = lostSlots + missed
    BY <1>6 DEF ApplyUnit
  <2>2. shuffled' \in {shuffled, UpdateMediatorSchedule(newDgp, shuffled)}
    BY DEF ApplyUnit
  <2>3. UpdateMediatorSchedule(newDgp, shuffled) \in Orders
    <3> HIDE DEF newDgp
    <3> QED BY <1>2, <1>3, ShuffleIsOrder DEF UpdateMediatorSchedule, IInv
  <2>4. shuffled' \in Orders
    BY <2>2, <2>3 DEF IInv
  <2> HIDE DEF newDgp, missed
  <2>5. lostSlots' \in Nat
    BY <1>1, <1>2, <2>1
  <2>6. AbsoluteSlot'
    BY <1>1, <1>3, <2>1 DEF AbsoluteSlot
  <2>7. dgp'.CurrentASlot > dgp.CurrentASlot
    BY <1>1, <1>2, <1>3, <2>1, SMT, Z3
  <2> QED BY <1>1, <1>3, <1>4, <1>6, <2>1, <2>4, <2>5, <2>6, <2>7
<1> QED BY <1>5, <1>6

(* An order of the mediators is a sequence of them. *)
LEMMA OrderIsSeq == Orders \subseteq Seq(ActiveSet)
BY ConstantTypes, SMT, Z3 DEF Orders

(* The initial state satisfies the invariant. *)
LEMMA InitInv == Init => IInv
<1> SUFFICES ASSUME Init PROVE IInv
  OBVIOUS
<1>1. shuffled \in Orders
  BY ShuffleIsOrder, ScheduleAssumption DEF Init
<1>2. TypeOK
  <2>1. shuffled \in Seq(ActiveSet)
    BY <1>1, OrderIsSeq
  <2>2. dgp \in [HeadUnitNum : 0 .. MaxNum, HeadUnitTime : Times,
                 HeadUnitHash : Units \union {Genesis}, CurrentASlot : Nat]
    BY ScheduleAssumption, ProductionAssumption, SMT, Z3 DEF Init
  <2> QED BY <2>1, <2>2, ProductionAssumption, SMT, Z3 DEF Init, TypeOK, Conditions
<1>3. AbsoluteSlot
  BY ConstantTypes DEF Init, AbsoluteSlot
<1> QED BY <1>1, <1>2, <1>3 DEF Init, IInv, ReleasedByHead, OneUnitPerSlot

(* The parts of the invariant that only ApplyUnit, Produce and Restart can     *)
(* disturb.                                                                   *)
LEMMA FrameInv ==
  ASSUME IInv, UNCHANGED <<propVars, released>>, TypeOK'
  PROVE  IInv'
BY DEF IInv, propVars, AbsoluteSlot, ReleasedByHead, OneUnitPerSlot

(* Every step of the node keeps the invariant. *)
LEMMA NextInv == IInv /\ [Next]_vars => IInv'
<1> SUFFICES ASSUME IInv, [Next]_vars PROVE IInv'
  OBVIOUS
<1> USE DEF propVars, diskVars, loopVars
<1>0. TypeOK
  BY DEF IInv
<1>1. ASSUME NEW t \in Times, Clock(t) PROVE IInv'
  <2>1. TypeOK'
    BY <1>0, <1>1 DEF Clock, TypeOK, Conditions
  <2> QED BY <1>1, <2>1, FrameInv DEF Clock
<1>2. ASSUME NEW c \in Conditions, Return(c) PROVE IInv'
  <2>1. TypeOK'
    BY <1>0, <1>2 DEF Return, TypeOK
  <2> QED BY <1>2, <2>1, FrameInv DEF Return
<1>3. CASE Produce
  <2>1. Producing /\ ApplyUnit(PendingUnit, "all")
    BY <1>3 DEF Produce
  <2>2. /\ PendingUnit \in Units
        /\ PendingUnit.time = now
        /\ now > dgp.HeadUnitTime
    BY <2>1, PendingUnitFacts
  <2>3. /\ dgp' \in [HeadUnitNum : 0 .. MaxNum, HeadUnitTime : Times,
                      HeadUnitHash : Units \union {Genesis}, CurrentASlot : Nat]
        /\ shuffled' \in Orders
        /\ totalMissed' \in [ActiveSet -> Nat]
        /\ lostSlots' \in Nat
        /\ AbsoluteSlot'
        /\ dgp'.HeadUnitTime = now
        /\ dgp'.HeadUnitTime > dgp.HeadUnitTime
    BY <2>1, ApplyUnitFacts
  <2>4. released' = released \union {PendingUnit}
    BY <1>3 DEF Produce
  <2>5. TypeOK'
    <3>1. shuffled' \in Seq(ActiveSet)
      BY <2>3, OrderIsSeq
    <3>2. saving' \subseteq [unit : Units, by : {"local", "peer"}, stage : Stages]
      BY <1>0, <1>3, <2>2, SMT, Z3 DEF Produce, TypeOK, Stages
    <3>3. released' \subseteq Units
      BY <1>0, <2>2, <2>4 DEF TypeOK
    <3> QED BY <1>0, <1>3, <2>3, <3>1, <3>2, <3>3 DEF Produce, TypeOK, Conditions
  <2>6. ReleasedByHead'
    <3>1. \A u \in released : u.time \in Nat /\ u.time <= dgp.HeadUnitTime
      BY <1>0, ConstantTypes, Zenon DEF IInv, ReleasedByHead, TypeOK, Units
    <3>2. dgp.HeadUnitTime \in Nat /\ now \in Nat
      BY <1>0, ConstantTypes, Zenon DEF TypeOK
    <3> QED BY <2>2, <2>3, <2>4, <3>1, <3>2, SMT, Z3 DEF ReleasedByHead
  <2>7. OneUnitPerSlot'
    <3>1. \A u \in released : u.time # PendingUnit.time
      <4>1. \A u \in released : u.time \in Nat /\ u.time <= dgp.HeadUnitTime
        BY <1>0, ConstantTypes, Zenon DEF IInv, ReleasedByHead, TypeOK, Units
      <4>2. dgp.HeadUnitTime \in Nat /\ now \in Nat
        BY <1>0, ConstantTypes, Zenon DEF TypeOK
      <4> QED BY <2>2, <4>1, <4>2
    <3> QED BY <2>4, <3>1 DEF IInv, OneUnitPerSlot
  <2> QED BY <2>3, <2>5, <2>6, <2>7 DEF IInv
<1>4. ASSUME NEW u \in PeerUnits \union released, ReceiveUnit(u) PROVE IInv'
  <2>1. u \in Units
    BY <1>0, ProductionAssumption DEF TypeOK
  <2>2. saving' \subseteq [unit : Units, by : {"local", "peer"}, stage : Stages]
    BY <1>0, <1>4, <2>1, SMT, Z3 DEF ReceiveUnit, TypeOK, Stages
  <2>3. TypeOK'
    BY <1>0, <1>4, <2>2 DEF ReceiveUnit, TypeOK
  <2> QED BY <1>4, <2>3, FrameInv DEF ReceiveUnit
<1>5. ASSUME NEW s \in saving,
             CheckExists(s) \/ WriteUnit(s) \/ WriteFails(s) \/ PutHead(s)
      PROVE  IInv'
  <2>1. /\ s \in [unit : Units, by : {"local", "peer"}, stage : Stages]
        /\ s.unit \in Units
        /\ [s EXCEPT !.stage = "write"] \in [unit : Units, by : {"local", "peer"}, stage : Stages]
        /\ [s EXCEPT !.stage = "head"] \in [unit : Units, by : {"local", "peer"}, stage : Stages]
    BY <1>0 DEF TypeOK, Stages
  <2>2. TypeOK'
    <3>1. CASE CheckExists(s)
      BY <1>0, <2>1, <3>1, Zenon DEF CheckExists, TypeOK
    <3>2. CASE WriteUnit(s)
      BY <1>0, <2>1, <3>2, Zenon DEF WriteUnit, TypeOK
    <3>3. CASE WriteFails(s)
      BY <1>0, <3>3 DEF WriteFails, TypeOK
    <3>4. CASE PutHead(s)
      BY <1>0, <2>1, <3>4 DEF PutHead, TypeOK
    <3> QED BY <1>5, <3>1, <3>2, <3>3, <3>4
  <2>3. UNCHANGED <<propVars, released>>
    BY <1>5 DEF CheckExists, WriteUnit, WriteFails, PutHead
  <2> QED BY <2>2, <2>3, FrameInv
<1>6. CASE Crash
  <2>1. TypeOK'
    <3>1. crashes' \in 0 .. MaxCrashes
      BY <1>0, <1>6, ProductionAssumption, SMT, Z3 DEF Crash, Die, TypeOK
    <3> QED BY <1>0, <1>6, <3>1, Zenon DEF Crash, Die, TypeOK, Conditions
  <2> QED BY <1>6, <2>1, FrameInv DEF Crash, Die
<1>7. ASSUME NEW done \in {"missed", "dgp", "all"}, CrashProducing(done) PROVE IInv'
  <2>1. Producing /\ ApplyUnit(PendingUnit, done) /\ Die
    BY <1>7 DEF CrashProducing
  <2>2. now > dgp.HeadUnitTime
    BY <2>1, PendingUnitFacts
  <2>3. /\ dgp' \in [HeadUnitNum : 0 .. MaxNum, HeadUnitTime : Times,
                      HeadUnitHash : Units \union {Genesis}, CurrentASlot : Nat]
        /\ shuffled' \in Orders
        /\ totalMissed' \in [ActiveSet -> Nat]
        /\ lostSlots' \in Nat
        /\ AbsoluteSlot'
        /\ dgp' = dgp \/ dgp'.HeadUnitTime > dgp.HeadUnitTime
    BY <2>1, ApplyUnitFacts
  <2>4. TypeOK'
    <3>1. shuffled' \in Seq(ActiveSet)
      BY <2>3, OrderIsSeq
    <3>2. crashes' \in 0 .. MaxCrashes
      BY <1>0, <2>1, ProductionAssumption, SMT, Z3 DEF Die, TypeOK
    <3> QED BY <1>0, <2>1, <2>3, <3>1, <3>2, Zenon DEF Die, TypeOK, Conditions
  <2>5. released' = released
    BY <2>1 DEF Die
  <2>6. ReleasedByHead'
    <3>1. \A u \in released : u.time \in Nat /\ u.time <= dgp.HeadUnitTime
      BY <1>0, ConstantTypes, Zenon DEF IInv, ReleasedByHead, TypeOK, Units
    <3>2. dgp.HeadUnitTime \in Nat /\ dgp'.HeadUnitTime \in Nat
      BY <1>0, <2>3, ConstantTypes, Zenon DEF TypeOK
    <3> QED BY <2>3, <2>5, <3>1, <3>2, SMT, Z3 DEF ReleasedByHead
  <2> QED BY <2>3, <2>4, <2>5, <2>6 DEF IInv, OneUnitPerSlot
<1>8. CASE Restart
  <2>1. TypeOK'
    BY <1>0, <1>8, ProductionAssumption DEF Restart, TypeOK
  <2> QED BY <1>8, <2>1, FrameInv DEF Restart
<1>9. CASE UNCHANGED vars
  <2>1. TypeOK'
    BY <1>0, <1>9 DEF vars, TypeOK
  <2> QED BY <1>9, <2>1, FrameInv DEF vars
<1>10. CASE MaybeProduceUnit
  <2>1. Produce \/ \E c \in Conditions : Return(c)
    BY <1>10 DEF MaybeProduceUnit, NotSynced, NotTimeYet, NotMyTurn, NoPrivateKey,
                 Lag, ExceptionProducing, Conditions
  <2> QED BY <1>2, <1>3, <2>1
<1> QED BY <1>1, <1>4, <1>5, <1>6, <1>7, <1>8, <1>9, <1>10 DEF Next

(* Every reachable state satisfies the inductive invariant. *)
THEOREM Invariance == Spec => []IInv
BY InitInv, NextInv, PTL DEF Spec

(* Every variable of the production model keeps its type, for every value of  *)
(* the constants.                                                             *)
THEOREM TypeCorrect == Spec => []TypeOK
<1>1. IInv => TypeOK
  BY DEF IInv
<1> QED BY <1>1, Invariance, PTL

(* MaybeProduceUnit's panic is unreachable: a due slot is after the head.     *)
THEOREM PanicUnreachable == Spec => []SlotAfterHead
<1>1. IInv => SlotAfterHead
  <2> SUFFICES ASSUME IInv, NEW t \in Times, GetSlotAtTime(dgp, t) > 0
               PROVE  t > dgp.HeadUnitTime
    BY DEF SlotAfterHead
  <2> QED BY DgpIsSlotState, SlotIsLater, ConstantTypes DEF IInv
<1> QED BY <1>1, Invariance, PTL

(* GetSlotAtTime is the greatest slot not after the time, as its comment says. *)
THEOREM SlotIsGreatestAlways == Spec => []SlotIsGreatest
<1>1. IInv => SlotIsGreatest
  BY DgpIsSlotState, SlotAtTimeIsGreatest, ConstantTypes DEF IInv, SlotIsGreatest
<1> QED BY <1>1, Invariance, PTL

(* The absolute slot is the head unit's time in intervals since genesis,      *)
(* however ApplyUnit is interrupted.                                          *)
THEOREM AbsoluteSlotAlways == Spec => []AbsoluteSlot
<1>1. IInv => AbsoluteSlot
  BY DEF IInv
<1> QED BY <1>1, Invariance, PTL

(* A node never releases two units for one slot.                              *)
THEOREM NoDoubleProduction == Spec => []OneUnitPerSlot
<1>1. IInv => OneUnitPerSlot
  BY DEF IInv
<1> QED BY <1>1, Invariance, PTL

(* Every round gives every active mediator exactly one slot.                  *)
THEOREM FairRoundAlways == Spec => []FairRound
<1>1. IInv => FairRound
  BY DgpIsSlotState, ScheduledOncePerRound, SMT, Zenon DEF IInv, FairRound
<1> QED BY <1>1, Invariance, PTL

(* The head unit's time and the absolute slot change only to grow.            *)
THEOREM HeadAdvancesAlways == Spec => HeadAdvances
<1> DEFINE Advance == dgp' # dgp => /\ dgp'.HeadUnitTime > dgp.HeadUnitTime
                                   /\ dgp'.CurrentASlot > dgp.CurrentASlot
<1>1. IInv /\ [Next]_vars => [Advance]_vars
  <2> SUFFICES ASSUME IInv, Next, dgp' # dgp
               PROVE  /\ dgp'.HeadUnitTime > dgp.HeadUnitTime
                      /\ dgp'.CurrentASlot > dgp.CurrentASlot
    BY DEF vars, propVars
  <2>1. CASE Produce
    BY <2>1, ApplyUnitFacts DEF Produce
  <2>2. ASSUME NEW done \in {"missed", "dgp", "all"}, CrashProducing(done)
        PROVE  /\ dgp'.HeadUnitTime > dgp.HeadUnitTime
               /\ dgp'.CurrentASlot > dgp.CurrentASlot
    BY <2>2, ApplyUnitFacts DEF CrashProducing
  <2>3. ~Produce => \E done \in {"missed", "dgp", "all"} : CrashProducing(done)
    BY Zenon DEF Next, Clock, MaybeProduceUnit, NotSynced, NotTimeYet, NotMyTurn,
           NoPrivateKey, Lag, ExceptionProducing, Return, ReceiveUnit, CheckExists,
           WriteUnit, WriteFails, PutHead, Crash, Die, Restart, propVars
  <2> QED BY <2>1, <2>2, <2>3
<1> QED BY <1>1, Invariance, PTL DEF Spec, HeadAdvances

-----------------------------------------------------------------------------
(* The account of the slots, until the first crash *)

Accounts ==
  crashes = 0 =>
    /\ IsFiniteSet(released) /\ IsFiniteSet(MissedEntries)
    /\ dgp.CurrentASlot = Cardinality(released) + lostSlots
    /\ Cardinality(MissedEntries) <= lostSlots

\* The entries that the mediators C, who have missed[m] so far, get next.
NextEntries(missed, C) == {<<m, missed[m] + 1>> : m \in C}

(* UpdateMediatorMissedUnits charges at most one mediator for a missed slot.  *)
LEMMA ChargedFew ==
  ASSUME NEW s, NEW n \in Nat, NEW missed
  PROVE  /\ IsFiniteSet(NextEntries(missed, Charged(dgp, s, n)))
         /\ Cardinality(NextEntries(missed, Charged(dgp, s, n))) <= n
<1> DEFINE at(i) == GetScheduledMediator(dgp, s, i)
           C == Charged(dgp, s, n)
           N == NextEntries(missed, C)
<1>1. CASE n < aSize
  <2> DEFINE g == [i \in 1 .. n |-> <<at(i), missed[at(i)] + 1>>]
  <2>1. C = {at(i) : i \in 1 .. n}
    BY <1>1 DEF Charged
  <2> HIDE DEF at, C
  <2>2. N = {<<at(i), missed[at(i)] + 1>> : i \in 1 .. n}
    BY <2>1, Zenon DEF NextEntries
  <2>3. g \in Surjection(1 .. n, N)
    <3>1. \A i \in 1 .. n : g[i] \in N
      BY <2>2, Zenon
    <3>2. \A e \in N : \E i \in 1 .. n : g[i] = e
      BY <2>2, Zenon
    <3>3. g \in [1 .. n -> N]
      BY <3>1
    <3> HIDE DEF N, g
    <3>4. QED
      BY <3>2, <3>3, Zenon DEF Surjection
  <2>4. IsFiniteSet(1 .. n) /\ Cardinality(1 .. n) = n
    BY FS_Interval
  <2> HIDE DEF N, g
  <2>5. IsFiniteSet(N) /\ Cardinality(N) <= n
    BY <2>3, <2>4, FS_Surjection, SMT, Z3
  <2>6. QED
    BY <2>5, Zenon DEF N, C
<1>2. CASE ~(n < aSize)
  <2>1. C = {}
    BY <1>2 DEF Charged
  <2> HIDE DEF C
  <2>2. N = {}
    BY <2>1 DEF NextEntries
  <2> HIDE DEF N
  <2>3. IsFiniteSet(N) /\ Cardinality(N) <= n
    BY <2>2, FS_EmptySet, SMT, Z3
  <2>4. QED
    BY <2>3, Zenon DEF N, C
<1>3. QED
  BY <1>1, <1>2

(* Producing a unit adds it to the released ones, and each slot that it skips *)
(* adds at most one entry.                                                    *)
LEMMA ProduceAccounts ==
  ASSUME IInv, Accounts, Produce
  PROVE  Accounts'
<1> DEFINE missed == MissedUnits(dgp, PendingUnit.time)
           C == Charged(dgp, shuffled, missed)
           N == NextEntries(totalMissed, C)
<1> SUFFICES ASSUME crashes = 0
             PROVE  /\ IsFiniteSet(released') /\ IsFiniteSet(MissedEntries')
                    /\ dgp'.CurrentASlot = Cardinality(released') + lostSlots'
                    /\ Cardinality(MissedEntries') <= lostSlots'
  BY DEF Accounts, Produce
<1>1. /\ IsFiniteSet(released) /\ IsFiniteSet(MissedEntries)
      /\ dgp.CurrentASlot = Cardinality(released) + lostSlots
      /\ Cardinality(MissedEntries) <= lostSlots
  BY DEF Accounts
<1>2. Producing /\ ApplyUnit(PendingUnit, "all") /\ released' = released \union {PendingUnit}
  BY DEF Produce
<1>3. PendingUnit.time = now /\ now > dgp.HeadUnitTime /\ missed \in Nat
  BY <1>2, PendingUnitFacts
<1>4. TypeOK
  BY DEF IInv
<1>5. PendingUnit \notin released
  <2>1. \A u \in released : u.time \in Nat /\ u.time <= dgp.HeadUnitTime
    BY <1>4, ConstantTypes, Zenon DEF IInv, ReleasedByHead, TypeOK, Units
  <2>2. dgp.HeadUnitTime \in Nat /\ now \in Nat
    BY <1>4, ConstantTypes, Zenon DEF TypeOK
  <2>3. QED
    BY <1>3, <2>1, <2>2
<1>6. /\ dgp'.CurrentASlot = dgp.CurrentASlot + missed + 1
      /\ lostSlots' = lostSlots + missed
      /\ totalMissed' = [m \in ActiveSet |-> totalMissed[m] + (IF m \in C THEN 1 ELSE 0)]
  <2> HIDE DEF missed
  <2> QED BY <1>2 DEF ApplyUnit, UpdateDynGlobalProp, missed
<1>7. IsFiniteSet(released') /\ Cardinality(released') = Cardinality(released) + 1
  <2> HIDE DEF missed, C, N
  <2> QED BY <1>1, <1>2, <1>5, FS_AddElement
<1> HIDE DEF missed
<1>8. IsFiniteSet(N) /\ Cardinality(N) <= missed
  BY <1>3, ChargedFew
<1> HIDE DEF C
<1>9. MissedEntries' \in SUBSET (MissedEntries \union N)
  <2>1. totalMissed \in [ActiveSet -> Nat]
    BY <1>4 DEF TypeOK
  <2>2. SUFFICES ASSUME NEW m \in ActiveSet, NEW k \in 1 .. totalMissed'[m]
                 PROVE  <<m, k>> \in MissedEntries \union N
    <3>1. MissedEntries' = UNION {{m} \X (1 .. totalMissed'[m]) : m \in ActiveSet}
      BY DEF MissedEntries
    <3>2. \A e \in MissedEntries' : \E m \in ActiveSet : e \in {m} \X (1 .. totalMissed'[m])
      BY <3>1, Zenon
    <3>3. QED
      BY <2>2, <3>2, SMT, Z3
  <2>3. CASE k <= totalMissed[m]
    <3>1. k \in 1 .. totalMissed[m]
      BY <1>6, <2>1, <2>3, SMT, Z3
    <3>2. <<m, k>> \in {m} \X (1 .. totalMissed[m])
      BY <3>1
    <3>3. <<m, k>> \in MissedEntries
      BY <3>2, Zenon DEF MissedEntries
    <3>4. QED
      BY <3>3
  <2>4. CASE ~(k <= totalMissed[m])
    <3>1. m \in C /\ k = totalMissed[m] + 1
      BY <1>6, <2>1, <2>4, SMT, Z3
    <3>2. <<m, k>> \in N
      BY <3>1, Zenon DEF NextEntries
    <3>3. QED
      BY <3>2
  <2>5. QED
    BY <2>3, <2>4
<1> HIDE DEF N
<1> DEFINE A == MissedEntries
           B == MissedEntries'
<1>10. IsFiniteSet(A) /\ B \in SUBSET (A \union N)
  BY <1>1, <1>9
<1>11. Cardinality(A) <= lostSlots
  BY <1>1
<1> HIDE DEF A, B
<1>12. IsFiniteSet(B) /\ Cardinality(B) <= Cardinality(A) + Cardinality(N)
  <2>1. IsFiniteSet(A \union N) /\ IsFiniteSet(A \intersect N)
    BY <1>8, <1>10, FS_Union, FS_Intersection
  <2>2. Cardinality(A \union N) = Cardinality(A) + Cardinality(N) - Cardinality(A \intersect N)
    BY <1>8, <1>10, FS_Union
  <2>3. /\ Cardinality(A) \in Nat /\ Cardinality(N) \in Nat
        /\ Cardinality(A \intersect N) \in Nat /\ Cardinality(A \union N) \in Nat
    BY <1>8, <1>10, <2>1, FS_CardinalityType
  <2>4. IsFiniteSet(B) /\ Cardinality(B) <= Cardinality(A \union N)
    BY <1>10, <2>1, FS_Subset
  <2>5. Cardinality(B) \in Nat
    BY <2>4, FS_CardinalityType
  <2>6. QED
    BY <2>2, <2>3, <2>4, <2>5
<1>13. /\ Cardinality(A) \in Nat /\ Cardinality(N) \in Nat /\ Cardinality(B) \in Nat
       /\ Cardinality(released) \in Nat
  BY <1>1, <1>8, <1>10, <1>12, FS_CardinalityType
<1>14. lostSlots \in Nat /\ dgp.CurrentASlot \in Nat
  BY <1>4 DEF TypeOK
<1>15. Cardinality(B) <= lostSlots'
  BY <1>3, <1>6, <1>8, <1>11, <1>12, <1>13, <1>14
<1>16. dgp'.CurrentASlot = Cardinality(released') + lostSlots'
  BY <1>1, <1>3, <1>6, <1>7, <1>13, <1>14
<1>17. QED
  BY <1>7, <1>12, <1>15, <1>16 DEF B

(* Until the first crash every absolute slot is the slot of a released unit   *)
(* or was missed, once, and UpdateMediatorMissedUnits never charges more      *)
(* than the slots missed, for any mediators, interval and clock.              *)
THEOREM SlotsAccountedAlways == Spec => []SlotsAccounted
<1>1. Init => Accounts
  <2> SUFFICES ASSUME Init PROVE Accounts
    OBVIOUS
  <2>1. MissedEntries = {}
    BY DEF Init, MissedEntries
  <2>2. released = {} /\ dgp.CurrentASlot = 0 /\ lostSlots = 0
    BY DEF Init
  <2>3. QED
    BY <2>1, <2>2, FS_EmptySet, SMT, Z3 DEF Accounts
<1>2. IInv /\ Accounts /\ [Next]_vars => Accounts'
  <2> SUFFICES ASSUME IInv, Accounts, [Next]_vars PROVE Accounts'
    OBVIOUS
  <2>1. CASE Produce
    BY <2>1, ProduceAccounts
  <2>2. CASE Die
    BY <2>2 DEF Die, Accounts, IInv, TypeOK
  <2>3. CASE UNCHANGED <<propVars, released, crashes>>
    <3>1. MissedEntries' = MissedEntries
      BY <2>3, Zenon DEF propVars, MissedEntries
    <3>2. QED
      BY <2>3, <3>1, Zenon DEF propVars, Accounts
  <2>4. Produce \/ Die \/ UNCHANGED <<propVars, released, crashes>>
    BY Zenon DEF Next, Clock, MaybeProduceUnit, NotSynced, NotTimeYet, NotMyTurn,
           NoPrivateKey, Lag, ExceptionProducing, Return, ReceiveUnit, CheckExists,
           WriteUnit, WriteFails, PutHead, Crash, CrashProducing, Restart, loopVars, vars
  <2>5. QED
    BY <2>1, <2>2, <2>3, <2>4
<1>3. Accounts => SlotsAccounted
  BY DEF Accounts, SlotsAccounted
<1>4. QED
  BY <1>1, <1>2, <1>3, Invariance, PTL DEF Spec

-----------------------------------------------------------------------------
(* A node that keeps time *)

(* One unit is saved at a time, under the head unit's height and time, and    *)
(* the loop waits for it: so GenerateUnit always builds on the head.          *)
TimelyInv ==
  /\ SlotCount
  /\ memUnit = Genesis
  /\ \A u \in stored : u.time <= dgp.HeadUnitTime
  /\ saving = {} => head.num = dgp.HeadUnitNum
  /\ \A s \in saving :
       /\ saving = {s} /\ result # "none"
       /\ s.unit.num = dgp.HeadUnitNum /\ s.unit.time = dgp.HeadUnitTime
       /\ s.stage = "check" => s.unit \notin stored

(* A timely step is a step. *)
LEMMA TimelyIsNext == IInv /\ TimelyNext => Next
<1> SUFFICES ASSUME IInv, TimelyNext PROVE Next
  OBVIOUS
<1>1. CASE TimelyTick
  <2>1. now + 1 \in Times
    BY <1>1, ScheduleAssumption, SMT, Z3 DEF TimelyTick, IInv, TypeOK, Times
  <2>2. QED
    BY <1>1, <2>1 DEF TimelyTick, Next
<1>2. CASE ~TimelyTick
  BY <1>2, Zenon DEF TimelyNext, Next, MaybeProduceUnit
<1>3. QED
  BY <1>1, <1>2

(* Production keeps slots and numbers equal when units are applied in time. *)
LEMMA ProduceTimely ==
  ASSUME IInv, TimelyInv, Produce
  PROVE  TimelyInv'
<1> DEFINE missed == MissedUnits(dgp, PendingUnit.time)
<1>1. /\ Producing /\ ApplyUnit(PendingUnit, "all") /\ result = "none" /\ result' = "Produced"
      /\ saving' = saving \union {[unit |-> PendingUnit, by |-> "local", stage |-> "check"]}
      /\ memUnit' = memUnit /\ stored' = stored /\ head' = head
  BY DEF Produce, Producing, diskVars
<1>2. saving = {} /\ head.num = dgp.HeadUnitNum
  BY <1>1 DEF TimelyInv
<1>3. PendingUnit.time = now /\ now > dgp.HeadUnitTime /\ missed \in Nat
  BY <1>1, PendingUnitFacts
<1>4. /\ lostSlots \in Nat /\ dgp.HeadUnitNum \in Nat /\ dgp.CurrentASlot \in Nat
      /\ dgp.HeadUnitTime \in Nat /\ now \in Nat
  <2>1. lostSlots \in Nat /\ dgp.CurrentASlot \in Nat /\ dgp.HeadUnitNum \in 0 .. MaxNum
    BY DEF IInv, TypeOK
  <2>2. dgp.HeadUnitTime \in Nat /\ now \in Nat
    BY ConstantTypes, Zenon DEF IInv, TypeOK
  <2>3. QED
    BY <2>1, <2>2, ProductionAssumption
<1>5. PendingUnit.num = dgp.HeadUnitNum + 1
  <2>1. memUnit.num = 0
    BY DEF TimelyInv, Genesis
  <2>2. QED
    BY <1>2, <1>4, <2>1 DEF PendingUnit
<1>6. /\ dgp'.CurrentASlot = dgp.CurrentASlot + missed + 1
      /\ dgp'.HeadUnitNum = PendingUnit.num
      /\ dgp'.HeadUnitTime = PendingUnit.time
      /\ lostSlots' = lostSlots + missed
  <2> HIDE DEF missed
  <2> QED BY <1>1 DEF ApplyUnit, UpdateDynGlobalProp, missed
<1> HIDE DEF missed
<1>7. SlotCount'
  <2>1. dgp.CurrentASlot = dgp.HeadUnitNum + lostSlots
    BY DEF TimelyInv, SlotCount
  <2>2. dgp'.CurrentASlot = dgp'.HeadUnitNum + lostSlots'
    BY <1>3, <1>4, <1>5, <1>6, <2>1
  <2>3. QED
    BY <2>2 DEF SlotCount
<1>8. \A u \in stored : u.time \in Nat /\ u.time <= dgp.HeadUnitTime
  <2>1. \A u \in Units \union {Genesis} : u.time \in Nat
    <3>1. \A u \in Units : u.time \in Nat
      BY ConstantTypes, ZenonT(40) DEF Units
    <3>2. Genesis.time \in Nat
      BY ConstantTypes DEF Genesis
    <3>3. QED
      BY <3>1, <3>2
  <2>2. QED
    BY <2>1 DEF TimelyInv, IInv, TypeOK
<1>9. \A u \in stored' : u.time <= dgp'.HeadUnitTime
  <2>1. \A u \in stored : u.time <= now
    BY <1>3, <1>4, <1>8
  <2>2. stored' = stored /\ dgp'.HeadUnitTime = now
    BY <1>1, <1>3, <1>6
  <2>3. QED
    BY <2>1, <2>2
<1>10. PendingUnit \notin stored'
  BY <1>1, <1>3, <1>4, <1>8
<1> DEFINE t == [unit |-> PendingUnit, by |-> "local", stage |-> "check"]
<1>11. saving' = {t} /\ t.unit = PendingUnit
  BY <1>1, <1>2
<1>12. \A s \in saving' :
         /\ saving' = {s} /\ result' # "none"
         /\ s.unit.num = dgp'.HeadUnitNum /\ s.unit.time = dgp'.HeadUnitTime
         /\ s.unit \notin stored'
  <2> HIDE DEF t
  <2> QED BY <1>1, <1>6, <1>10, <1>11
<1>13. saving' # {}
  BY <1>1, Zenon
<1>14. QED
  BY <1>1, <1>7, <1>9, <1>12, <1>13 DEF TimelyInv

(* The save of a unit keeps slots and numbers equal when units are applied in *)
(* time.                                                                      *)
LEMMA SaveTimely ==
  ASSUME IInv, TimelyInv, NEW s \in saving, CheckExists(s) \/ WriteUnit(s) \/ PutHead(s)
  PROVE  TimelyInv'
<1>1. /\ saving = {s} /\ result # "none"
      /\ s.unit.num = dgp.HeadUnitNum /\ s.unit.time = dgp.HeadUnitTime
      /\ s.stage = "check" => s.unit \notin stored
  BY DEF TimelyInv
<1>2. s \in [unit : Units, by : {"local", "peer"}, stage : Stages]
  BY DEF IInv, TypeOK
<1>3. dgp' = dgp /\ lostSlots' = lostSlots /\ memUnit' = memUnit /\ result' = result
  BY DEF CheckExists, WriteUnit, PutHead, propVars, loopVars
<1>4. SlotCount' /\ memUnit' = Genesis
  BY <1>3 DEF TimelyInv, SlotCount
<1>5. \A u \in stored : u.time <= dgp.HeadUnitTime
  BY DEF TimelyInv
<1>6. CASE CheckExists(s)
  <2> DEFINE t == [s EXCEPT !.stage = "write"]
  <2>1. t.unit = s.unit /\ t.stage = "write"
    BY <1>2
  <2> HIDE DEF t
  <2>2. saving' = {t} /\ stored' = stored
    BY <1>1, <1>6 DEF CheckExists, diskVars, t
  <2>3. QED
    BY <1>1, <1>3, <1>4, <1>5, <2>1, <2>2 DEF TimelyInv
<1>7. CASE WriteUnit(s)
  <2> DEFINE t == [s EXCEPT !.stage = "head"]
  <2>1. t.unit = s.unit /\ t.stage = "head"
    BY <1>2
  <2> HIDE DEF t
  <2>2. saving' = {t} /\ stored' = stored \union {s.unit}
    BY <1>1, <1>7 DEF WriteUnit, t
  <2>3. dgp.HeadUnitTime \in Nat
    BY ConstantTypes, Zenon DEF IInv, TypeOK
  <2>4. \A u \in stored' : u.time <= dgp'.HeadUnitTime
    BY <1>1, <1>3, <1>5, <2>2, <2>3
  <2>5. QED
    BY <1>1, <1>3, <1>4, <2>1, <2>2, <2>4 DEF TimelyInv
<1>8. CASE PutHead(s)
  <2>1. saving' = {} /\ head' = s.unit /\ stored' = stored
    BY <1>1, <1>8 DEF PutHead
  <2>2. QED
    BY <1>1, <1>3, <1>4, <1>5, <2>1 DEF TimelyInv
<1>9. QED
  BY <1>6, <1>7, <1>8

(* A node that keeps time counts slots as the comment on CurrentASlot says    *)
(* (global_property.go:55): the head unit's height plus the slots lost.  In   *)
(* TimelySpec the loop runs in every second, a save is over before the next   *)
(* second and nothing crashes; without that the equality fails.               *)
THEOREM TimelySlotCountAlways == TimelySpec => []SlotCount
<1>1. Init => TimelyInv
  <2> SUFFICES ASSUME Init PROVE TimelyInv
    OBVIOUS
  <2>1. /\ dgp.HeadUnitNum = 0 /\ dgp.HeadUnitTime = GenesisTime /\ dgp.CurrentASlot = 0
        /\ lostSlots = 0 /\ stored = {Genesis} /\ head = Genesis /\ memUnit = Genesis
        /\ saving = {}
    BY DEF Init
  <2>2. Genesis.num = 0 /\ Genesis.time = GenesisTime /\ GenesisTime <= GenesisTime
    BY ConstantTypes DEF Genesis
  <2>3. QED
    BY <2>1, <2>2 DEF TimelyInv, SlotCount
<1>2. IInv /\ TimelyInv /\ [TimelyNext]_vars => TimelyInv'
  <2> SUFFICES ASSUME IInv, TimelyInv, [TimelyNext]_vars PROVE TimelyInv'
    OBVIOUS
  <2>1. CASE Produce
    BY <2>1, ProduceTimely
  <2>2. ASSUME NEW s \in saving, CheckExists(s) \/ WriteUnit(s) \/ PutHead(s) PROVE TimelyInv'
    BY <2>2, SaveTimely
  <2>3. CASE /\ UNCHANGED <<propVars, diskVars, memUnit, saving>>
             /\ saving = {} \/ result' # "none"
    BY <2>3, Zenon DEF propVars, diskVars, TimelyInv, SlotCount
  <2>4. CASE TimelyTick
    BY <2>3, <2>4, Zenon DEF TimelyTick, Clock
  <2>5. ASSUME NEW c \in Conditions \ {"none"}, Return(c) PROVE TimelyInv'
    BY <2>3, <2>5, Zenon DEF Return
  <2>6. NotSynced \/ NotTimeYet \/ NotMyTurn \/ Lag => \E c \in Conditions \ {"none"} : Return(c)
    BY DEF NotSynced, NotTimeYet, NotMyTurn, Lag, Conditions
  <2>7. CASE UNCHANGED vars
    BY <2>7, Zenon DEF vars, propVars, diskVars, loopVars, TimelyInv, SlotCount
  <2>8. QED
    BY <2>1, <2>2, <2>4, <2>5, <2>6, <2>7, Zenon DEF TimelyNext
<1>3. IInv /\ [TimelyNext]_vars => IInv'
  BY TimelyIsNext, NextInv
<1>4. TimelyInv => SlotCount
  BY DEF TimelyInv
<1>5. TimelySpec => Init /\ [][TimelyNext]_vars
  BY PTL DEF TimelySpec
<1>6. QED
  BY <1>1, <1>2, <1>3, <1>4, <1>5, InitInv, PTL

=============================================================================
