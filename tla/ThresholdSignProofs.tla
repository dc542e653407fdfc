------------------------ MODULE ThresholdSignProofs ------------------------
(***************************************************************************)
(* A unit's group signature is recovered once, for any number of           *)
(* mediators, units and goroutines and any threshold.                      *)
(***************************************************************************)
EXTENDS ThresholdSign, SequenceTheorems, TLAPS

\* The provers of a step that names none, in the order they are tried.
USE Zenon, SMT, Z3

\* How often units were handed over is a number, and shares are collected for
\* units that were produced here.
Handed ==
  /\ handed \in [Units -> Nat]
  /\ \A u \in collecting : handed[u] > 0

SignInv == TypeOK /\ Handed /\ RecoveredOnce

(* A table of counters stays one when a counter changes. *)
LEMMA CounterChanged ==
  ASSUME NEW S, NEW T, NEW f \in [S -> [T -> Nat]], NEW s \in S, NEW t \in T, NEW n \in Nat
  PROVE  [f EXCEPT ![s][t] = n] \in [S -> [T -> Nat]]
<1>1. [f[s] EXCEPT ![t] = n] \in [T -> Nat]
  OBVIOUS
<1> QED BY <1>1

(* Nothing is collected at first. *)
LEMMA SignInvInit == Init => SignInv
<1> SUFFICES ASSUME Init PROVE SignInv
  OBVIOUS
<1>1. TypeOK
  BY SignAssumption, SMT, Z3 DEF Init, TypeOK, OwnUnits
<1>2. Handed /\ RecoveredOnce
  BY DEF Init, Handed, RecoveredOnce, OwnUnits
<1> QED BY <1>1, <1>2 DEF SignInv

(* A call of addToTBLSSignBuf starts at a local mediator. *)
LEMMA HandKeeps ==
  ASSUME TypeOK, Handed, NEW u \in Units, Hand(u)
  PROVE  /\ \A v \in Units : handed'[v] \in 0 .. MaxHanded[v]
         /\ handed' \in [Units -> Nat]
         /\ \A v \in Units : handed'[v] = IF v = u THEN handed[u] + 1 ELSE handed[v]
         /\ senders' \subseteq [unit : Units, copy : Nat, at : Local, todo : SUBSET Local]
<1>1. handed \in [Units -> Nat] /\ handed' = [handed EXCEPT ![u] = handed[u] + 1]
  BY DEF Hand, Handed
<1>2. \A v \in Units : handed'[v] = IF v = u THEN handed[u] + 1 ELSE handed[v]
  BY <1>1
<1>3. \A v \in Units : handed'[v] \in 0 .. MaxHanded[v]
  <2>1. ASSUME NEW v \in Units PROVE MaxHanded[v] \in Nat /\ handed[v] \in 0 .. MaxHanded[v]
    BY SignAssumption DEF TypeOK
  <2>2. handed[u] < MaxHanded[u]
    BY DEF Hand
  <2> QED BY <1>2, <2>1, <2>2
<1>4. PICK m \in Local :
        senders' = senders \union {[unit |-> u, copy |-> handed[u] + 1, at |-> m, todo |-> Local]}
  BY DEF Hand
<1>5. senders' \subseteq [unit : Units, copy : Nat, at : Local, todo : SUBSET Local]
  BY <1>1, <1>4, SMT, Z3 DEF TypeOK
<1> QED BY <1>1, <1>2, <1>3, <1>5, SMT, Z3

(* Handing a unit over. *)
LEMMA SignInvHand ==
  ASSUME SignInv,
         \/ \E u \in OwnUnits : Produce(u)
         \/ \E u \in Units : ToUnitTBLSSign(u)
  PROVE  SignInv'
<1>0. TypeOK /\ Handed /\ RecoveredOnce
  BY DEF SignInv
<1>1. ASSUME NEW u \in OwnUnits, Produce(u) PROVE SignInv'
  <2>0. u \in Units /\ Hand(u)
    BY <1>1 DEF Produce, OwnUnits
  <2>1. TypeOK'
    BY <1>0, <1>1, <2>0, HandKeeps DEF TypeOK, Produce
  <2>2. Handed'
    <3>1. /\ handed' \in [Units -> Nat]
          /\ \A v \in Units : handed'[v] = IF v = u THEN handed[u] + 1 ELSE handed[v]
      BY <1>0, <2>0, HandKeeps
    <3>2. collecting' = collecting \union {u} /\ collecting \subseteq Units /\ handed[u] \in Nat
      BY <1>0, <1>1, <2>0 DEF Produce, TypeOK, OwnUnits, Handed
    <3> QED BY <1>0, <2>0, <3>1, <3>2 DEF Handed
  <2>3. RecoveredOnce'
    BY <1>0, <1>1, <2>0, HandKeeps DEF Handed, Produce, RecoveredOnce, OwnUnits
  <2> QED BY <2>1, <2>2, <2>3 DEF SignInv
<1>2. ASSUME NEW u \in Units, ToUnitTBLSSign(u) PROVE SignInv'
  <2>0. Hand(u)
    BY <1>2 DEF ToUnitTBLSSign
  <2>1. TypeOK'
    BY <1>0, <1>2, <2>0, HandKeeps DEF TypeOK, ToUnitTBLSSign, sigVars
  <2>2. Handed'
    <3>1. /\ handed' \in [Units -> Nat]
          /\ \A v \in Units : handed'[v] = IF v = u THEN handed[u] + 1 ELSE handed[v]
      BY <1>0, <2>0, HandKeeps
    <3>2. collecting' = collecting /\ collecting \subseteq Units /\ handed[u] \in Nat
      BY <1>0, <1>2, <2>0 DEF ToUnitTBLSSign, sigVars, TypeOK, OwnUnits, Handed
    <3> QED BY <1>0, <3>1, <3>2 DEF Handed
  <2>3. RecoveredOnce'
    BY <1>0, <1>2, <2>0, HandKeeps, SMT, Z3 DEF Handed, ToUnitTBLSSign, sigVars, RecoveredOnce, OwnUnits
  <2> QED BY <2>1, <2>2, <2>3 DEF SignInv
<1> QED BY <1>1, <1>2

(* A step that leaves the collecting of shares alone. *)
LEMMA CollectingKept ==
  ASSUME SignInv, TypeOK', UNCHANGED <<handed, collecting, sent>>
  PROVE  SignInv'
BY DEF SignInv, Handed, RecoveredOnce

(* Units go through the channels, and mediators sign. *)
LEMMA SignInvBuffers ==
  ASSUME SignInv,
         \/ \E s \in senders : AddToTBLSSignBuf(s)
         \/ \E m \in Local : Certify(m) \/ SignTBLS(m)
         \/ \E u \in OwnUnits, m \in Mediators : ToTBLSRecover(u, m)
  PROVE  SignInv'
<1>0. TypeOK
  BY DEF SignInv
<1>1. ASSUME NEW s \in senders, AddToTBLSSignBuf(s) PROVE SignInv'
  <2> DEFINE rest == s.todo \ {s.at}
  <2>1. s \in [unit : Units, copy : Nat, at : Local, todo : SUBSET Local]
    BY <1>0 DEF TypeOK
  <2>2. /\ Len(signBuf[s.at]) < Threshold
        /\ signBuf' = [signBuf EXCEPT ![s.at] = Append(signBuf[s.at], s.unit)]
        /\ UNCHANGED <<handed, certified, received, sigVars>>
    BY <1>1, Zenon DEF AddToTBLSSignBuf, Room
  <2>3. signBuf' \in [Local -> Seq(Units)] /\ \A m \in Local : Len(signBuf'[m]) <= Threshold
    <3>1. signBuf \in [Local -> Seq(Units)] /\ \A m \in Local : Len(signBuf[m]) <= Threshold
      BY <1>0 DEF TypeOK
    <3>2. s.at \in Local /\ s.unit \in Units /\ signBuf[s.at] \in Seq(Units)
      BY <2>1, <3>1
    <3>3. /\ Append(signBuf[s.at], s.unit) \in Seq(Units)
          /\ Len(Append(signBuf[s.at], s.unit)) = Len(signBuf[s.at]) + 1
          /\ Len(signBuf[s.at]) \in Nat
      BY <3>2, AppendProperties, LenProperties, SMT, Z3
    <3>4. Len(Append(signBuf[s.at], s.unit)) <= Threshold
      BY <2>2, <3>3, SignAssumption, SMT, Z3
    <3> QED BY <2>2, <3>1, <3>2, <3>3, <3>4
  <2>4. senders' \subseteq [unit : Units, copy : Nat, at : Local, todo : SUBSET Local]
    <3>1. CASE rest = {}
      BY <1>0, <1>1, <3>1, Zenon DEF AddToTBLSSignBuf, TypeOK
    <3>2. CASE rest # {}
      <4>1. PICK m \in rest :
              senders' = (senders \ {s}) \union {[s EXCEPT !.at = m, !.todo = rest]}
        BY <1>1, <3>2, Zenon DEF AddToTBLSSignBuf
      <4>2. m \in Local /\ rest \in SUBSET Local
        BY <2>1
      <4> QED BY <1>0, <2>1, <4>1, <4>2, Zenon DEF TypeOK
    <3> QED BY <3>1, <3>2
  <2>5. producing' \in OwnUnits \union {NoUnit}
    BY <1>0, <1>1, Zenon DEF AddToTBLSSignBuf, TypeOK
  <2>6. TypeOK'
    BY <1>0, <2>2, <2>3, <2>4, <2>5, Zenon DEF TypeOK, sigVars
  <2> QED BY <2>2, <2>6, CollectingKept DEF sigVars
<1>2. ASSUME NEW m \in Local, Certify(m) PROVE SignInv'
  <2>1. TypeOK'
    <3>1. RecoverUnitsTBLS(m) \in [OwnUnits -> Nat]
      <4>1. \A u \in OwnUnits : recovering[u] \in Nat
        BY <1>0 DEF TypeOK
      <4> QED BY <4>1 DEF RecoverUnitsTBLS
    <3>2. recovering' \in [OwnUnits -> Nat] /\ certified' \subseteq Local
      BY <1>0, <1>2, <3>1 DEF TypeOK, Certify
    <3> QED BY <1>0, <1>2, <3>2 DEF TypeOK, Certify
  <2> QED BY <1>2, <2>1, CollectingKept DEF Certify
<1>3. ASSUME NEW m \in Local, SignTBLS(m) PROVE SignInv'
  <2>1. signBuf[m] \in Seq(Units) /\ signBuf[m] # <<>> /\ Len(signBuf[m]) <= Threshold
    BY <1>0, <1>3 DEF SignTBLS, TypeOK
  <2>2. /\ Head(signBuf[m]) \in Units /\ Tail(signBuf[m]) \in Seq(Units)
        /\ Len(Tail(signBuf[m])) <= Threshold
    BY <2>1, HeadTailProperties, SignAssumption, SMT, Z3
  <2>3. signBuf' \in [Local -> Seq(Units)] /\ \A l \in Local : Len(signBuf'[l]) <= Threshold
    BY <1>0, <1>3, <2>2 DEF SignTBLS, TypeOK
  <2>4. looking' \in [Units -> [Mediators -> Nat]]
    <3> DEFINE u == Head(signBuf[m])
    <3>1. looking \in [Units -> [Mediators -> Nat]] /\ u \in Units /\ m \in Mediators
      BY <1>0, <2>2, SignAssumption DEF TypeOK
    <3>2. PICK n \in Nat : looking' = [looking EXCEPT ![u][m] = n]
      <4>1. looking[u][m] \in Nat /\ looking[u][m] + 1 \in Nat
        BY <3>1
      <4> QED BY <1>3, <4>1, Zenon DEF SignTBLS
    <3> QED BY <3>1, <3>2, CounterChanged
  <2>5. TypeOK'
    BY <1>0, <1>3, <2>3, <2>4, Zenon DEF SignTBLS, TypeOK
  <2> QED BY <1>3, <2>5, CollectingKept DEF SignTBLS
<1>4. ASSUME NEW u \in OwnUnits, NEW m \in Mediators, ToTBLSRecover(u, m) PROVE SignInv'
  <2>1. looking \in [Units -> [Mediators -> Nat]] /\ u \in Units
    BY <1>0 DEF TypeOK, OwnUnits
  <2>2. looking[u][m] + 1 \in Nat
    BY <2>1
  <2>3. looking' \in [Units -> [Mediators -> Nat]]
    BY <1>4, <2>1, <2>2, CounterChanged DEF ToTBLSRecover
  <2>4. TypeOK'
    BY <1>0, <1>4, <2>3, Zenon DEF TypeOK, ToTBLSRecover
  <2> QED BY <1>4, <2>4, CollectingKept DEF ToTBLSRecover
<1> QED BY <1>1, <1>2, <1>3, <1>4

(* Shares are collected, and recoveries start. *)
LEMMA SignInvShares ==
  ASSUME SignInv,
         \/ \E u \in Units, m \in Mediators : FindShareSet(u, m)
         \/ \E u \in OwnUnits : FindForRecovery(u) \/ \E m \in Mediators : AppendShare(u, m)
  PROVE  SignInv'
<1>0. TypeOK
  BY DEF SignInv
<1>1. ASSUME NEW u \in Units, NEW m \in Mediators, FindShareSet(u, m) PROVE SignInv'
  <2>1. looking' \in [Units -> [Mediators -> Nat]]
    <3>1. looking \in [Units -> [Mediators -> Nat]]
      BY <1>0 DEF TypeOK
    <3>2. looking[u][m] - 1 \in Nat
      BY <1>1, <3>1 DEF FindShareSet
    <3> QED BY <1>1, <3>1, <3>2, CounterChanged DEF FindShareSet
  <2>2. appending' \in [OwnUnits -> [Mediators -> Nat]]
    <3>1. appending \in [OwnUnits -> [Mediators -> Nat]] /\ collecting \subseteq OwnUnits
      BY <1>0 DEF TypeOK
    <3>2. CASE u \in collecting
      <4>1. u \in OwnUnits /\ appending[u][m] + 1 \in Nat
        BY <3>1, <3>2
      <4> QED BY <1>1, <3>1, <3>2, <4>1, CounterChanged DEF FindShareSet
    <3>3. CASE u \notin collecting
      BY <1>1, <3>1, <3>3 DEF FindShareSet
    <3> QED BY <3>2, <3>3
  <2>3. TypeOK'
    BY <1>0, <1>1, <2>1, <2>2, Zenon DEF FindShareSet, TypeOK
  <2> QED BY <1>1, <2>3, CollectingKept DEF FindShareSet
<1>2. ASSUME NEW u \in OwnUnits, FindForRecovery(u) PROVE SignInv'
  <2>1. recovering \in [OwnUnits -> Nat] /\ waiting \in [OwnUnits -> Nat] /\ recovering[u] - 1 \in Nat
    BY <1>0, <1>2, SMT, Z3 DEF FindForRecovery, TypeOK
  <2>2. recovering' \in [OwnUnits -> Nat] /\ waiting' \in [OwnUnits -> Nat]
    BY <1>2, <2>1, SMT, Z3 DEF FindForRecovery
  <2>3. TypeOK'
    BY <1>0, <1>2, <2>2 DEF FindForRecovery, TypeOK
  <2> QED BY <1>2, <2>3, CollectingKept DEF FindForRecovery
<1>3. ASSUME NEW u \in OwnUnits, NEW m \in Mediators, AppendShare(u, m) PROVE SignInv'
  <2>1. appending' \in [OwnUnits -> [Mediators -> Nat]]
    <3>1. appending \in [OwnUnits -> [Mediators -> Nat]]
      BY <1>0 DEF TypeOK
    <3>2. appending[u][m] - 1 \in Nat
      BY <1>3, <3>1, SMT, Z3 DEF AppendShare
    <3> QED BY <1>3, <3>1, <3>2, CounterChanged DEF AppendShare
  <2>2. shares' \in [OwnUnits -> Seq(Mediators)]
    BY <1>0, <1>3, SMT, Z3 DEF AppendShare, TypeOK
  <2>3. recovering' \in [OwnUnits -> Nat]
    <3>0. recovering \in [OwnUnits -> Nat]
      BY <1>0 DEF TypeOK
    <3>1. recovering[u] + 1 \in Nat
      BY <3>0
    <3>2. recovering' = [recovering EXCEPT ![u] = recovering[u] + 1]
      BY <1>3 DEF AppendShare, AfterAppend
    <3> QED BY <3>0, <3>1, <3>2
  <2>4. TypeOK'
    BY <1>0, <1>3, <2>1, <2>2, <2>3, Zenon DEF AppendShare, TypeOK
  <2> QED BY <1>3, <2>4, CollectingKept DEF AppendShare
<1> QED BY <1>1, <1>2, <1>3

(* The recovery itself: the buffer is there, so no signature was sent, and it *)
(* is gone when one is.                                                       *)
LEMMA SignInvRecover ==
  ASSUME SignInv, NEW u \in OwnUnits, RecoverUnitTBLS(u)
  PROVE  SignInv'
<1>0. TypeOK /\ Handed /\ RecoveredOnce
  BY DEF SignInv
<1>1. shares' \in [OwnUnits -> Seq(Mediators)] /\ waiting' \in [OwnUnits -> Nat]
  <2>1. shares \in [OwnUnits -> Seq(Mediators)] /\ waiting \in [OwnUnits -> Nat]
    BY <1>0 DEF TypeOK
  <2>2. waiting[u] - 1 \in Nat /\ waiting' = [waiting EXCEPT ![u] = waiting[u] - 1]
    BY <2>1 DEF RecoverUnitTBLS
  <2>3. shares' = shares \/ shares' = [shares EXCEPT ![u] = <<>>]
    BY DEF RecoverUnitTBLS
  <2>4. <<>> \in Seq(Mediators)
    OBVIOUS
  <2> QED BY <2>1, <2>2, <2>3, <2>4, Zenon
<1>2. collecting' \subseteq collecting
  BY DEF RecoverUnitTBLS, Remaining
<1>3. CASE Recoverable(u) /\ ~RecoverFails(u)
  <2>1. /\ u \in collecting /\ collecting' = collecting \ {u}
        /\ sent' = [sent EXCEPT ![u] = sent[u] + 1]
        /\ bad' \in {bad, bad \union {u}} /\ UNCHANGED handed
    BY <1>3 DEF RecoverUnitTBLS, Remaining, Recoverable
  <2>2. TypeOK'
    <3>1. sent' \in [OwnUnits -> Nat]
      BY <1>0, <2>1, SMT, Z3 DEF TypeOK
    <3>2. collecting' \subseteq OwnUnits /\ bad' \subseteq OwnUnits
      BY <1>0, <1>2, <2>1 DEF TypeOK
    <3> QED BY <1>0, <1>1, <2>1, <3>1, <3>2, Zenon DEF RecoverUnitTBLS, TypeOK
  <2>3. Handed'
    BY <1>0, <2>1 DEF Handed
  <2>4. handed[u] > 0 /\ sent[u] = 0
    BY <1>0, <2>1 DEF Handed, RecoveredOnce, OwnUnits
  <2>5. RecoveredOnce'
    BY <1>0, <2>1, <2>4, SMT, Z3 DEF RecoveredOnce, TypeOK, Handed, OwnUnits
  <2> QED BY <2>2, <2>3, <2>5 DEF SignInv
<1>4. CASE ~(Recoverable(u) /\ ~RecoverFails(u))
  <2>1. UNCHANGED <<handed, collecting, sent, bad>>
    BY <1>4 DEF RecoverUnitTBLS, Remaining
  <2>2. TypeOK'
    BY <1>0, <1>1, <2>1, Zenon DEF RecoverUnitTBLS, TypeOK
  <2> QED BY <2>1, <2>2, CollectingKept
<1> QED BY <1>3, <1>4

(* Every step keeps the invariant. *)
LEMMA SignInvNext == SignInv /\ [Next]_vars => SignInv'
<1> SUFFICES ASSUME SignInv, [Next]_vars PROVE SignInv'
  OBVIOUS
<1>1. CASE UNCHANGED vars
  BY <1>1 DEF vars, sigVars, SignInv, TypeOK, Handed, RecoveredOnce
<1>2. CASE Next
  BY <1>2, SignInvHand, SignInvBuffers, SignInvShares, SignInvRecover DEF Next, Signing
<1> QED BY <1>1, <1>2

(* The channels to the signing loops never hold more units than the           *)
(* threshold, whoever sends to them, and all counts are numbers.              *)
THEOREM SignTypeCorrect == Spec => []TypeOK
<1>1. SignInv => TypeOK
  BY DEF SignInv
<1> QED BY <1>1, SignInvInit, SignInvNext, PTL DEF Spec

(* recoverUnitTBLS sends exactly one group signature for a unit, when its     *)
(* share buffer is removed, although any number of goroutines append shares   *)
(* and try to recover at once.                                                *)
THEOREM RecoveredOnceAlways == Spec => []RecoveredOnce
<1>1. SignInv => RecoveredOnce
  BY DEF SignInv
<1> QED BY <1>1, SignInvInit, SignInvNext, PTL DEF Spec

=============================================================================
