---------------------------- MODULE ThresholdSign ----------------------------
(***************************************************************************)
(* Threshold signing of units on one mediator node                         *)
(* (consensus/mediatorplugin: threshold_sign.go, sign_share.go).           *)
(*                                                                         *)
(* A unit goes through a channel per local mediator to that mediator's     *)
(* signTBLSLoop; the signature shares of a unit that this node produced    *)
(* are collected until the threshold is reached, and the group signature   *)
(* is recovered.  All of it runs in goroutines: counters below say how     *)
(* many of them are at each point.  A share is the mediator that signed.   *)
(***************************************************************************)
EXTENDS Integers, Sequences, FiniteSets

CONSTANTS
  Mediators,    \* the active mediators
  Local,        \* GetLocalActiveMediators
  BadSigners,   \* mediators whose shares do not verify
  Units, Author,
  Valid,        \* units that pass ValidateUnitExceptGroupSig
  Threshold,    \* GetCurThreshold
  MaxHanded,    \* bound: how often each unit is handed to the signers
  PeerShares,   \* shares that peers send, pairs of a unit and a mediator
  NoUnit

OwnUnits == {u \in Units : Author[u] \in Local}

ASSUME SignAssumption ==
  /\ Local \subseteq Mediators
  /\ BadSigners \subseteq Mediators
  /\ Author \in [Units -> Mediators] /\ Valid \subseteq Units
  /\ Threshold \in Nat \ {0} /\ MaxHanded \in [Units -> Nat \ {0}]
  /\ PeerShares \subseteq OwnUnits \X Mediators
  /\ NoUnit \notin Units

VARIABLES
  producing,    \* the unit MaybeProduceUnit is handing over, or NoUnit
  handed,       \* how often a unit was handed to the signers
  senders,      \* addToTBLSSignBuf calls: unit, copy, mediator at, still to do
  signBuf,      \* toTBLSSignBuf, a channel per local mediator
  certified,    \* mediators with a certified DKG, whose signTBLSLoop runs
  looking,      \* addToTBLSRecoverBuf goroutines, by unit and signer
  appending,    \* those that found the unit's sigShareSet
  collecting,   \* units with a sigShareSet in toTBLSRecoverBuf
  shares,       \* the shares in a unit's sigShareSet
  recovering,   \* recoverUnitTBLS goroutines
  waiting,      \* those that found the sigShareSet, waiting for its opLock
  sent,         \* GroupSigEvents of a unit
  bad,          \* units whose group signature does not verify
  received      \* shares received from peers

sigVars == <<looking, appending, collecting, shares, recovering, waiting, sent, bad>>
vars == <<producing, handed, senders, signBuf, certified, received, sigVars>>

(* The channels hold at most Threshold units; everything else is counted.   *)
TypeOK ==
  /\ producing \in OwnUnits \union {NoUnit}
  /\ \A u \in Units : handed[u] \in 0 .. MaxHanded[u]
  /\ senders \subseteq [unit : Units, copy : Nat, at : Local, todo : SUBSET Local]
  /\ signBuf \in [Local -> Seq(Units)]
  /\ \A m \in Local : Len(signBuf[m]) <= Threshold
  /\ certified \subseteq Local
  /\ looking \in [Units -> [Mediators -> Nat]]
  /\ appending \in [OwnUnits -> [Mediators -> Nat]]
  /\ collecting \subseteq OwnUnits
  /\ shares \in [OwnUnits -> Seq(Mediators)]
  /\ recovering \in [OwnUnits -> Nat]
  /\ waiting \in [OwnUnits -> Nat]
  /\ sent \in [OwnUnits -> Nat]
  /\ bad \subseteq OwnUnits
  /\ received \subseteq PeerShares

\* NewMediatorPlugin with initTBLSBuf.
Init ==
  /\ producing = NoUnit
  /\ handed = [u \in Units |-> 0]
  /\ senders = {}
  /\ signBuf = [m \in Local |-> <<>>]
  /\ certified = {}
  /\ looking = [u \in Units |-> [m \in Mediators |-> 0]]
  /\ appending = [u \in OwnUnits |-> [m \in Mediators |-> 0]]
  /\ collecting = {}
  /\ shares = [u \in OwnUnits |-> <<>>]
  /\ recovering = [u \in OwnUnits |-> 0]
  /\ waiting = [u \in OwnUnits |-> 0]
  /\ sent = [u \in OwnUnits |-> 0]
  /\ bad = {}
  /\ received = {}

-----------------------------------------------------------------------------
(* Handing a unit to the local mediators *)

\* One more call of addToTBLSSignBuf for u, which goes through the local
\* mediators in an arbitrary order.
Hand(u) ==
  /\ handed[u] < MaxHanded[u]
  /\ handed' = [handed EXCEPT ![u] = @ + 1]
  /\ \E m \in Local :
       senders' = senders \union {[unit |-> u, copy |-> handed[u] + 1, at |-> m, todo |-> Local]}

\* MaybeProduceUnit: initTBLSRecoverBuf, then addToTBLSSignBuf in the
\* production loop's own goroutine.
Produce(u) ==
  /\ producing = NoUnit /\ handed[u] = 0
  /\ producing' = u
  /\ collecting' = collecting \union {u}
  /\ Hand(u)
  /\ UNCHANGED <<signBuf, certified, received, looking, appending, shares,
                 recovering, waiting, sent, bad>>

\* ToUnitTBLSSign: by BroadcastUnit for a unit of this node, once the
\* production loop has published it, or for a unit of a peer.
ToUnitTBLSSign(u) ==
  /\ u \in OwnUnits => handed[u] > 0 /\ producing # u
  /\ Hand(u)
  /\ UNCHANGED <<producing, signBuf, certified, received, sigVars>>

\* Mutant: a full channel does not block.
RoomUnbounded(m) == TRUE

\* A send to a channel blocks until there is room.
Room(m) == Len(signBuf[m]) < Threshold

\* addToTBLSSignBuf sends to one mediator and goes on to another.
AddToTBLSSignBuf(s) ==
  LET rest == s.todo \ {s.at} IN
  /\ Room(s.at)
  /\ signBuf' = [signBuf EXCEPT ![s.at] = Append(@, s.unit)]
  /\ IF rest = {}
     THEN /\ senders' = senders \ {s}
          /\ producing' = IF s.copy = 1 /\ s.unit = producing THEN NoUnit ELSE producing
     ELSE /\ \E m \in rest :
               senders' = (senders \ {s}) \union {[s EXCEPT !.at = m, !.todo = rest]}
          /\ UNCHANGED producing
  /\ UNCHANGED <<handed, certified, received, sigVars>>

-----------------------------------------------------------------------------
(* Signing and recovery *)

\* recoverUnitsTBLS: a recovery goroutine for every unit of m that is collecting.
RecoverUnitsTBLS(m) ==
  [u \in OwnUnits |->
     recovering[u] + (IF u \in collecting /\ Author[u] = m THEN 1 ELSE 0)]

\* The end of the VSS protocol for m: signTBLSLoop and recoverUnitsTBLS start.
Certify(m) ==
  /\ m \notin certified
  /\ certified' = certified \union {m}
  /\ recovering' = RecoverUnitsTBLS(m)
  /\ UNCHANGED <<producing, handed, senders, signBuf, received, looking, appending,
                 collecting, shares, waiting, sent, bad>>

\* signTBLSLoop takes a unit and signs it if it is valid.
SignTBLS(m) ==
  /\ m \in certified /\ signBuf[m] # <<>>
  /\ signBuf' = [signBuf EXCEPT ![m] = Tail(@)]
  /\ LET u == Head(signBuf[m]) IN
     looking' = [looking EXCEPT ![u][m] = IF u \in Valid THEN @ + 1 ELSE @]
  /\ UNCHANGED <<producing, handed, senders, certified, received, appending, collecting,
                 shares, recovering, waiting, sent, bad>>

\* ToTBLSRecover: a share of a unit that this node has, from a peer.
ToTBLSRecover(u, m) ==
  /\ <<u, m>> \in PeerShares \ received
  /\ handed[u] > 0
  /\ received' = received \union {<<u, m>>}
  /\ looking' = [looking EXCEPT ![u][m] = @ + 1]
  /\ UNCHANGED <<producing, handed, senders, signBuf, certified, appending, collecting,
                 shares, recovering, waiting, sent, bad>>

\* addToTBLSRecoverBuf finds the unit's sigShareSet, or drops the share: the
\* author is not local, or the signature has been recovered.
FindShareSet(u, m) ==
  /\ looking[u][m] > 0
  /\ looking' = [looking EXCEPT ![u][m] = @ - 1]
  /\ appending' = IF u \in collecting THEN [appending EXCEPT ![u][m] = @ + 1] ELSE appending
  /\ UNCHANGED <<producing, handed, senders, signBuf, certified, received, collecting,
                 shares, recovering, waiting, sent, bad>>

\* Mutant: only the first share starts a recovery.
AfterAppendFirst(u) ==
  [recovering EXCEPT ![u] = IF shares[u] = <<>> THEN @ + 1 ELSE @]

\* Every share starts a recovery.
AfterAppend(u) == [recovering EXCEPT ![u] = @ + 1]

\* It appends the share and starts a recovery.
AppendShare(u, m) ==
  /\ appending[u][m] > 0
  /\ appending' = [appending EXCEPT ![u][m] = @ - 1]
  /\ shares' = [shares EXCEPT ![u] = Append(@, m)]
  /\ recovering' = AfterAppend(u)
  /\ UNCHANGED <<producing, handed, senders, signBuf, certified, received, looking,
                 collecting, waiting, sent, bad>>

\* recoverUnitTBLS up to the lock.
FindForRecovery(u) ==
  /\ recovering[u] > 0
  /\ recovering' = [recovering EXCEPT ![u] = @ - 1]
  /\ waiting' = [waiting EXCEPT ![u] = IF u \in collecting THEN @ + 1 ELSE @]
  /\ UNCHANGED <<producing, handed, senders, signBuf, certified, received, looking,
                 appending, collecting, shares, sent, bad>>

\* Mutant: the buffer is not looked up again under the lock.
RecoverableStale(u) == Len(shares[u]) >= Threshold /\ Author[u] \in certified

\* The checks of recoverUnitTBLS under the lock: the buffer is still there,
\* there are enough shares, and the author's distributed key is certified.
Recoverable(u) ==
  u \in collecting /\ Len(shares[u]) >= Threshold /\ Author[u] \in certified

\* tbls.Recover verifies shares in the order they came in until it has
\* Threshold of them, and interpolates; it does not see that two are the same.
Used(u) == {shares[u][i] : i \in 1 .. Threshold}
RecoverFails(u) == Used(u) \intersect BadSigners # {}
RecoverVerifies(u) == Cardinality(Used(u)) = Threshold

\* The units still collecting after Recover: its failure keeps the buffer.
Remaining(u) == IF RecoverFails(u) THEN collecting ELSE collecting \ {u}

\* recoverUnitTBLS under the lock.  The shares are popped in any case.
RecoverUnitTBLS(u) ==
  /\ waiting[u] > 0
  /\ waiting' = [waiting EXCEPT ![u] = @ - 1]
  /\ IF Recoverable(u)
     THEN /\ shares' = [shares EXCEPT ![u] = <<>>]
          /\ collecting' = Remaining(u)
          /\ IF RecoverFails(u)
             THEN UNCHANGED <<sent, bad>>
             ELSE /\ sent' = [sent EXCEPT ![u] = @ + 1]
                  /\ bad' = IF RecoverVerifies(u) THEN bad ELSE bad \union {u}
     ELSE UNCHANGED <<collecting, shares, sent, bad>>
  /\ UNCHANGED <<producing, handed, senders, signBuf, certified, received, looking,
                 appending, recovering>>

Signing ==
  \/ \E s \in senders : AddToTBLSSignBuf(s)
  \/ \E m \in Local : Certify(m) \/ SignTBLS(m)
  \/ \E u \in Units, m \in Mediators : FindShareSet(u, m)
  \/ \E u \in OwnUnits :
       \/ \E m \in Mediators : AppendShare(u, m)
       \/ FindForRecovery(u) \/ RecoverUnitTBLS(u)

Next ==
  \/ Signing
  \/ \E u \in OwnUnits : Produce(u)
  \/ \E u \in Units : ToUnitTBLSSign(u)
  \/ \E u \in OwnUnits, m \in Mediators : ToTBLSRecover(u, m)

Spec == Init /\ [][Next]_vars

\* Goroutines that can run do run, and the VSS protocol completes for the
\* mediators for which it can.  A sender makes progress when its channel has
\* room, and every channel with a running signTBLSLoop is drained.
FairSpec ==
  /\ Spec
  /\ \A m \in Local : WF_vars(Certify(m)) /\ WF_vars(SignTBLS(m))
  /\ \A m \in Local : WF_vars(\E s \in senders : s.at = m /\ AddToTBLSSignBuf(s))
  /\ \A u \in Units, m \in Mediators : WF_vars(FindShareSet(u, m))
  /\ \A u \in OwnUnits, m \in Mediators : WF_vars(AppendShare(u, m))
  /\ \A u \in OwnUnits : WF_vars(FindForRecovery(u)) /\ WF_vars(RecoverUnitTBLS(u))

-----------------------------------------------------------------------------
(* Properties *)

(* A unit of this node has a share buffer from its production until its      *)
(* group signature is recovered, and exactly one group signature is sent,    *)
(* although shares may be appended to a buffer that was just removed and     *)
(* several goroutines try to recover at once (the second look-up under the   *)
(* lock in recoverUnitTBLS).                                                 *)
RecoveredOnce ==
  \A u \in OwnUnits :
    sent[u] = IF handed[u] = 0 \/ u \in collecting THEN 0 ELSE 1

(* A unit of this node gets its group signature, in whatever order the       *)
(* certification of the mediators, the signing and the collecting of shares  *)
(* happen, if the local mediators reach the threshold and no share of the    *)
(* unit fails to verify: such a share takes others with it when              *)
(* recoverUnitTBLS pops them.                                                *)
GroupSigned ==
  \A u \in OwnUnits :
    handed[u] > 0 ~> (sent[u] > 0 \/ \E m \in BadSigners : <<u, m>> \in received)

(* The comment of tbls.Recover: the recovered signature can be verified with  *)
(* the shared public key.                                                     *)
GroupSigsVerify == bad = {}

=============================================================================
