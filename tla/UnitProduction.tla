--------------------------- MODULE UnitProduction ---------------------------
(***************************************************************************)
(* One mediator node: the production loop of consensus/mediatorplugin, the *)
(* property database it reads and updates (dag/mediator_schedule.go,       *)
(* dag/unit_production.go), and the goroutines that write units to the     *)
(* chain database (Dag.SaveUnit), for its own units and for units of       *)
(* peers.  The process may crash at any point, also between two database   *)
(* writes, and restart.                                                    *)
(*                                                                         *)
(* A unit is its height, its timestamp and its author.                     *)
(***************************************************************************)
EXTENDS MediatorSchedule

CONSTANTS
  Local,                  \* mp.mediators, the mediators this node controls
  EnableStaleProduction,  \* the command line flag of that name
  PeerUnits,              \* units that peers may send
  MaxNum,                 \* bound on unit heights
  MaxSaving,              \* bound on concurrent Dag.SaveUnit calls
  MaxCrashes              \* bound on crashes

Units == [num : 1 .. MaxNum, time : Times, author : Mediators]
Genesis == [num |-> 0, time |-> GenesisTime, author |-> NoAddress]

ASSUME ProductionAssumption ==
  /\ Local \subseteq Mediators
  /\ EnableStaleProduction \in BOOLEAN
  /\ MaxNum \in Nat /\ MaxSaving \in Nat /\ MaxCrashes \in Nat
  /\ PeerUnits \subseteq Units

VARIABLES
  now,                \* the wall clock, rounded to the second
  up,                 \* the process is running
  productionEnabled,  \* MediatorPlugin.productionEnabled
  result,             \* what MaybeProduceUnit returned in this second
  dgp,                \* the stored DynamicGlobalProperty
  shuffled,           \* the stored CurrentShuffledMediators
  totalMissed,        \* TotalMissed of every active mediator
  lostSlots,          \* sum of the missed slots that units were applied with
  released,           \* units handed to the signers and to newUnitFeed
  stored,             \* units whose header, body and number are on disk
  head,               \* the unit that HeadUnitKey points to
  memUnit,            \* MemDag.currentUnit
  saving,             \* the Dag.SaveUnit calls in progress
  crashes             \* number of crashes so far

propVars == <<dgp, shuffled, totalMissed, lostSlots>>
diskVars == <<stored, head>>
loopVars == <<productionEnabled, result, released>>
vars == <<now, up, loopVars, propVars, diskVars, memUnit, saving, crashes>>

Conditions == {"none", "Produced", "NotSynced", "NotMyTurn", "NotTimeYet",
               "NoPrivateKey", "Lag", "ExceptionProducing", "UnknownCondition"}
Stages == {"check", "write", "head"}

(* Every variable has the type of the field it stands for; heights, slots   *)
(* and counters are naturals and times are within the model's bound.        *)
TypeOK ==
  /\ now \in Times
  /\ up \in BOOLEAN
  /\ productionEnabled \in BOOLEAN
  /\ result \in Conditions
  /\ dgp \in [HeadUnitNum : 0 .. MaxNum, HeadUnitTime : Times,
              HeadUnitHash : Units \union {Genesis}, CurrentASlot : Nat]
  /\ shuffled \in Seq(ActiveSet)
  /\ totalMissed \in [ActiveSet -> Nat]
  /\ lostSlots \in Nat
  /\ released \subseteq Units
  /\ stored \subseteq Units \union {Genesis}
  /\ head \in Units \union {Genesis}
  /\ memUnit \in Units \union {Genesis}
  /\ saving \subseteq [unit : Units, by : {"local", "peer"}, stage : Stages]
  /\ crashes \in 0 .. MaxCrashes

\* chaincmd.go initGenesis (InitPropertyDB), then NewDag and NewMediatorPlugin.
Init ==
  /\ now \in Times
  /\ up = TRUE
  /\ productionEnabled = EnableStaleProduction
  /\ result = "none"
  /\ dgp = [HeadUnitNum |-> 0, HeadUnitTime |-> GenesisTime,
            HeadUnitHash |-> Genesis, CurrentASlot |-> 0]
  /\ shuffled = Shuffle(GenesisTime)
  /\ totalMissed = [m \in ActiveSet |-> 0]
  /\ lostSlots = 0
  /\ released = {}
  /\ stored = {Genesis}
  /\ head = Genesis
  /\ memUnit = Genesis
  /\ saving = {}
  /\ crashes = 0

-----------------------------------------------------------------------------
(* The production loop *)

NextSlotTime == GetSlotTime(dgp, 1)
Slot == GetSlotAtTime(dgp, now)
Scheduled == GetScheduledMediator(dgp, shuffled, Slot)

\* time.Now() goes on, or is adjusted; the loop has not run in the new second.
Clock(t) ==
  /\ t # now
  /\ now' = t
  /\ result' = "none"
  /\ UNCHANGED <<up, productionEnabled, released, propVars, diskVars, memUnit,
                 saving, crashes>>

\* Mutant: production is not latched once enabled.
SyncedNow == NextSlotTime >= now

\* MaybeProduceUnit, first check: a node that is behind waits.
Synced == productionEnabled \/ NextSlotTime >= now

\* A return of MaybeProduceUnit that leaves only the enabled flag behind.
Return(condition) ==
  /\ up
  /\ result = "none"
  /\ result' = condition
  /\ productionEnabled' = (condition # "NotSynced")
  /\ UNCHANGED <<now, up, released, propVars, diskVars, memUnit, saving, crashes>>

NotSynced == ~Synced /\ Return("NotSynced")

NotTimeYet == Synced /\ Slot = 0 /\ Return("NotTimeYet")

\* A slot is due.  The panic of mediator_plugin.go:166 would be here; see
\* SlotAfterHead.
Due == Synced /\ Slot > 0

NotMyTurn ==
  /\ Due
  /\ Scheduled \notin Local
  /\ Return(IF Scheduled = NoAddress THEN "UnknownCondition" ELSE "NotMyTurn")

\* The key store does not unlock the account.
NoPrivateKey == Due /\ Scheduled \in Local /\ Return("NoPrivateKey")

\* Both times are whole seconds, so within 500 ms means equal.
OnTime == GetSlotTime(dgp, Slot) = now

Lag == Due /\ Scheduled \in Local /\ ~OnTime /\ Return("Lag")

\* GenerateUnit returned an empty unit: CreateUnit failed.
ExceptionProducing ==
  Due /\ Scheduled \in Local /\ OnTime /\ Return("ExceptionProducing")

\* Mutant: the parent is always the memdag's current unit.
PendingUnitOnMem ==
  [num |-> memUnit.num + 1, time |-> GetSlotTime(dgp, Slot), author |-> Scheduled]

\* GenerateUnit: the parent is the higher of the memdag's and the database's
\* current unit, and the height is one more.
PendingUnit ==
  [num |-> (IF memUnit.num > head.num THEN memUnit.num ELSE head.num) + 1,
   time |-> GetSlotTime(dgp, Slot), author |-> Scheduled]

\* ApplyUnit writes TotalMissed, then the dynamic property, then the schedule;
\* the writes up to "done" have reached the disk.
ApplyUnit(unit, done) ==
  LET missed == MissedUnits(dgp, unit.time)
      newDgp == UpdateDynGlobalProp(dgp, unit, missed)
  IN  /\ totalMissed' = [m \in ActiveSet |->
           totalMissed[m] + (IF m \in Charged(dgp, shuffled, missed) THEN 1 ELSE 0)]
      /\ IF done = "missed"
         THEN UNCHANGED <<dgp, lostSlots>>
         ELSE dgp' = newDgp /\ lostSlots' = lostSlots + missed
      /\ IF done = "all"
         THEN shuffled' = UpdateMediatorSchedule(newDgp, shuffled)
         ELSE UNCHANGED shuffled

\* The part of MaybeProduceUnit that comes to GenerateUnit.
Producing ==
  /\ up
  /\ result = "none"
  /\ Due
  /\ Scheduled \in Local
  /\ OnTime
  /\ PendingUnit.num <= MaxNum
  /\ Cardinality(saving) < MaxSaving

\* PushUnit starts SaveUnit in a goroutine and does not wait for it.
Produce ==
  /\ Producing
  /\ ApplyUnit(PendingUnit, "all")
  /\ saving' = saving \union
               {[unit |-> PendingUnit, by |-> "local", stage |-> "check"]}
  /\ released' = released \union {PendingUnit}
  /\ productionEnabled' = TRUE
  /\ result' = "Produced"
  /\ UNCHANGED <<now, up, diskVars, memUnit, crashes>>

MaybeProduceUnit ==
  NotSynced \/ NotTimeYet \/ NotMyTurn \/ NoPrivateKey \/ Lag
            \/ ExceptionProducing \/ Produce

-----------------------------------------------------------------------------
(* Saving units *)

\* InsertDag, from the fetcher or the downloader: SaveUnit of a peer's unit,
\* or of one of this node's own units that comes back.
ReceiveUnit(u) ==
  /\ up
  /\ Cardinality(saving) < MaxSaving
  /\ [unit |-> u, by |-> "peer", stage |-> "check"] \notin saving
  /\ saving' = saving \union {[unit |-> u, by |-> "peer", stage |-> "check"]}
  /\ UNCHANGED <<now, up, loopVars, propVars, diskVars, memUnit, crashes>>

\* Dag.SaveUnit: a unit that is there already is an error, which the producer
\* does not look at.
CheckExists(s) ==
  /\ s.stage = "check"
  /\ saving' = (saving \ {s}) \union
               (IF s.unit \in stored THEN {} ELSE {[s EXCEPT !.stage = "write"]})
  /\ UNCHANGED <<now, up, loopVars, propVars, diskVars, memUnit, crashes>>

\* UnitRepository.SaveUnit up to SaveHashByNumber.
WriteUnit(s) ==
  /\ s.stage = "write"
  /\ stored' = stored \union {s.unit}
  /\ saving' = (saving \ {s}) \union {[s EXCEPT !.stage = "head"]}
  /\ UNCHANGED <<now, up, loopVars, propVars, head, memUnit, crashes>>

\* ... or one of its error returns before that.
WriteFails(s) ==
  /\ s.stage = "write"
  /\ saving' = saving \ {s}
  /\ UNCHANGED <<now, up, loopVars, propVars, diskVars, memUnit, crashes>>

\* ... and its last writes, which move the head to this unit whatever its height.
PutHead(s) ==
  /\ s.stage = "head"
  /\ head' = s.unit
  /\ saving' = saving \ {s}
  /\ UNCHANGED <<now, up, loopVars, propVars, stored, memUnit, crashes>>

-----------------------------------------------------------------------------
(* Crash and restart *)

Die ==
  /\ crashes < MaxCrashes
  /\ crashes' = crashes + 1
  /\ up' = FALSE
  /\ saving' = {}
  /\ result' = "none"
  /\ UNCHANGED <<now, productionEnabled, released, diskVars, memUnit>>

Crash == up /\ Die /\ UNCHANGED propVars

\* The process dies inside ApplyUnit, or after it and before the unit is
\* handed on: the unit is lost, the database writes are not.
CrashProducing(done) ==
  /\ Producing
  /\ ApplyUnit(PendingUnit, done)
  /\ Die

\* NewMemDag takes the stored unit of the greatest height for its current unit.
Restart ==
  /\ ~up
  /\ up' = TRUE
  /\ productionEnabled' = EnableStaleProduction
  /\ memUnit' \in {u \in stored : \A v \in stored : v.num <= u.num}
  /\ UNCHANGED <<now, result, released, propVars, diskVars, saving, crashes>>

-----------------------------------------------------------------------------
Next ==
  \/ \E t \in Times : Clock(t)
  \/ MaybeProduceUnit
  \/ \E u \in PeerUnits \union released : ReceiveUnit(u)
  \/ \E s \in saving : CheckExists(s) \/ WriteUnit(s) \/ WriteFails(s) \/ PutHead(s)
  \/ Crash
  \/ \E done \in {"missed", "dgp", "all"} : CrashProducing(done)
  \/ Restart

Spec == Init /\ [][Next]_vars

-----------------------------------------------------------------------------
(* A node that keeps time: the loop runs in every second and a save is over
   before the next second starts; nothing crashes and no call fails.  Each
   goroutine of the code takes its next step sooner or later: the loop starts
   its successor before it ends, whatever it returned.                       *)

TimelyTick ==
  /\ result # "none"
  /\ saving = {}
  /\ now < MaxTime
  /\ Clock(now + 1)

TimelyNext ==
  \/ TimelyTick
  \/ NotSynced \/ NotTimeYet \/ NotMyTurn \/ Lag \/ Produce
  \/ \E s \in saving : CheckExists(s) \/ WriteUnit(s) \/ PutHead(s)

TimelySpec == Init /\ [][TimelyNext]_vars /\ WF_vars(TimelyNext)

-----------------------------------------------------------------------------
(* Properties *)

(* GetSlotAtTime never reports a due slot for a time that is not after the  *)
(* head unit's, so the panic of MaybeProduceUnit cannot be reached, whatever *)
(* the clock does and wherever the process crashed.                          *)
SlotAfterHead ==
  \A t \in Times : GetSlotAtTime(dgp, t) > 0 => t > dgp.HeadUnitTime

(* GetSlotAtTime returns the greatest N with GetSlotTime(N) <= when and 0 if *)
(* there is none, as its comment says, in every state the chain reaches.     *)
SlotIsGreatest ==
  \A t \in Times :
    LET n == GetSlotAtTime(dgp, t)
    IN  /\ n > 0 => GetSlotTime(dgp, n) <= t
        /\ t < GetSlotTime(dgp, n + 1)

(* CurrentASlot counts all the slots since genesis up to the head unit's:    *)
(* it is the head unit's time measured in intervals, also after crashes.     *)
AbsoluteSlot ==
  dgp.HeadUnitTime = GenesisTime + dgp.CurrentASlot * Interval

(* No two units that the node hands to the signers and to the network are    *)
(* for the same slot, across crashes, restarts and clock adjustments.        *)
OneUnitPerSlot ==
  \A u, v \in released : u.time = v.time => u = v

(* A unit only ever moves the head unit time and the absolute slot forward   *)
(* (ApplyUnit), and nothing else than a unit moves them.                      *)
HeadAdvances ==
  [][dgp' # dgp => /\ dgp'.HeadUnitTime > dgp.HeadUnitTime
                   /\ dgp'.CurrentASlot > dgp.CurrentASlot]_vars

\* The entries that TotalMissed counts: the k-th one of mediator m is <<m, k>>.
MissedEntries == UNION {{m} \X (1 .. totalMissed[m]) : m \in ActiveSet}

(* Until the first crash every absolute slot is accounted for once: it is     *)
(* the slot of a released unit or it was missed, and the charges to mediators *)
(* (TotalMissed) never exceed the missed slots.  A crash inside ApplyUnit may  *)
(* charge a slot twice.                                                       *)
SlotsAccounted ==
  crashes = 0 =>
    /\ dgp.CurrentASlot = Cardinality(released) + lostSlots
    /\ Cardinality(MissedEntries) <= lostSlots

(* In every aSize consecutive slots every active mediator has exactly one.   *)
FairRound ==
  \A m \in ActiveSet : \E n \in 1 .. aSize :
    /\ GetScheduledMediator(dgp, shuffled, n) = m
    /\ \A k \in 1 .. aSize :
         GetScheduledMediator(dgp, shuffled, k) = m => k = n

(* CurrentASlot is the head unit's height plus the slots lost, the equality   *)
(* that the comment on the field states (global_property.go:55).              *)
SlotCount == dgp.CurrentASlot = dgp.HeadUnitNum + lostSlots

(* A push that fails is unwound (comment on PushUnit): with no save in        *)
(* progress, the unit that the dynamic property calls the head is on disk.    *)
PushUnwound == (up /\ saving = {}) => dgp.HeadUnitHash \in stored

(* A node that keeps time and is allowed to produce never stops producing:    *)
(* a round before the end of time it still does, across several shuffles.     *)
(* It is allowed if it starts in time for the first slot or with the stale    *)
(* production flag.                                                           *)
NeverStarves ==
  (EnableStaleProduction \/ now <= GenesisTime + Interval)
    => <>(dgp.HeadUnitTime + aSize * Interval > MaxTime)

=============================================================================
