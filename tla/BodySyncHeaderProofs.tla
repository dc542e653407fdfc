------------------------ MODULE BodySyncHeaderProofs ------------------------
(***************************************************************************)
(* The invariant of the download queue, for every set of peers, cache      *)
(* size, request size and chain: what it needs of sets and numbers, and    *)
(* the steps of the peers, of fetchHeaders and of processHeaders.          *)
(***************************************************************************)
EXTENDS BodySync, FiniteSetTheorems, WellFoundedInduction, TLAPS

\* The provers of a step that names none, in the order they are tried.
USE Zenon, SMT, Z3

\* No reservation has failed.
Intact == ended["fetchBodies"] # "invalidChain"

\* What every step but a failing reservation does.
SameOutcome == env' = env /\ (Intact' <=> Intact)

\* The window begins at the latest behind the last scheduled unit, and the units
\* with an entry in the cache are, if units are reserved in the order of their
\* heights, those from its beginning on.
CachePrefix ==
  /\ offset <= scheduled + 1
  /\ HeightsExact => \A n \in cache : offset..n \subseteq cache

\* Results returns something to import, or nil, and a reservation is for a peer.
LocalsSet ==
  /\ content = "import" => results # {}
  /\ fetch.pc = "reserve" => fetch.peer # None

\* Batches of headers follow one another.
HeadersAhead ==
  /\ scheduled < from
  /\ batch # None /\ batch # 0 => scheduled < batch /\ batch < from
  /\ \A k \in 1..N : headerProcCh = <<k>> =>
        scheduled < k /\ k < from /\ (batch # None /\ batch # 0 => batch < k)

\* TypeOK in parts, one for each group of variables.
FetchStates == [pc : {"select", "pending", "inFlight", "assign", "reserve"},
                todo : SUBSET Peers, peer : Peers \union {None}, progressed : BOOLEAN,
                throttled : BOOLEAN, running : BOOLEAN, all : BOOLEAN]
ControlType ==
  /\ env \in Environments /\ content \in {"results", "asleep", "import"}
  /\ closed \in BOOLEAN /\ cancelled \in BOOLEAN /\ quit \in BOOLEAN
PeerType ==
  /\ registered \subseteq Peers /\ idle \subseteq registered /\ quick \subseteq registered
  /\ lacks \in [Peers -> SUBSET Units] /\ joins \in 0..MaxJoins
QueueType ==
  /\ tasks \subseteq Units /\ orphans \subseteq Peers
  /\ pend \in [Peers -> SUBSET Units] /\ \A p \in Peers : Cardinality(pend[p]) <= MaxBlockFetch
  /\ done \subseteq cache /\ cache \subseteq offset..(offset + CacheItems - 1)
  /\ offset \in 1..(N + 1) /\ limit \in 1..CacheItems
HeaderType ==
  /\ from \in 1..(N + 1) /\ headerProcCh \in {<<>>} \union {<<k>> : k \in 0..N}
  /\ batch \in (0..N) \union {None} /\ scheduled \in 0..N
FetchType ==
  /\ bodyWakeCh \in {<<>>, <<TRUE>>, <<FALSE>>} /\ finished \in BOOLEAN
  /\ fetch \in FetchStates
ContentType ==
  /\ results \subseteq Units /\ imported \subseteq Units
  /\ pivot \in 0..N /\ committed \in BOOLEAN
SpawnType == ended \in [Goroutines -> Errors \union {"nil", None}] /\ err \in Errors \union {"nil"}

(* The parts make up TypeOK, before a step and after it. *)
LEMMA TypeParts ==
  TypeOK <=> /\ ControlType /\ PeerType /\ QueueType /\ HeaderType
             /\ FetchType /\ ContentType /\ SpawnType
BY Zenon DEF TypeOK, ControlType, PeerType, QueueType, HeaderType, FetchType, ContentType,
             SpawnType, FetchStates

(* The same for the state after a step. *)
LEMMA TypePartsNext ==
  TypeOK' <=> /\ ControlType' /\ PeerType' /\ QueueType' /\ HeaderType'
              /\ FetchType' /\ ContentType' /\ SpawnType'
BY Zenon DEF TypeOK, ControlType, PeerType, QueueType, HeaderType, FetchType, ContentType,
             SpawnType, FetchStates

(* A group of variables that a step leaves alone keeps its type. *)
LEMMA TypeKept ==
  ASSUME TypeOK
  PROVE  /\ UNCHANGED <<env, content, closed, cancelled, quit>> => ControlType'
         /\ UNCHANGED peerVars => PeerType'
         /\ UNCHANGED queueVars => QueueType'
         /\ UNCHANGED headerVars => HeaderType'
         /\ UNCHANGED fetchVars => FetchType'
         /\ UNCHANGED contentVars => ContentType'
         /\ UNCHANGED spawnVars => SpawnType'
<1>0. /\ ControlType /\ PeerType /\ QueueType /\ HeaderType /\ FetchType /\ ContentType /\ SpawnType
  BY TypeParts
<1>1. UNCHANGED <<env, content, closed, cancelled, quit>> => ControlType'
  BY <1>0 DEF ControlType
<1>2. UNCHANGED peerVars => PeerType'
  BY <1>0 DEF PeerType, peerVars
<1>3. UNCHANGED queueVars => QueueType'
  BY <1>0 DEF QueueType, queueVars
<1>4. UNCHANGED headerVars => HeaderType'
  BY <1>0 DEF HeaderType, headerVars
<1>5. UNCHANGED fetchVars => FetchType'
  BY <1>0, Zenon DEF FetchType, fetchVars
<1>6. UNCHANGED contentVars => ContentType'
  BY <1>0 DEF ContentType, contentVars
<1>7. UNCHANGED spawnVars => SpawnType'
  BY <1>0 DEF SpawnType, spawnVars
<1> QED BY <1>1, <1>2, <1>3, <1>4, <1>5, <1>6, <1>7

(* The constants, one by one. *)
LEMMA SyncConstants ==
  /\ Master \in Peers /\ None \notin Peers /\ None \notin Nat
  /\ None \notin Errors /\ None # "nil"
  /\ N \in Nat /\ CacheItems \in Nat \ {0} /\ MaxResults \in Nat \ {0}
  /\ MaxHeaders \in Nat \ {0} /\ MaxQueued \in Nat \ {0} /\ MinFullBlocks \in Nat \ {0}
  /\ MaxBlockFetch \in Nat /\ MaxBlockFetch >= 2 /\ MaxJoins \in Nat
BY SyncAssumption

(* The fields of an environment. *)
LEMMA EnvironmentType ==
  ASSUME NEW e \in Environments
  PROVE  /\ e.ancestor \in Nat /\ e.batches \subseteq 1..N /\ e.batches # {} /\ e.empty \subseteq 1..N
         /\ e.limits \subseteq 1..CacheItems /\ e.pivot \in 0..N /\ e.faults \subseteq Faults
<1>1. e \in [ancestor : Nat, batches : (SUBSET (1..N)) \ {{}}, empty : SUBSET (1..N), limits : SUBSET (1..CacheItems),
             pivot : 0..N, faults : SUBSET Faults]
  BY SyncAssumption, Zenon
<1>2. /\ e.ancestor \in Nat /\ e.batches \in (SUBSET (1..N)) \ {{}} /\ e.empty \in SUBSET (1..N)
      /\ e.limits \in SUBSET (1..CacheItems) /\ e.pivot \in 0..N /\ e.faults \in SUBSET Faults
  BY <1>1, Zenon
<1>3. e.batches # {}
  BY <1>2
<1> QED BY <1>2, <1>3

(* Max of a non-empty bounded set of naturals. *)
LEMMA MaxFacts ==
  ASSUME NEW S \in SUBSET Nat, S # {}, NEW b \in Nat, \A s \in S : s <= b
  PROVE  Max(S) \in S /\ \A s \in S : s <= Max(S)
<1> DEFINE T == {b - s : s \in S}
<1>1. T \subseteq Nat /\ T # {}
  <2>1. \A s \in S : b - s \in Nat /\ b - s \in T
    BY SMT, Z3
  <2> QED BY <2>1, Zenon
<1>2. PICK t \in T : \A u \in T : t <= u
  <2> DEFINE R == OpToRel(<, Nat)
  <2>1. IsWellFoundedOn(R, Nat)
    BY NatLessThanWellFounded, Zenon
  <2>2. PICK t \in T : \A u \in T : ~(<<u, t>> \in R)
    BY <1>1, <2>1, WFMin, Zenon
  <2>3. \A u \in T : ~(u < t)
    BY <1>1, <2>2, Zenon DEF OpToRel
  <2> HIDE DEF R, T
  <2> QED BY <1>1, <2>2, <2>3, SMT, Z3
<1>3. PICK x \in S : t = b - x
  BY <1>2
<1>4. \A y \in S : x >= y
  <2> SUFFICES ASSUME NEW y \in S PROVE x >= y
    OBVIOUS
  <2>1. b - x <= b - y
    BY <1>2, <1>3
  <2> QED BY <2>1
<1>5. \E z \in S : \A y \in S : z >= y
  BY <1>3, <1>4
<1>6. Max(S) \in S /\ \A y \in S : Max(S) >= y
  BY <1>5, Zenon DEF Max
<1> QED BY <1>6

(* Min of two integers. *)
LEMMA MinOfTwo ==
  ASSUME NEW a \in Int, NEW b \in Int
  PROVE  Min({a, b}) = IF a <= b THEN a ELSE b
BY DEF Min

(* Sets of units are finite. *)
LEMMA FiniteUnits ==
  ASSUME NEW S \in SUBSET Units
  PROVE  IsFiniteSet(S) /\ Cardinality(S) \in Nat
<1>1. IsFiniteSet(Units)
  BY SyncConstants, FS_Interval, SMT, Z3 DEF Units
<1> QED BY <1>1, FS_Subset, FS_CardinalityType

(* Requests hold units. *)
LEMMA RequestedUnits ==
  ASSUME TypeOK
  PROVE  Requested \subseteq Units
BY SMT, Z3 DEF TypeOK, Requested

(* resultSlots is a number, possibly negative. *)
LEMMA SlotsInteger ==
  ASSUME TypeOK
  PROVE  ResultSlots \in Int
<1> DEFINE window == offset..(offset + limit - 1)
           filled == {n \in window : offset..n \subseteq cache}
           fetching == {n \in Requested : n < offset + limit}
<1>1. offset \in Nat /\ limit \in Nat
  BY SyncConstants, SMT, Z3 DEF TypeOK
<1>2. IsFiniteSet(filled \intersect done)
  <2>1. IsFiniteSet(window)
    BY <1>1, FS_Interval
  <2>2. filled \intersect done \in SUBSET window
    OBVIOUS
  <2> HIDE DEF window, filled
  <2> QED BY <2>1, <2>2, FS_Subset
<1>3. fetching \in SUBSET Units
  BY RequestedUnits
<1>4. Cardinality(filled \intersect done) \in Nat /\ Cardinality(fetching) \in Nat
  BY <1>2, <1>3, FS_CardinalityType, FiniteUnits
<1>5. ResultSlots = limit - Cardinality(filled \intersect done) - Cardinality(fetching)
  BY DEF ResultSlots
<1> HIDE DEF filled, fetching
<1> QED BY <1>1, <1>4, <1>5

(* Up to 2^24 the priority of a unit is its height. *)
LEMMA ExactPriority ==
  ASSUME TypeOK, HeightsExact, NEW n \in Units, NEW k \in Units
  PROVE  n \in Nat /\ k \in Nat /\ (Priority(n) <= Priority(k) <=> n <= k)
<1>1. env.ancestor \in Nat /\ N \in Nat
  BY SyncConstants, EnvironmentType DEF TypeOK
<1>2. ASSUME NEW u \in Units PROVE u \in Nat /\ Priority(u) = env.ancestor + u
  <2>1. u \in Nat /\ env.ancestor + u <= ExactHeights
    BY <1>1, SMT, Z3 DEF Units, HeightsExact, ExactHeights
  <2> QED BY <2>1, Zenon DEF Priority, Float32
<1>3. n \in Nat /\ k \in Nat /\ Priority(n) = env.ancestor + n /\ Priority(k) = env.ancestor + k
  BY <1>2
<1> QED BY <1>1, <1>3, SMT, Z3

(* What reserveHeaders pops of the queue: the last task is popped while slots *)
(* and places in the request are left.                                       *)
LEMMA PoppedFacts ==
  ASSUME NEW p, NEW count, NEW popped \in Popped(p, count)
  PROVE  /\ popped \subseteq tasks /\ InFront(popped, tasks)
         /\ popped = {} => ~GoesOn(p, count, {})
         /\ popped # {} => \E last \in popped : GoesOn(p, count, popped \ {last})
<1>1. popped = {} => InFront(popped, tasks)
  BY DEF InFront
<1> QED BY <1>1 DEF Popped

(* reserveHeaders takes the lowest tasks. *)
LEMMA PoppedLowest ==
  ASSUME TypeOK, HeightsExact, NEW p, NEW count, NEW popped \in Popped(p, count),
         NEW u \in popped, NEW k \in tasks, k < u
  PROVE  k \in popped
<1>1. popped \subseteq tasks /\ InFront(popped, tasks) /\ tasks \subseteq Units
  BY PoppedFacts DEF TypeOK
<1>2. u \in Units /\ k \in Units
  BY <1>1
<1>3. u \in Nat /\ k \in Nat /\ (Priority(u) <= Priority(k) <=> u <= k)
  BY <1>2, ExactPriority
<1>4. ~(u <= k)
  BY <1>3, SMT, Z3
<1> QED BY <1>1, <1>3, <1>4 DEF InFront

(* The size of a union. *)
LEMMA UnionBound ==
  ASSUME NEW S, NEW T, IsFiniteSet(S), IsFiniteSet(T)
  PROVE  /\ IsFiniteSet(S \union T) /\ Cardinality(S \union T) \in Nat
         /\ Cardinality(S \union T) <= Cardinality(S) + Cardinality(T)
<1>1. /\ IsFiniteSet(S \union T)
      /\ Cardinality(S \union T) = Cardinality(S) + Cardinality(T) - Cardinality(S \intersect T)
  BY FS_Union
<1>2. IsFiniteSet(S \intersect T)
  BY FS_Intersection
<1>3. /\ Cardinality(S) \in Nat /\ Cardinality(T) \in Nat
      /\ Cardinality(S \union T) \in Nat /\ Cardinality(S \intersect T) \in Nat
  BY <1>1, <1>2, FS_CardinalityType
<1> QED BY <1>1, <1>3

(* With exact heights a reservation stays in the part of the cache that fits  *)
(* into memory.  If it went beyond, all of that part would be finished, under *)
(* way or popped, and resultSlots leaves too few slots for that.              *)
LEMMA PoppedInWindow ==
  ASSUME TypeOK, TaskPartition, WindowKept, CachePrefix, HeightsExact,
         NEW p, NEW count, NEW popped \in Popped(p, count), NEW u \in popped
  PROVE  u \in offset..(offset + limit - 1)
<1> DEFINE window == offset..(offset + limit - 1)
           filled == {n \in window : offset..n \subseteq cache}
           finishedHere == filled \intersect done
           fetching == {n \in Requested : n < offset + limit}
           below == {j \in tasks : j < u}
<1>1. /\ tasks \union Requested \union done = offset..scheduled
      /\ done \subseteq cache /\ tasks \subseteq Units /\ u \in tasks
      /\ offset \in Nat /\ limit \in Nat \ {0} /\ scheduled \in Nat
  <2>1. u \in tasks
    BY PoppedFacts
  <2>2. tasks \union Requested \union done = offset..scheduled
    BY DEF TaskPartition, WindowKept
  <2> QED BY <2>1, <2>2, SyncConstants, SMT, Z3 DEF TypeOK
<1>2. u \in offset..scheduled
  BY <1>1
<1> SUFFICES ASSUME u > offset + limit - 1 PROVE FALSE
  BY <1>1, <1>2
<1>3. window \subseteq below \union fetching \union finishedHere
  <2> SUFFICES ASSUME NEW n \in window PROVE n \in below \union fetching \union finishedHere
    OBVIOUS
  <2>1. n \in Int /\ offset <= n /\ n < offset + limit /\ n < u /\ n \in offset..scheduled
    BY <1>1, <1>2, SMT, Z3
  <2>2. CASE n \in tasks
    BY <2>1, <2>2
  <2>3. CASE n \in Requested
    BY <2>1, <2>3
  <2>4. CASE n \in done
    BY <1>1, <2>4 DEF CachePrefix
  <2> QED BY <1>1, <2>1, <2>2, <2>3, <2>4
<1>4. below \in SUBSET Units /\ fetching \in SUBSET Units
  BY <1>1, RequestedUnits
<1>5. IsFiniteSet(window) /\ Cardinality(window) = limit
  BY <1>1, FS_Interval, SMT, Z3
<1>6. finishedHere \in SUBSET window
  OBVIOUS
<1>7. ResultSlots = limit - Cardinality(finishedHere) - Cardinality(fetching)
  BY DEF ResultSlots
<1>8. Cardinality(below) < ResultSlots
  <2>1. PICK last \in popped : GoesOn(p, count, popped \ {last})
    BY PoppedFacts
  <2>2. below \in SUBSET (popped \ {u})
    <3> SUFFICES ASSUME NEW j \in tasks, j < u PROVE j \in popped /\ j # u
      OBVIOUS
    <3>1. j \in popped
      BY PoppedLowest
    <3>2. u \in Int
      BY <1>1, <1>2, SMT, Z3
    <3> QED BY <3>1, <3>2, SMT, Z3
  <2>3. popped \in SUBSET Units
    BY <1>1, PoppedFacts
  <2>4. IsFiniteSet(popped) /\ IsFiniteSet(popped \ {u}) /\ Cardinality(popped) \in Nat
    BY <2>3, FiniteUnits, FS_Subset
  <2>5. Cardinality(popped \ {last}) = Cardinality(popped) - 1 /\ Cardinality(popped \ {u}) = Cardinality(popped) - 1
    BY <2>4, FS_RemoveElement
  <2> HIDE DEF below
  <2>6. Cardinality(below) \in Nat /\ Cardinality(below) <= Cardinality(popped \ {u})
    BY <2>2, <2>4, FS_Subset, FS_CardinalityType
  <2>7. Cardinality(popped \ {last}) < ResultSlots
    BY <2>1 DEF GoesOn
  <2> QED BY <2>4, <2>5, <2>6, <2>7, SlotsInteger, SMT, Z3
<1> HIDE DEF window, finishedHere, fetching, below
<1>9. /\ IsFiniteSet(below) /\ IsFiniteSet(fetching) /\ IsFiniteSet(finishedHere)
      /\ Cardinality(below) \in Nat /\ Cardinality(fetching) \in Nat /\ Cardinality(finishedHere) \in Nat
  BY <1>4, <1>5, <1>6, FiniteUnits, FS_Subset, FS_CardinalityType
<1>10. /\ IsFiniteSet(below \union fetching)
       /\ Cardinality(below \union fetching) \in Nat
       /\ Cardinality(below \union fetching) <= Cardinality(below) + Cardinality(fetching)
  BY <1>9, UnionBound
<1>11. /\ IsFiniteSet(below \union fetching \union finishedHere)
       /\ Cardinality(below \union fetching \union finishedHere) \in Nat
       /\ Cardinality(below \union fetching \union finishedHere)
            <= Cardinality(below \union fetching) + Cardinality(finishedHere)
  BY <1>9, <1>10, UnionBound
<1>12. Cardinality(window) <= Cardinality(below \union fetching \union finishedHere)
  BY <1>3, <1>11, FS_Subset
<1> QED BY <1>1, <1>5, <1>7, <1>8, <1>9, <1>10, <1>11, <1>12

(* A request holds no more units than asked for. *)
LEMMA SendBounded ==
  ASSUME TypeOK, NEW p, NEW count \in Nat \ {0}, NEW popped \in Popped(p, count)
  PROVE  Cardinality(popped \ (Empty \union lacks[p])) <= count
<1> DEFINE useful(S) == S \ (Empty \union lacks[p])
<1>1. popped \in SUBSET Units
  BY PoppedFacts DEF TypeOK
<1>2. CASE popped = {}
  <2>1. useful(popped) = {}
    BY <1>2
  <2> QED BY <2>1, FS_EmptySet, SMT, Z3
<1>3. CASE popped # {}
  <2>1. PICK last \in popped : GoesOn(p, count, popped \ {last})
    BY <1>3, PoppedFacts
  <2>2. Cardinality(useful(popped \ {last})) < count
    BY <2>1 DEF GoesOn
  <2>3. useful(popped) \subseteq useful(popped \ {last}) \union {last}
    OBVIOUS
  <2>4. useful(popped \ {last}) \in SUBSET Units /\ useful(popped) \in SUBSET Units
    BY <1>1
  <2> HIDE DEF useful
  <2>5. /\ IsFiniteSet(useful(popped \ {last})) /\ Cardinality(useful(popped \ {last})) \in Nat
        /\ Cardinality(useful(popped)) \in Nat
    BY <2>4, FiniteUnits
  <2>6. IsFiniteSet({last}) /\ Cardinality({last}) = 1
    BY FS_Singleton
  <2>7. /\ IsFiniteSet(useful(popped \ {last}) \union {last})
        /\ Cardinality(useful(popped \ {last}) \union {last}) \in Nat
        /\ Cardinality(useful(popped \ {last}) \union {last}) <= Cardinality(useful(popped \ {last})) + Cardinality({last})
    BY <2>5, <2>6, UnionBound
  <2>8. Cardinality(useful(popped)) <= Cardinality(useful(popped \ {last}) \union {last})
    BY <2>3, <2>7, FS_Subset
  <2>9. Cardinality(useful(popped)) <= count
    BY <2>2, <2>5, <2>6, <2>7, <2>8, SMT, Z3
  <2> QED BY <2>9 DEF useful
<1> QED BY <1>2, <1>3

-----------------------------------------------------------------------------
(* The inductive invariant of the queue.  TaskPartition and WindowKept need   *)
(* each other: that a request fits into the cache follows from counting the   *)
(* units in front of it, which takes the partition and CachePrefix.           *)
QueueInv ==
  TypeOK /\ TaskPartition /\ WindowKept /\ CachePrefix /\ HeadersAhead /\ LocalsSet

(* synchronise has reset the queue before spawnSync. *)
LEMMA QueueInvInit == Init => QueueInv
<1> SUFFICES ASSUME Init PROVE QueueInv
  OBVIOUS
<1>1. env.pivot \in 0..N
  BY EnvironmentType DEF Init
<1>2. Cardinality({}) = 0
  BY FS_EmptySet
<1>3. TypeOK
  <2>1. fetch \in FetchStates
    BY DEF Init, Select, FetchStates
  <2>2. ended \in [Goroutines -> Errors \union {"nil", None}] /\ err \in Errors \union {"nil"}
    BY DEF Init
  <2>3. cache \subseteq offset..(offset + CacheItems - 1) /\ offset \in 1..(N + 1)
    BY SyncConstants, SMT, Z3 DEF Init
  <2>8. limit \in 1..CacheItems
    <3>1. env.limits \subseteq 1..CacheItems /\ CacheItems \in 1..CacheItems
      BY SyncConstants, EnvironmentType, SMT, Z3 DEF Init
    <3> QED BY <3>1 DEF Init
  <2>4. from \in 1..(N + 1) /\ scheduled \in 0..N /\ pivot \in 0..N /\ joins \in 0..MaxJoins
    BY <1>1, SyncConstants, SMT, Z3 DEF Init
  <2>5. pend \in [Peers -> SUBSET Units] /\ lacks \in [Peers -> SUBSET Units]
    BY DEF Init
  <2>6. \A p \in Peers : Cardinality(pend[p]) <= MaxBlockFetch
    BY <1>2, SyncConstants, SMT, Z3 DEF Init
  <2>7. committed \in BOOLEAN
    BY DEF Init
  <2> QED BY <2>1, <2>2, <2>3, <2>4, <2>5, <2>6, <2>7, <2>8, Zenon DEF Init, TypeOK, FetchStates
<1>4. TaskPartition /\ WindowKept /\ CachePrefix
  BY SyncConstants, SMT, Z3 DEF Init, TaskPartition, WindowKept, CachePrefix, Requested, Goroutines, Errors
<1>5. HeadersAhead /\ LocalsSet
  BY SyncConstants DEF Init, HeadersAhead, LocalsSet, Select
<1> QED BY <1>3, <1>4, <1>5 DEF QueueInv

(* An action that leaves the queue alone leaves its invariant alone. *)
LEMMA QueueUntouched ==
  ASSUME QueueInv, SameOutcome,
         UNCHANGED <<tasks, pend, cache, done, offset, scheduled>>
  PROVE  (TaskPartition /\ WindowKept /\ CachePrefix)'
<1>1. Requested' = Requested
  BY DEF Requested
<1>2. HeightsExact' <=> HeightsExact
  BY DEF SameOutcome, HeightsExact
<1> QED BY <1>1, <1>2 DEF QueueInv, TaskPartition, WindowKept, CachePrefix, SameOutcome, Intact

(* Revoke and expire put the tasks of requests back. *)
LEMMA TasksReturned ==
  ASSUME QueueInv, NEW S \in SUBSET Peers, tasks' = Returned(S), pend' = Cleared(S),
         SameOutcome,
         UNCHANGED <<cache, done, offset, scheduled>>
  PROVE  /\ (TaskPartition /\ WindowKept /\ CachePrefix)'
         /\ tasks' \subseteq Units /\ pend' \in [Peers -> SUBSET Units]
         /\ \A p \in Peers : Cardinality(pend'[p]) <= MaxBlockFetch
<1>1. /\ pend \in [Peers -> SUBSET Units] /\ tasks \subseteq Units
      /\ \A p \in Peers : Cardinality(pend[p]) <= MaxBlockFetch
  BY DEF QueueInv, TypeOK
<1>2. \A p \in Peers : pend'[p] = IF p \in S THEN {} ELSE pend[p]
  BY DEF Cleared
<1>3. tasks' \union Requested' = tasks \union Requested
  BY <1>2, SMT, Z3 DEF Returned, Requested
<1>4. tasks' \subseteq tasks \union Requested /\ Requested' \subseteq Requested
  BY <1>2, SMT, Zenon DEF Returned, Requested
<1>5. \A p, q \in Peers : p # q => pend'[p] \intersect pend'[q] = {}
  BY <1>2 DEF QueueInv, TaskPartition, WindowKept
<1>6. tasks' \intersect Requested' = {}
  <2> SUFFICES ASSUME NEW n \in tasks', NEW q \in Peers, n \in pend'[q] PROVE FALSE
    BY DEF Requested
  <2>1. q \notin S /\ n \in pend[q]
    BY <1>2
  <2>2. CASE n \in tasks
    BY <2>1, <2>2, SMT, Z3 DEF QueueInv, TaskPartition, WindowKept, Requested
  <2>3. CASE n \notin tasks
    <3>1. PICK p \in S : n \in pend[p]
      BY <2>3 DEF Returned
    <3> QED BY <2>1, <3>1 DEF QueueInv, TaskPartition, WindowKept
  <2> QED BY <2>2, <2>3
<1>7. TaskPartition'
  BY <1>3, <1>4, <1>5, <1>6 DEF QueueInv, TaskPartition, SameOutcome, Intact
<1>8. WindowKept' /\ CachePrefix'
  <2>1. HeightsExact' <=> HeightsExact
    BY DEF SameOutcome, HeightsExact
  <2> QED BY <1>4, <2>1 DEF QueueInv, WindowKept, CachePrefix, SameOutcome, Intact
<1>9. tasks' \subseteq Units
  BY <1>1, <1>4, RequestedUnits DEF QueueInv
<1>10. pend' \in [Peers -> SUBSET Units] /\ \A p \in Peers : Cardinality(pend'[p]) <= MaxBlockFetch
  BY <1>1, <1>2, FS_EmptySet, SyncConstants, SMT, Z3 DEF Cleared
<1> QED BY <1>7, <1>8, <1>9, <1>10


(* fetchBodies returns invalidChain from Deliver and Reserve only. *)
LEMMA ReturnOther ==
  ASSUME QueueInv, NEW g \in Goroutines, NEW e \in Errors \union {"nil"}, Return(g, e),
         env' = env, g = "fetchBodies" => Running(g) /\ e # "invalidChain"
  PROVE  SameOutcome /\ SpawnType'
<1>1. SpawnType
  BY TypeParts DEF QueueInv
<1>2. ended' = [ended EXCEPT ![g] = e] /\ "fetchBodies" \in Goroutines /\ ended \in [Goroutines -> Errors \union {"nil", None}]
  BY <1>1 DEF Return, SpawnType, Goroutines
<1>3. g # "fetchBodies" => ended'["fetchBodies"] = ended["fetchBodies"]
  BY <1>2
<1>4. g = "fetchBodies" => Intact /\ Intact'
  BY <1>2, SyncConstants DEF Intact, Running, Errors
<1>5. SameOutcome
  BY <1>3, <1>4 DEF SameOutcome, Intact
<1> QED BY <1>1, <1>5 DEF Return, SpawnType, Goroutines

(* An action that leaves the queue and the headers alone. *)
LEMMA QueueKept ==
  ASSUME QueueInv, UNCHANGED <<queueVars, headerVars>>, SameOutcome,
         TypeOK', LocalsSet'
  PROVE  QueueInv'
<1>1. (TaskPartition /\ WindowKept /\ CachePrefix)'
  BY QueueUntouched DEF queueVars, headerVars
<1>2. HeadersAhead'
  BY DEF QueueInv, HeadersAhead, headerVars
<1> QED BY <1>1, <1>2 DEF QueueInv

-----------------------------------------------------------------------------
(* One lemma for the steps of each goroutine. *)

(* Peers that join and leave. *)
LEMMA QueueInvPeers ==
  ASSUME QueueInv, NEW p \in Peers, Register(p) \/ Unregister(p)
  PROVE  QueueInv'
<1>0. TypeOK /\ HeadersAhead /\ ControlType /\ PeerType /\ QueueType
  BY TypeParts DEF QueueInv
<1>1. SameOutcome
  BY DEF SameOutcome, Intact, Register, Unregister, spawnVars
<1>2. HeadersAhead' /\ LocalsSet'
  BY <1>0 DEF QueueInv, HeadersAhead, LocalsSet, Register, Unregister, headerVars,
         fetchVars, contentVars
<1>3. CASE Register(p)
  <2>1. PeerType'
    <3>1. /\ registered' \subseteq Peers /\ idle' \subseteq registered' /\ quick' \subseteq registered'
          /\ lacks' \in [Peers -> SUBSET Units]
      BY <1>0, <1>3 DEF PeerType, Register
    <3>2. joins' \in 0..MaxJoins
      BY <1>0, <1>3, SyncConstants, SMT, Z3 DEF PeerType, Register
    <3> QED BY <3>1, <3>2 DEF PeerType
  <2>2. QueueType'
    BY <1>0, <1>3 DEF QueueType, Register
  <2>3. TypeOK'
    BY <1>0, <1>3, <2>1, <2>2, TypeKept, TypePartsNext DEF Register
  <2>4. (TaskPartition /\ WindowKept /\ CachePrefix)'
    BY <1>1, <1>3, QueueUntouched DEF Register, headerVars
  <2> QED BY <1>2, <2>3, <2>4 DEF QueueInv
<1>4. CASE Unregister(p)
  <2>1. /\ (TaskPartition /\ WindowKept /\ CachePrefix)'
        /\ tasks' \subseteq Units /\ pend' \in [Peers -> SUBSET Units]
        /\ \A q \in Peers : Cardinality(pend'[q]) <= MaxBlockFetch
    <3>1. {p} \in SUBSET Peers
      OBVIOUS
    <3> QED BY <1>1, <1>4, <3>1, TasksReturned DEF Unregister, headerVars
  <2>2. PeerType' /\ ControlType'
    BY <1>0, <1>4 DEF PeerType, ControlType, Unregister
  <2>3. QueueType'
    BY <1>0, <1>4, <2>1, ZenonT(40) DEF QueueType, Unregister
  <2>4. TypeOK'
    BY <1>0, <1>4, <2>2, <2>3, TypeKept, TypePartsNext DEF Unregister
  <2> QED BY <1>2, <2>1, <2>4 DEF QueueInv
<1> QED BY <1>3, <1>4

(* The steps of fetchHeaders. *)
LEMMA QueueInvHeaders ==
  ASSUME QueueInv, HeaderStep
  PROVE  QueueInv'
<1>0. /\ TypeOK /\ HeadersAhead /\ ControlType /\ PeerType /\ QueueType /\ HeaderType /\ FetchType
  BY TypeParts DEF QueueInv
<1>r. LocalsSet'
  BY Zenon DEF QueueInv, LocalsSet, HeaderStep, FetchHeaders, NoMoreHeaders, HeadersTimeout,
         SkeletonInvalid, CancelHeaders, fetchVars, contentVars
<1>1. CASE FetchHeaders
  <2>1. PICK k \in env.batches : k >= from /\ headerProcCh' = <<k>> /\ from' = k + 1
    BY <1>1 DEF FetchHeaders
  <2>2. k \in 1..N
    BY <1>0, <2>1, EnvironmentType DEF ControlType
  <2>3. HeaderType'
    <3>1. from' \in 1..(N + 1) /\ k \in 0..N
      BY <2>1, <2>2, SyncConstants, SMT, Z3
    <3>2. headerProcCh' \in {<<j>> : j \in 0..N}
      BY <2>1, <3>1
    <3>3. UNCHANGED <<batch, scheduled>>
      BY <1>1 DEF FetchHeaders
    <3> QED BY <1>0, <3>1, <3>2, <3>3 DEF HeaderType
  <2>4. TypeOK'
    BY <1>0, <1>1, <2>3, TypeKept, TypePartsNext DEF FetchHeaders
  <2>5. HeadersAhead'
    <3>1. scheduled \in Nat /\ from \in Nat /\ batch \in Nat \union {None} /\ N \in Nat
      BY <1>0, SyncConstants, SMT, Z3 DEF HeaderType
    <3>2. \A j \in 1..N : headerProcCh' = <<j>> => j = k
      BY <2>1
    <3> QED BY <1>0, <1>1, <2>1, <2>2, <3>1, <3>2, SyncConstants, SMT, Z3 DEF HeadersAhead, FetchHeaders
  <2>6. (TaskPartition /\ WindowKept /\ CachePrefix)'
    <3>1. SameOutcome
      BY <1>1 DEF FetchHeaders, SameOutcome, Intact, spawnVars
    <3> QED BY <1>1, <3>1, QueueUntouched DEF FetchHeaders, queueVars
  <2> QED BY <1>r, <2>4, <2>5, <2>6 DEF QueueInv
<1>2. CASE NoMoreHeaders
  <2>1. SameOutcome /\ SpawnType'
    BY <1>2, ReturnOther DEF NoMoreHeaders, Goroutines
  <2>2. HeaderType'
    BY <1>0, <1>2, SyncConstants, SMT, Z3 DEF HeaderType, NoMoreHeaders
  <2>3. TypeOK'
    BY <1>0, <1>2, <2>1, <2>2, TypeKept, TypePartsNext DEF NoMoreHeaders
  <2>4. HeadersAhead'
    <3>1. \A j \in 1..N : headerProcCh' # <<j>>
      BY <1>2 DEF NoMoreHeaders
    <3> QED BY <1>0, <1>2, <3>1 DEF HeadersAhead, NoMoreHeaders
  <2>5. (TaskPartition /\ WindowKept /\ CachePrefix)'
    BY <1>2, <2>1, QueueUntouched DEF NoMoreHeaders, queueVars
  <2> QED BY <1>r, <2>3, <2>4, <2>5 DEF QueueInv
<1>3. CASE HeadersTimeout
  <2> DEFINE dropped == {Master} \intersect registered
  <2>1. SameOutcome /\ SpawnType'
    BY <1>3, ReturnOther DEF HeadersTimeout, Goroutines, Errors
  <2>2. /\ (TaskPartition /\ WindowKept /\ CachePrefix)'
        /\ tasks' \subseteq Units /\ pend' \in [Peers -> SUBSET Units]
        /\ \A q \in Peers : Cardinality(pend'[q]) <= MaxBlockFetch
    <3>1. dropped \in SUBSET Peers
      BY SyncConstants
    <3>2. tasks' = Returned(dropped) /\ pend' = Cleared(dropped)
      BY <1>3 DEF HeadersTimeout
    <3> HIDE DEF dropped
    <3> QED BY <1>3, <2>1, <3>1, <3>2, TasksReturned, Zenon DEF HeadersTimeout
  <2>3. HeaderType'
    <3>1. CASE headerProcCh' = headerProcCh
      BY <1>0, <1>3, <3>1 DEF HeaderType, HeadersTimeout
    <3>2. CASE headerProcCh' = <<0>>
      BY <1>0, <1>3, <3>2, SyncConstants, SMT, Z3 DEF HeaderType, HeadersTimeout
    <3> QED BY <1>3, <3>1, <3>2 DEF HeadersTimeout
  <2>4. FetchType'
    BY <1>0, <1>3, ZenonT(40) DEF FetchType, HeadersTimeout
  <2>5. PeerType' /\ ControlType'
    BY <1>0, <1>3 DEF PeerType, ControlType, HeadersTimeout
  <2>6. QueueType'
    BY <1>0, <1>3, <2>2, ZenonT(40) DEF QueueType, HeadersTimeout
  <2>7. TypeOK'
    BY <1>0, <1>3, <2>1, <2>3, <2>4, <2>5, <2>6, TypeKept, TypePartsNext, ZenonT(40) DEF HeadersTimeout
  <2>8. HeadersAhead'
    <3>1. \A j \in 1..N : headerProcCh' = <<j>> => headerProcCh = <<j>>
      BY <1>3 DEF HeadersTimeout
    <3> QED BY <1>0, <1>3, <3>1, Zenon DEF HeadersAhead, HeadersTimeout
  <2> QED BY <1>r, <2>2, <2>7, <2>8 DEF QueueInv
<1>4. CASE SkeletonInvalid
  <2>1. SameOutcome /\ SpawnType'
    BY <1>4, ReturnOther DEF SkeletonInvalid, Goroutines, Errors
  <2>2. TypeOK'
    BY <1>0, <1>4, <2>1, TypeKept, TypePartsNext DEF SkeletonInvalid
  <2> QED BY <1>4, <2>1, <1>r, <2>2, QueueKept, Zenon DEF SkeletonInvalid
<1>5. CASE CancelHeaders("fetchHeaders")
  <2>1. SameOutcome /\ SpawnType'
    BY <1>5, ReturnOther DEF CancelHeaders, Goroutines, Errors
  <2>2. TypeOK'
    BY <1>0, <1>5, <2>1, TypeKept, TypePartsNext DEF CancelHeaders
  <2> QED BY <1>5, <2>1, <1>r, <2>2, QueueKept DEF CancelHeaders
<1> QED BY <1>1, <1>2, <1>3, <1>4, <1>5 DEF HeaderStep


(* Schedule puts the next units into the task queue. *)
LEMMA TasksAdded ==
  ASSUME QueueInv, scheduled' \in 0..N, scheduled <= scheduled',
         tasks' = tasks \union (scheduled + 1)..scheduled',
         SameOutcome, UNCHANGED <<pend, cache, done, offset>>
  PROVE  (TaskPartition /\ WindowKept /\ CachePrefix)' /\ tasks' \subseteq Units
<1>1. /\ tasks \union Requested \union done \subseteq offset..scheduled
      /\ Intact => offset..scheduled \subseteq tasks \union Requested \union done
      /\ tasks \intersect Requested = {} /\ (tasks \union Requested) \intersect done = {}
      /\ \A p, q \in Peers : p # q => pend[p] \intersect pend[q] = {}
      /\ CachePrefix
  BY DEF QueueInv, TaskPartition, Intact
<1>0. /\ HeightsExact' <=> HeightsExact
      /\ Intact' <=> Intact
  BY DEF SameOutcome, HeightsExact
<1>2. /\ tasks \subseteq Units /\ offset \in Nat \ {0} /\ scheduled \in Nat /\ scheduled' \in Nat
      /\ N \in Nat /\ offset <= scheduled + 1 /\ scheduled' <= N
  BY SyncConstants, TypeParts, SMT, Z3 DEF QueueInv, QueueType, HeaderType, CachePrefix
<1>3. Requested' = Requested
  BY DEF Requested
<1> DEFINE new == (scheduled + 1)..scheduled'
<1>4. /\ offset..scheduled' = (offset..scheduled) \union new
      /\ (offset..scheduled) \intersect new = {} /\ new \subseteq Units
  BY <1>2 DEF Units
<1>5. CachePrefix'
  <2>1. offset' <= scheduled' + 1
    <3>1. offset' = offset /\ scheduled <= scheduled'
      OBVIOUS
    <3>2. \A a, b, c \in Int : a <= b + 1 /\ b <= c => a <= c + 1
      BY SMT, Z3
    <3>3. offset \in Int /\ scheduled \in Int /\ scheduled' \in Int /\ offset <= scheduled + 1
      BY <1>2
    <3>4. offset <= scheduled' + 1
      BY <3>1, <3>2, <3>3, Zenon
    <3> QED BY <3>1, <3>4
  <2>2. HeightsExact' => \A n \in cache' : offset'..n \subseteq cache'
    BY <1>0, <1>1 DEF CachePrefix
  <2> QED BY <2>1, <2>2 DEF CachePrefix
<1> HIDE DEF new
<1>6. tasks' = tasks \union new
  BY DEF new
<1>7. TaskPartition'
  BY <1>0, <1>1, <1>3, <1>4, <1>6 DEF TaskPartition, Intact
<1>8. WindowKept'
  BY <1>0, <1>3 DEF QueueInv, WindowKept, Intact
<1> QED BY <1>2, <1>4, <1>5, <1>6, <1>7, <1>8

(* The steps of processHeaders. *)
LEMMA QueueInvProcess ==
  ASSUME QueueInv, ProcessStep
  PROVE  QueueInv'
<1>0. /\ TypeOK /\ HeadersAhead /\ ControlType /\ QueueType /\ HeaderType /\ FetchType
  BY TypeParts DEF QueueInv
<1>r. LocalsSet'
  BY Zenon DEF QueueInv, LocalsSet, ProcessStep, TakeHeaders, Schedule, HeadersStale, HeadersProcessed,
         CancelHeaders, fetchVars, contentVars
<1>t. /\ scheduled \in Nat /\ scheduled <= N /\ from \in Nat /\ batch \in (0..N) \union {None}
      /\ N \in Nat /\ None \notin Nat /\ MaxHeaders \in Nat /\ MaxHeaders >= 1
  BY <1>0, SyncConstants, SMT, Z3 DEF HeaderType
<1>1. CASE TakeHeaders
  <2>1. PICK k \in 0..N : headerProcCh = <<k>>
    BY <1>0, <1>1 DEF HeaderType, TakeHeaders
  <2>2. batch' = k /\ batch = None /\ headerProcCh' = <<>> /\ UNCHANGED <<from, scheduled>>
    BY <1>1, <2>1 DEF TakeHeaders
  <2>3. HeaderType' /\ HeadersAhead'
    BY <1>0, <1>t, <2>1, <2>2, SMT, Z3 DEF HeaderType, HeadersAhead
  <2>4. TypeOK'
    BY <1>0, <1>1, <2>3, TypeKept, TypePartsNext DEF TakeHeaders
  <2>5. (TaskPartition /\ WindowKept /\ CachePrefix)'
    <3>1. SameOutcome
      BY <1>1 DEF TakeHeaders, SameOutcome, Intact, spawnVars
    <3> QED BY <1>1, <3>1, QueueUntouched DEF TakeHeaders, queueVars
  <2> QED BY <1>r, <2>3, <2>4, <2>5 DEF QueueInv
<1>2. CASE Schedule
  <2>1. batch \in 1..N /\ scheduled < batch /\ batch < from
    BY <1>0, <1>2, <1>t DEF Schedule, HeadersAhead
  <2>2. scheduled' \in (scheduled + 1)..batch
    BY <1>2, <1>t, <2>1, MinOfTwo, SMT, Z3 DEF Schedule
  <2>3. (TaskPartition /\ WindowKept /\ CachePrefix)' /\ tasks' \subseteq Units
    <3>1. scheduled' \in 0..N /\ scheduled <= scheduled'
      BY <1>t, <2>1, <2>2
    <3>2. /\ tasks' = tasks \union (scheduled + 1)..scheduled' /\ UNCHANGED <<pend, cache, done, offset>>
          /\ SameOutcome
      BY <1>2 DEF Schedule, spawnVars, SameOutcome, Intact
    <3> QED BY <3>1, <3>2, TasksAdded
  <2>4. HeaderType'
    BY <1>0, <1>2, <1>t, <2>1, <2>2, SMT, Z3 DEF HeaderType, Schedule
  <2>5. QueueType'
    BY <1>0, <1>2, <2>3, Zenon DEF QueueType, Schedule
  <2>6. FetchType'
    BY <1>0, <1>2, ZenonT(40) DEF FetchType, Schedule
  <2>7. TypeOK'
    BY <1>0, <1>2, <2>4, <2>5, <2>6, TypeKept, TypePartsNext DEF Schedule
  <2>8. HeadersAhead'
    <3>1. batch' = (IF scheduled' = batch THEN None ELSE batch) /\ UNCHANGED <<from, headerProcCh>>
      BY <1>2 DEF Schedule
    <3>2. \A k \in 1..N : headerProcCh' = <<k>> => batch < k /\ k < from
      BY <1>0, <1>t, <2>1, <3>1 DEF HeadersAhead
    <3> QED BY <1>t, <2>1, <2>2, <3>1, <3>2 DEF HeadersAhead
  <2> QED BY <1>r, <2>3, <2>7, <2>8 DEF QueueInv
<1>3. CASE HeadersStale
  <2>1. batch \in 1..N /\ scheduled < batch /\ batch < from
    BY <1>0, <1>3, <1>t DEF HeadersStale, HeadersAhead
  <2>2. scheduled' \in scheduled..(batch - 1)
    <3>1. scheduled' \in scheduled..(Min({batch, scheduled + MaxHeaders}) - 1)
      BY <1>3, Zenon DEF HeadersStale
    <3>2. Min({batch, scheduled + MaxHeaders}) \in Int /\ Min({batch, scheduled + MaxHeaders}) <= batch
      BY <1>t, <2>1, MinOfTwo, SMT, Z3
    <3> QED BY <1>t, <2>1, <3>1, <3>2, SMT, Z3
  <2>3. SameOutcome /\ SpawnType'
    BY <1>3, ReturnOther DEF HeadersStale, Goroutines, Errors
  <2>4. (TaskPartition /\ WindowKept /\ CachePrefix)' /\ tasks' \subseteq Units
    <3>1. scheduled' \in 0..N /\ scheduled <= scheduled'
      BY <1>t, <2>1, <2>2
    <3>2. tasks' = tasks \union (scheduled + 1)..scheduled' /\ UNCHANGED <<pend, cache, done, offset>>
      BY <1>3 DEF HeadersStale
    <3> QED BY <2>3, <3>1, <3>2, TasksAdded
  <2>5. HeaderType'
    BY <1>0, <1>3, <1>t, <2>1, <2>2, SMT, Z3 DEF HeaderType, HeadersStale
  <2>6. QueueType'
    BY <1>0, <1>3, <2>4 DEF QueueType, HeadersStale
  <2>7. TypeOK'
    BY <1>0, <1>3, <2>3, <2>5, <2>6, TypeKept, TypePartsNext DEF HeadersStale
  <2>8. HeadersAhead'
    <3>1. UNCHANGED <<from, batch, headerProcCh>>
      BY <1>3 DEF HeadersStale
    <3>2. \A k \in 1..N : headerProcCh' = <<k>> => batch < k /\ k < from
      BY <1>0, <1>t, <2>1, <3>1 DEF HeadersAhead
    <3> QED BY <1>t, <2>1, <2>2, <3>1, <3>2 DEF HeadersAhead
  <2> QED BY <1>r, <2>4, <2>7, <2>8 DEF QueueInv
<1>4. CASE HeadersProcessed
  <2>1. SameOutcome /\ SpawnType'
    BY <1>4, ReturnOther DEF HeadersProcessed, Goroutines, Errors
  <2>2. FetchType'
    BY <1>0, <1>4, Zenon DEF FetchType, HeadersProcessed
  <2>3. TypeOK'
    BY <1>0, <1>4, <2>1, <2>2, TypeKept, TypePartsNext DEF HeadersProcessed
  <2> QED BY <1>4, <1>r, <2>1, <2>3, QueueKept DEF HeadersProcessed
<1>5. CASE CancelHeaders("processHeaders")
  <2>1. SameOutcome /\ SpawnType'
    BY <1>5, ReturnOther DEF CancelHeaders, Goroutines, Errors
  <2>2. TypeOK'
    BY <1>0, <1>5, <2>1, TypeKept, TypePartsNext DEF CancelHeaders
  <2> QED BY <1>5, <1>r, <2>1, <2>2, QueueKept DEF CancelHeaders
<1> QED BY <1>1, <1>2, <1>3, <1>4, <1>5 DEF ProcessStep

=============================================================================
