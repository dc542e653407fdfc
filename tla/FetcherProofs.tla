--------------------------- MODULE FetcherProofs ---------------------------
(***************************************************************************)
(* The bookkeeping of the fetcher is right whatever the peers send and     *)
(* however imports and timers interleave, for every set of peers and units *)
(* and every limit.                                                        *)
(***************************************************************************)
EXTENDS Fetcher, FiniteSetTheorems, TLAPS

\* The provers of a step that names none, in the order they are tried.
USE Zenon, SMT, Z3

-----------------------------------------------------------------------------
(* The invariant, of a fetcher g in the middle of an iteration *)

State ==
  [announces : [Peers -> Int], announced : [Hashes -> [Peers -> Nat]],
   fetching : Map, fetched : Map, completing : Map,
   queue : SUBSET Hashes, queues : [Peers -> Int], queued : Map,
   fetchTimer : BOOLEAN, completeTimer : BOOLEAN]

Accounted(g) ==
  \A p \in Peers : /\ g.queues[p] = Cardinality(Of(g.queued, p, Hashes))
                   /\ g.queues[p] <= BlockLimit

\* The units accepted are in the queue, in imp or in fin.
Placed(g, imp, fin) ==
  /\ Entries(g.queued) = g.queue \union imp \union fin
  /\ g.queue \intersect (imp \union fin) = {}
  /\ imp \intersect fin = {}

Awake(g) ==
  /\ Announced(g) # {} => g.fetchTimer
  /\ Entries(g.fetched) # {} => g.completeTimer

PhaseOf(g, h, empty) ==
  /\ h \in Announced(g) => g.fetching[h] = None /\ g.completing[h] = None
  /\ g.fetched[h] # None => g.fetching[h] = g.fetched[h] /\ g.completing[h] = None
  /\ g.fetching[h] # None /\ g.completing[h] # None => h \in empty

Phased(g, empty) == \A h \in Hashes : PhaseOf(g, h, empty)

\* The invariant, where empty are the units without transactions.
Good(g, imp, fin, empty) ==
  g \in State /\ Accounted(g) /\ Placed(g, imp, fin) /\ Awake(g) /\ Phased(g, empty)

Rest ==
  /\ importing \subseteq Hashes /\ finished \subseteq Hashes /\ known \subseteq Hashes
  /\ height \in Nat /\ stopped \in BOOLEAN /\ net \in Nets

FetcherInv == Rest /\ Good(f, importing, finished, net.empty)

-----------------------------------------------------------------------------
(* Records of the state *)

(* A state with one field replaced by a value of its type is a state. *)
LEMMA OneField ==
  ASSUME NEW g \in State
  PROVE  /\ \A x \in [Peers -> Int] : [g EXCEPT !.announces = x] \in State
         /\ \A x \in [Hashes -> [Peers -> Nat]] : [g EXCEPT !.announced = x] \in State
         /\ \A x \in Map : [g EXCEPT !.fetching = x] \in State
         /\ \A x \in Map : [g EXCEPT !.fetched = x] \in State
         /\ \A x \in Map : [g EXCEPT !.completing = x] \in State
         /\ \A x \in SUBSET Hashes : [g EXCEPT !.queue = x] \in State
         /\ \A x \in [Peers -> Int] : [g EXCEPT !.queues = x] \in State
         /\ \A x \in Map : [g EXCEPT !.queued = x] \in State
         /\ \A x \in BOOLEAN : [g EXCEPT !.fetchTimer = x] \in State
         /\ \A x \in BOOLEAN : [g EXCEPT !.completeTimer = x] \in State
<1>1. \A x \in [Peers -> Int] : [g EXCEPT !.announces = x] \in State
  BY DEF State
<1>2. \A x \in [Hashes -> [Peers -> Nat]] : [g EXCEPT !.announced = x] \in State
  BY Zenon DEF State
<1>3. \A x \in Map : [g EXCEPT !.fetching = x] \in State
  BY DEF State
<1>4. \A x \in Map : [g EXCEPT !.fetched = x] \in State
  BY DEF State
<1>5. \A x \in Map : [g EXCEPT !.completing = x] \in State
  BY DEF State
<1>6. \A x \in SUBSET Hashes : [g EXCEPT !.queue = x] \in State
  BY DEF State
<1>7. \A x \in [Peers -> Int] : [g EXCEPT !.queues = x] \in State
  BY DEF State
<1>8. \A x \in Map : [g EXCEPT !.queued = x] \in State
  BY DEF State
<1>9. \A x \in BOOLEAN : [g EXCEPT !.fetchTimer = x] \in State
  BY DEF State
<1>10. \A x \in BOOLEAN : [g EXCEPT !.completeTimer = x] \in State
  BY DEF State
<1>11. QED
  BY <1>1, <1>2, <1>3, <1>4, <1>5, <1>6, <1>7, <1>8, <1>9, <1>10

(* The fields of a state have their types. *)
LEMMA Fields ==
  ASSUME NEW g \in State
  PROVE  /\ g.announces \in [Peers -> Int] /\ g.announced \in [Hashes -> [Peers -> Nat]]
         /\ g.fetching \in Map /\ g.fetched \in Map /\ g.completing \in Map
         /\ g.queue \in SUBSET Hashes /\ g.queues \in [Peers -> Int] /\ g.queued \in Map
         /\ g.fetchTimer \in BOOLEAN /\ g.completeTimer \in BOOLEAN
BY DEF State

(* Without takes the entries of a set out of a map and leaves the others. *)
LEMMA WithoutMap ==
  ASSUME NEW map \in Map, NEW S
  PROVE  /\ Without(map, S) \in Map
         /\ \A h \in Hashes : Without(map, S)[h] = IF h \in S THEN None ELSE map[h]
         /\ Entries(Without(map, S)) = Entries(map) \ S
BY DEF Without, Map, Entries

(* The entries of a peer in a set of hashes can be counted. *)
LEMMA FiniteOf ==
  ASSUME NEW map, NEW p, NEW S \in SUBSET Hashes
  PROVE  /\ IsFiniteSet(S) /\ Cardinality(S) \in Nat
         /\ IsFiniteSet(Of(map, p, S)) /\ Cardinality(Of(map, p, S)) \in Nat
<1>1. IsFiniteSet(S)
  BY FetcherAssumption, FS_Subset
<1>2. Of(map, p, S) \in SUBSET S
  BY DEF Of
<1>3. QED
  BY <1>1, <1>2, FS_Subset, FS_CardinalityType

(* What forgetHash takes off the counter of a peer is an integer. *)
LEMMA ChargesType ==
  ASSUME net \in Nets, NEW g, NEW p, NEW S \in SUBSET Hashes
  PROVE  Charges(g, S, p) \in Int
<1> DEFINE C == {c \in S \X (1 .. net.maxCopies) : c[2] <= g.announced[c[1]][p]}
<1>1. net.maxCopies \in Nat
  BY FetcherAssumption DEF Net
<1>2. IsFiniteSet(S \X (1 .. net.maxCopies))
  <2>1. IsFiniteSet(S)
    BY FiniteOf
  <2>2. IsFiniteSet(1 .. net.maxCopies)
    BY <1>1, FS_Interval
  <2>3. QED
    BY <2>1, <2>2, FS_Product, Zenon
<1>3. IsFiniteSet(C) /\ Cardinality(C) \in Nat
  <2>1. C \in SUBSET (S \X (1 .. net.maxCopies))
    OBVIOUS
  <2>2. QED
    BY <1>2, <2>1, FS_Subset, FS_CardinalityType
<1>4. QED
  <2> HIDE DEF C
  <2>1. Charges(g, S, p) = Cardinality(C) + Cardinality(Of(g.fetching, p, S))
                             + Cardinality(Of(g.fetched, p, S)) + Cardinality(Of(g.completing, p, S))
    BY DEF Charges, C
  <2>2. QED
    BY <1>3, <2>1, FiniteOf

\* The announcements that forgetHash leaves.
Unannounced(announced, S) ==
  [h \in Hashes |-> IF h \in S THEN [p \in Peers |-> 0] ELSE announced[h]]

(* forgetHash, field by field. *)
LEMMA ForgetHashesState ==
  ASSUME net \in Nets, NEW g \in State, NEW S \in SUBSET Hashes
  PROVE  /\ ForgetHashes(g, S) \in State
         /\ ForgetHashes(g, S).announced = Unannounced(g.announced, S)
         /\ ForgetHashes(g, S).fetching = Without(g.fetching, S)
         /\ ForgetHashes(g, S).fetched = Without(g.fetched, S)
         /\ ForgetHashes(g, S).completing = Without(g.completing, S)
         /\ ForgetHashes(g, S).queue = g.queue
         /\ ForgetHashes(g, S).queues = g.queues
         /\ ForgetHashes(g, S).queued = g.queued
         /\ ForgetHashes(g, S).fetchTimer = g.fetchTimer
         /\ ForgetHashes(g, S).completeTimer = g.completeTimer
<1> DEFINE x1 == [p \in Peers |-> g.announces[p] - Charges(g, S, p)]
           x2 == Unannounced(g.announced, S)
           x3 == Without(g.fetching, S)
           x4 == Without(g.fetched, S)
           x5 == Without(g.completing, S)
           k1 == [g EXCEPT !.announces = x1]
           k2 == [k1 EXCEPT !.announced = x2]
           k3 == [k2 EXCEPT !.fetching = x3]
           k4 == [k3 EXCEPT !.fetched = x4]
           k5 == [k4 EXCEPT !.completing = x5]
<1>1. x1 \in [Peers -> Int]
  BY ChargesType, Fields, SMT, Z3
<1>2. x2 \in [Hashes -> [Peers -> Nat]]
  BY Fields DEF Unannounced
<1>3. x3 \in Map /\ x4 \in Map /\ x5 \in Map
  BY Fields, WithoutMap
<1>4. ForgetHashes(g, S) = [g EXCEPT !.announces = x1, !.announced = x2, !.fetching = x3,
                                     !.fetched = x4, !.completing = x5]
  BY Zenon DEF ForgetHashes, Unannounced
<1> HIDE DEF x1, x2, x3, x4, x5
<1>5. ForgetHashes(g, S) = k5
  BY <1>4, Zenon
<1>6. k5 \in State
  <2>1. k1 \in State
    BY <1>1, OneField
  <2> HIDE DEF k1
  <2>2. k2 \in State
    BY <1>2, <2>1, OneField
  <2> HIDE DEF k2
  <2>3. k3 \in State
    BY <1>3, <2>2, OneField
  <2> HIDE DEF k3
  <2>4. k4 \in State
    BY <1>3, <2>3, OneField
  <2> HIDE DEF k4
  <2>5. QED
    BY <1>3, <2>4, OneField
<1>7. /\ k5.announced = x2 /\ k5.fetching = x3 /\ k5.fetched = x4 /\ k5.completing = x5
      /\ k5.queue = g.queue /\ k5.queues = g.queues /\ k5.queued = g.queued
      /\ k5.fetchTimer = g.fetchTimer /\ k5.completeTimer = g.completeTimer
  BY Zenon DEF State
<1>8. QED
  <2> HIDE DEF k5
  <2> QED BY <1>5, <1>6, <1>7, Zenon DEF x2, x3, x4, x5

(* forgetUnit, field by field. *)
LEMMA ForgetBlocksState ==
  ASSUME NEW g \in State, NEW S \in SUBSET Hashes
  PROVE  /\ ForgetBlocks(g, S) \in State
         /\ ForgetBlocks(g, S).queues = [p \in Peers |-> g.queues[p] - Cardinality(Of(g.queued, p, S))]
         /\ ForgetBlocks(g, S).queued = Without(g.queued, S)
         /\ ForgetBlocks(g, S).announced = g.announced
         /\ ForgetBlocks(g, S).fetching = g.fetching
         /\ ForgetBlocks(g, S).fetched = g.fetched
         /\ ForgetBlocks(g, S).completing = g.completing
         /\ ForgetBlocks(g, S).queue = g.queue
         /\ ForgetBlocks(g, S).fetchTimer = g.fetchTimer
         /\ ForgetBlocks(g, S).completeTimer = g.completeTimer
<1> DEFINE x1 == [p \in Peers |-> g.queues[p] - Cardinality(Of(g.queued, p, S))]
           x2 == Without(g.queued, S)
           k1 == [g EXCEPT !.queues = x1]
           k2 == [k1 EXCEPT !.queued = x2]
<1>1. x1 \in [Peers -> Int]
  BY FiniteOf, Fields, SMT, Z3
<1>2. x2 \in Map
  BY Fields, WithoutMap
<1>3. ForgetBlocks(g, S) = [g EXCEPT !.queues = x1, !.queued = x2]
  BY Zenon DEF ForgetBlocks
<1> HIDE DEF x1, x2
<1>4. ForgetBlocks(g, S) = k2
  BY <1>3, Zenon
<1>5. k2 \in State
  <2>1. k1 \in State
    BY <1>1, OneField
  <2> HIDE DEF k1
  <2>2. QED
    BY <1>2, <2>1, OneField
<1>6. /\ k2.queues = x1 /\ k2.queued = x2
      /\ k2.announced = g.announced /\ k2.fetching = g.fetching /\ k2.fetched = g.fetched
      /\ k2.completing = g.completing /\ k2.queue = g.queue
      /\ k2.fetchTimer = g.fetchTimer /\ k2.completeTimer = g.completeTimer
  BY Zenon DEF State
<1>7. QED
  <2> HIDE DEF k2
  <2> QED BY <1>4, <1>5, <1>6, Zenon DEF x1, x2

\* The units that enqueue puts into the queue.
Fresh(g, A) == {h \in A : g.queued[h] = None}
WithFresh(g, A) == g.queue \union Fresh(g, A)
Charged(g, p, A) == [g.queues EXCEPT ![p] = g.queues[p] + Cardinality(Fresh(g, A))]
Credited(g, p, A) == [h \in Hashes |-> IF h \in Fresh(g, A) THEN p ELSE g.queued[h]]

\* The units that enqueue turns down.
Rejected(S, A) == S \ A

(* enqueue, field by field. *)
LEMMA EnqueueState ==
  ASSUME net \in Nets, NEW g \in State, NEW p \in Peers, NEW S \in SUBSET Hashes,
         NEW A \in SUBSET S
  PROVE  /\ Enqueue(g, p, S, A) \in State
         /\ Enqueue(g, p, S, A).announced = Unannounced(g.announced, Rejected(S, A))
         /\ Enqueue(g, p, S, A).fetching = Without(g.fetching, Rejected(S, A))
         /\ Enqueue(g, p, S, A).fetched = Without(g.fetched, Rejected(S, A))
         /\ Enqueue(g, p, S, A).completing = Without(g.completing, Rejected(S, A))
         /\ Enqueue(g, p, S, A).queue = WithFresh(g, A)
         /\ Enqueue(g, p, S, A).queues = Charged(g, p, A)
         /\ Enqueue(g, p, S, A).queued = Credited(g, p, A)
         /\ Enqueue(g, p, S, A).fetchTimer = g.fetchTimer
         /\ Enqueue(g, p, S, A).completeTimer = g.completeTimer
<1> DEFINE new == Fresh(g, A)
           e == Enqueue(g, p, S, A)
           out == Rejected(S, A)
           r == ForgetHashes(g, out)
           x1 == Charged(g, p, A)
           x2 == Credited(g, p, A)
           x3 == WithFresh(g, A)
           k1 == [r EXCEPT !.queues = x1]
           k2 == [k1 EXCEPT !.queued = x2]
           k3 == [k2 EXCEPT !.queue = x3]
<1>1. /\ r \in State
      /\ r.queue = g.queue /\ r.queues = g.queues /\ r.queued = g.queued
  BY ForgetHashesState, SMT, Zenon DEF Rejected
<1>2. x1 \in [Peers -> Int]
  <2>1. Cardinality(new) \in Nat
    <3>1. new \in SUBSET Hashes
      BY DEF Fresh
    <3>2. QED
      BY <3>1, FiniteOf
  <2>2. g.queues \in [Peers -> Int]
    BY Fields
  <2>3. QED
    BY <2>1, <2>2, SMT, Z3 DEF Charged
<1>3. x2 \in Map
  BY Fields, SMT, Zenon DEF Map, Credited
<1>4. x3 \in SUBSET Hashes
  BY Fields DEF Fresh, WithFresh
<1>5. e = [r EXCEPT !.queues = x1, !.queued = x2, !.queue = x3]
  <2>1. e = [r EXCEPT !.queues[p] = @ + Cardinality(new),
                      !.queued = [h \in Hashes |-> IF h \in new THEN p ELSE @[h]],
                      !.queue = @ \union new]
    BY Zenon DEF Enqueue, Fresh, Rejected
  <2> HIDE DEF r
  <2>2. QED
    BY <1>1, <2>1, Zenon DEF State, WithFresh, Charged, Credited
<1> HIDE DEF x1, x2, x3, r, e, new
<1>6. e = k3
  BY <1>5, Zenon
<1>7. k3 \in State
  <2>1. k1 \in State
    BY <1>1, <1>2, OneField
  <2> HIDE DEF k1
  <2>2. k2 \in State
    BY <1>3, <2>1, OneField
  <2> HIDE DEF k2
  <2>3. QED
    BY <1>4, <2>2, OneField
<1>8. /\ k3.queues = x1 /\ k3.queued = x2 /\ k3.queue = x3
      /\ k3.announced = r.announced /\ k3.fetching = r.fetching /\ k3.fetched = r.fetched
      /\ k3.completing = r.completing
      /\ k3.fetchTimer = r.fetchTimer /\ k3.completeTimer = r.completeTimer
  BY <1>1, Zenon DEF State
<1>9. /\ r.announced = Unannounced(g.announced, Rejected(S, A))
      /\ r.fetching = Without(g.fetching, Rejected(S, A))
      /\ r.fetched = Without(g.fetched, Rejected(S, A))
      /\ r.completing = Without(g.completing, Rejected(S, A))
      /\ r.fetchTimer = g.fetchTimer /\ r.completeTimer = g.completeTimer
  <2>1. out \in SUBSET Hashes
    BY DEF Rejected
  <2> HIDE DEF out
  <2>2. /\ r.announced = Unannounced(g.announced, out)
        /\ r.fetching = Without(g.fetching, out)
        /\ r.fetched = Without(g.fetched, out)
        /\ r.completing = Without(g.completing, out)
        /\ r.fetchTimer = g.fetchTimer
        /\ r.completeTimer = g.completeTimer
    BY <2>1, ForgetHashesState, Zenon DEF r
  <2>3. QED
    BY <2>2, Zenon DEF out
<1>10. QED
  <2> HIDE DEF k3
  <2> QED BY <1>6, <1>7, <1>8, <1>9, Zenon DEF x1, x2, x3, e

-----------------------------------------------------------------------------
(* What the helpers keep *)

\* Forgetting hashes takes them out of all maps and disturbs no other hash.
LEMMA Shrunk ==
  ASSUME NEW g \in State, NEW r \in State, NEW S, NEW empty,
         r.announced = Unannounced(g.announced, S),
         r.fetching = Without(g.fetching, S), r.fetched = Without(g.fetched, S),
         r.completing = Without(g.completing, S)
  PROVE  /\ Announced(r) = Announced(g) \ S
         /\ Entries(r.fetched) = Entries(g.fetched) \ S
         /\ Phased(g, empty) => Phased(r, empty)
<1>1. \A h \in Hashes, p \in Peers :
        r.announced[h][p] = IF h \in S THEN 0 ELSE g.announced[h][p]
  BY SMT, Zenon DEF Unannounced
<1>2. Announced(r) = Announced(g) \ S
  BY <1>1 DEF Announced
<1>3. Entries(r.fetched) = Entries(g.fetched) \ S
  BY Fields, WithoutMap, SMT, Zenon
<1>4. ASSUME Phased(g, empty) PROVE Phased(r, empty)
  <2> SUFFICES ASSUME NEW h \in Hashes PROVE PhaseOf(r, h, empty)
    BY DEF Phased
  <2>1. /\ r.fetching[h] = IF h \in S THEN None ELSE g.fetching[h]
        /\ r.fetched[h] = IF h \in S THEN None ELSE g.fetched[h]
        /\ r.completing[h] = IF h \in S THEN None ELSE g.completing[h]
    BY Fields, WithoutMap, SMT, Z3
  <2>2. PhaseOf(g, h, empty)
    BY <1>4 DEF Phased
  <2>3. QED
    BY <1>2, <2>1, <2>2, Zenon DEF PhaseOf
<1>5. QED
  BY <1>2, <1>3, <1>4

(* forgetHash keeps counters, places and phases in order. *)
LEMMA ForgetHashesGood ==
  ASSUME net \in Nets, NEW g, NEW imp, NEW fin, NEW empty, NEW S \in SUBSET Hashes, Good(g, imp, fin, empty)
  PROVE  Good(ForgetHashes(g, S), imp, fin, empty)
<1> DEFINE r == ForgetHashes(g, S)
<1>1. g \in State
  BY DEF Good
<1>2. /\ r \in State
      /\ r.announced = Unannounced(g.announced, S)
      /\ r.fetching = Without(g.fetching, S) /\ r.fetched = Without(g.fetched, S)
      /\ r.completing = Without(g.completing, S)
      /\ r.queue = g.queue /\ r.queues = g.queues /\ r.queued = g.queued
      /\ r.fetchTimer = g.fetchTimer /\ r.completeTimer = g.completeTimer
  BY <1>1, ForgetHashesState, Zenon
<1> HIDE DEF r
<1>3. /\ Announced(r) = Announced(g) \ S
      /\ Entries(r.fetched) = Entries(g.fetched) \ S
      /\ Phased(g, empty) => Phased(r, empty)
  BY <1>1, <1>2, Shrunk
<1>4. Accounted(r) /\ Placed(r, imp, fin)
  BY <1>2, Zenon DEF Good, Accounted, Placed
<1>5. Awake(r)
  BY <1>2, <1>3, Zenon DEF Good, Awake
<1>6. Good(r, imp, fin, empty)
  BY <1>2, <1>3, <1>4, <1>5, Zenon DEF Good
<1>7. QED
  BY <1>6 DEF r

\* forgetBlock gives the allowance back for exactly the units it forgets.
LEMMA ForgetBlocksAccounted ==
  ASSUME NEW g \in State, NEW S \in SUBSET Hashes, Accounted(g)
  PROVE  Accounted(ForgetBlocks(g, S))
<1> DEFINE r == ForgetBlocks(g, S)
<1>1. /\ r.queues = [p \in Peers |-> g.queues[p] - Cardinality(Of(g.queued, p, S))]
      /\ r.queued = Without(g.queued, S)
  BY ForgetBlocksState, Zenon
<1> HIDE DEF r
<1>2. SUFFICES ASSUME NEW p \in Peers
               PROVE  /\ r.queues[p] = Cardinality(Of(r.queued, p, Hashes))
                      /\ r.queues[p] <= BlockLimit
  BY Zenon DEF Accounted, r
<1> DEFINE all == Of(g.queued, p, Hashes)
           out == Of(g.queued, p, S)
<1>3. Of(r.queued, p, Hashes) = all \ out
  BY <1>1, Fields, WithoutMap, FetcherAssumption, SMT, Z3 DEF Of
<1>4. IsFiniteSet(all) /\ Cardinality(all) \in Nat /\ Cardinality(out) \in Nat
  BY FiniteOf
<1>5. all \intersect out = out
  BY DEF Of
<1>6. Cardinality(all \ out) = Cardinality(all) - Cardinality(out)
  <2> HIDE DEF all, out
  <2> QED BY <1>4, <1>5, FS_Difference, ZenonT(40)
<1>7. g.queues[p] = Cardinality(all) /\ g.queues[p] <= BlockLimit
  BY DEF Accounted
<1>8. r.queues[p] = g.queues[p] - Cardinality(out)
  BY <1>1
<1>9. BlockLimit \in Nat
  BY FetcherAssumption
<1>10. QED
  <2> HIDE DEF all, out
  <2> QED BY <1>3, <1>4, <1>6, <1>7, <1>8, <1>9

\* enqueue keeps to the allowance and puts a unit into the queue only once.
LEMMA EnqueueGood ==
  ASSUME net \in Nets, NEW g \in State, NEW imp, NEW fin, NEW empty, NEW p \in Peers,
         NEW S \in SUBSET Hashes, NEW A \in SUBSET S, A \in Acceptable(g, p, S),
         Good(g, imp, fin, empty)
  PROVE  Good(Enqueue(g, p, S, A), imp, fin, empty)
<1> DEFINE new == Fresh(g, A)
           e == Enqueue(g, p, S, A)
<1>1. g \in State /\ A \in SUBSET S
  BY DEF Good, Acceptable
<1>2. /\ e \in State
      /\ e.announced = Unannounced(g.announced, Rejected(S, A))
      /\ e.fetching = Without(g.fetching, Rejected(S, A))
      /\ e.fetched = Without(g.fetched, Rejected(S, A))
      /\ e.completing = Without(g.completing, Rejected(S, A))
      /\ e.queue = WithFresh(g, A)
      /\ e.queues = Charged(g, p, A)
      /\ e.queued = Credited(g, p, A)
      /\ e.fetchTimer = g.fetchTimer
      /\ e.completeTimer = g.completeTimer
  BY EnqueueState, Zenon
<1>3. new \in SUBSET Hashes /\ new \in SUBSET A /\ \A h \in new : g.queued[h] = None
  BY <1>1 DEF Fresh
<1>4. /\ \A q \in Peers : e.queues[q] =
           IF q = p THEN g.queues[p] + Cardinality(new) ELSE g.queues[q]
      /\ \A h \in Hashes : e.queued[h] = IF h \in new THEN p ELSE g.queued[h]
  <2> HIDE DEF e
  <2> QED BY <1>1, <1>2, Fields DEF Charged, Credited
<1> HIDE DEF e, new
<1>5. /\ Announced(e) = Announced(g) \ Rejected(S, A)
      /\ Entries(e.fetched) = Entries(g.fetched) \ Rejected(S, A)
      /\ Phased(g, empty) => Phased(e, empty)
  BY <1>1, <1>2, Shrunk
<1>6. Awake(e)
  BY <1>2, <1>5, Zenon DEF Good, Awake
<1>7. Placed(e, imp, fin)
  <2>1. Entries(e.queued) = Entries(g.queued) \union new
    BY <1>4, <1>2, <1>3, FetcherAssumption DEF Entries
  <2>2. Entries(g.queued) \intersect new = {}
    BY <1>3 DEF Entries
  <2>3. Placed(g, imp, fin)
    BY DEF Good
  <2>4. e.queue = g.queue \union new
    BY <1>2 DEF WithFresh, new
  <2>5. QED
    BY <2>1, <2>2, <2>3, <2>4 DEF Placed
<1>8. Accounted(e)
  <2>1. SUFFICES ASSUME NEW q \in Peers
                 PROVE  /\ e.queues[q] = Cardinality(Of(e.queued, q, Hashes))
                        /\ e.queues[q] <= BlockLimit
    BY DEF Accounted
  <2>2. g.queues[q] = Cardinality(Of(g.queued, q, Hashes)) /\ g.queues[q] <= BlockLimit
    BY DEF Good, Accounted
  <2>3. CASE q # p
    <3>1. Of(e.queued, q, Hashes) = Of(g.queued, q, Hashes)
      BY <1>4, <1>2, <1>3, <2>3, FetcherAssumption, SMT, Zenon DEF Of
    <3>2. e.queues[q] = g.queues[q]
      BY <1>4, <1>1, <1>2, <2>3, Fields
    <3>3. QED
      BY <2>2, <3>1, <3>2
  <2>4. CASE q = p
    <3> DEFINE old == Of(g.queued, p, Hashes)
    <3>1. Of(e.queued, p, Hashes) = old \union new
      BY <1>4, <1>2, <1>3 DEF Of
    <3>2. old \intersect new = {}
      BY <1>3, FetcherAssumption DEF Of
    <3>3. /\ IsFiniteSet(old) /\ IsFiniteSet(new)
          /\ Cardinality(old) \in Nat /\ Cardinality(new) \in Nat
      BY <1>3, FiniteOf
    <3>4. Cardinality(old \union new) = Cardinality(old) + Cardinality(new)
      <4> HIDE DEF old
      <4>1. Cardinality(old \union new) = Cardinality(old) + Cardinality(new) - Cardinality({})
        BY <3>2, <3>3, FS_Union
      <4>2. QED
        BY <3>3, <4>1, FS_EmptySet, SMT, Z3
    <3>5. e.queues[p] = g.queues[p] + Cardinality(new)
      BY <1>4, <1>1, <1>2, Fields
    <3>6. Cardinality(new) <= BlockLimit - g.queues[p]
      <4>1. Cardinality(A) <= BlockLimit - g.queues[p]
        <5> DEFINE near == {h \in S : Near(h)}
        <5>1. /\ A \in SUBSET near
              /\ Cardinality(A) = IF Cardinality(near) <= BlockLimit - g.queues[p]
                                  THEN Cardinality(near) ELSE BlockLimit - g.queues[p]
          BY DEF Acceptable
        <5>2. near \in SUBSET Hashes
          OBVIOUS
        <5>3. Cardinality(near) \in Nat
          BY <5>2, FiniteOf
        <5>4. g.queues[p] \in Int /\ BlockLimit \in Int
          BY <1>1, Fields, FetcherAssumption, SMT, Z3
        <5>5. QED
          <6> HIDE DEF near
          <6> QED BY <5>1, <5>3, <5>4
      <4>2. A \in SUBSET Hashes
        BY <1>1
      <4>3. IsFiniteSet(A) /\ Cardinality(A) \in Nat
        BY <4>2, FiniteOf
      <4>4. Cardinality(new) <= Cardinality(A)
        BY <1>3, <4>3, FS_Subset
      <4>5. g.queues[p] \in Int /\ BlockLimit \in Int
        BY <1>1, Fields, FetcherAssumption, SMT, Z3
      <4>6. QED
        BY <3>3, <4>1, <4>3, <4>4, <4>5
    <3>7. g.queues[p] \in Int /\ BlockLimit \in Int
      BY <1>1, Fields, FetcherAssumption, SMT, Z3
    <3>8. QED
      <4> HIDE DEF old
      <4>1. g.queues[p] = Cardinality(old)
        BY <2>2, <2>4 DEF old
      <4>2. QED
        BY <2>4, <3>1, <3>3, <3>4, <3>5, <3>6, <3>7, <4>1
  <2>5. QED
    BY <2>3, <2>4
<1>9. Good(e, imp, fin, empty)
  BY <1>2, <1>5, <1>6, <1>7, <1>8, Zenon DEF Good
<1>10. QED
  BY <1>9 DEF e

\* The pass at the top of the loop.
LEMMA LoopGood ==
  ASSUME net \in Nets, NEW g, NEW fin, NEW empty,
         Good(g, importing, fin, empty), Loop(g)
  PROVE  Good(f', importing', fin, empty)
<1>1. PICK expired \in SUBSET Entries(g.fetching) :
        f' = [ForgetBlocks(ForgetHashes(g, expired), Stale(g)) EXCEPT !.queue = @ \ Ready(g)]
  BY Zenon DEF Loop
<1> DEFINE r == ForgetHashes(g, expired)
           b == ForgetBlocks(r, Stale(g))
           left == b.queue \ Ready(g)
<1>2. importing' = importing \union (Ready(g) \ Stale(g))
  BY DEF Loop
<1>3. g \in State /\ expired \in SUBSET Hashes
  BY DEF Good, Entries
<1>4. Good(r, importing, fin, empty) /\ r.queue = g.queue /\ r \in State
  <2>1. Good(r, importing, fin, empty)
    BY <1>3, ForgetHashesGood
  <2>2. r.queue = g.queue /\ r \in State
    BY <1>3, ForgetHashesState
  <2>3. QED
    BY <2>1, <2>2
<1>5. Ready(g) \in SUBSET g.queue /\ Stale(g) \in SUBSET Ready(g) /\ Stale(g) \in SUBSET Hashes
  BY <1>3, Fields DEF Ready, Stale
<1>6. /\ b \in State
      /\ b.queued = Without(r.queued, Stale(g))
      /\ b.announced = r.announced /\ b.fetching = r.fetching /\ b.fetched = r.fetched
      /\ b.completing = r.completing /\ b.queue = r.queue
      /\ b.fetchTimer = r.fetchTimer /\ b.completeTimer = r.completeTimer
  <2> HIDE DEF r
  <2> QED BY <1>4, <1>5, ForgetBlocksState, Zenon
<1>7. Accounted(b)
  <2>1. Accounted(r)
    BY <1>4 DEF Good
  <2> HIDE DEF r
  <2>2. QED
    BY <1>4, <1>5, <2>1, ForgetBlocksAccounted
<1> HIDE DEF r, b
<1>8. f' = [b EXCEPT !.queue = left]
  BY <1>1, Zenon DEF b, r
<1>9. left \in SUBSET Hashes
  BY <1>6, Fields
<1>10. f' \in State
  <2> HIDE DEF left
  <2> QED BY <1>6, <1>8, <1>9, OneField
<1>11. /\ f'.queue = left /\ f'.queues = b.queues /\ f'.queued = b.queued
       /\ f'.announced = b.announced /\ f'.fetching = b.fetching /\ f'.fetched = b.fetched
       /\ f'.completing = b.completing
       /\ f'.fetchTimer = b.fetchTimer /\ f'.completeTimer = b.completeTimer
  <2> HIDE DEF left
  <2> QED BY <1>6, <1>8, Zenon DEF State
<1>12. Accounted(f')
  BY <1>7, <1>11, Zenon DEF Accounted
<1>13. Awake(f') /\ Phased(f', empty)
  <2>1. Awake(r) /\ Phased(r, empty)
    BY <1>4 DEF Good
  <2>2. Announced(f') = Announced(r)
    BY <1>6, <1>11, Zenon DEF Announced
  <2>3. /\ f'.fetching = r.fetching /\ f'.fetched = r.fetched /\ f'.completing = r.completing
        /\ f'.fetchTimer = r.fetchTimer /\ f'.completeTimer = r.completeTimer
    BY <1>6, <1>11, Zenon
  <2>4. QED
    BY <2>1, <2>2, <2>3, Zenon DEF Awake, Phased, PhaseOf
<1>14. Placed(f', importing', fin)
  <2>1. Placed(r, importing, fin)
    BY <1>4 DEF Good
  <2>2. Entries(f'.queued) = Entries(r.queued) \ Stale(g)
    BY <1>4, <1>6, <1>11, Fields, WithoutMap, SMT, Z3
  <2>3. f'.queue = r.queue \ Ready(g)
    BY <1>6, <1>11
  <2>4. QED
    BY <1>2, <1>4, <1>5, <2>1, <2>2, <2>3 DEF Placed
<1>15. QED
  BY <1>10, <1>12, <1>13, <1>14, Zenon DEF Good


\* What the select branches need of it.
LEMMA LoopInv ==
  ASSUME FetcherInv, NEW g, NEW fin \in SUBSET Hashes,
         Good(g, importing, fin, net.empty), Loop(g),
         finished' = fin, UNCHANGED <<restVars, stopped>>
  PROVE  FetcherInv'
<1>1. net \in Nets
  BY DEF FetcherInv, Rest
<1>2. Good(f', importing', fin, net.empty)
  BY <1>1, LoopGood
<1>3. g \in State
  BY DEF Good
<1>4. importing' \subseteq Hashes
  <2>1. importing' = importing \union (Ready(g) \ Stale(g))
    BY DEF Loop
  <2>2. QED
    BY <1>3, <2>1, Fields DEF FetcherInv, Rest, Ready
<1>5. Rest'
  BY <1>4 DEF FetcherInv, Rest, restVars
<1>6. net' = net
  BY DEF restVars
<1>7. QED
  BY <1>2, <1>5, <1>6 DEF FetcherInv

-----------------------------------------------------------------------------
(* The timers *)

(* A fetch timer that runs when something is announced makes the state good. *)
LEMMA FetchTimerSet ==
  ASSUME NEW g \in State, NEW imp, NEW fin, NEW empty, NEW on \in BOOLEAN,
         Accounted(g), Placed(g, imp, fin), Phased(g, empty),
         Announced(g) # {} => on, Entries(g.fetched) # {} => g.completeTimer
  PROVE  Good([g EXCEPT !.fetchTimer = on], imp, fin, empty)
<1> DEFINE r == [g EXCEPT !.fetchTimer = on]
<1>1. r \in State
  BY OneField
<1>2. /\ r.announced = g.announced /\ r.fetching = g.fetching /\ r.fetched = g.fetched
      /\ r.completing = g.completing /\ r.queue = g.queue /\ r.queues = g.queues
      /\ r.queued = g.queued /\ r.fetchTimer = on /\ r.completeTimer = g.completeTimer
  BY Zenon DEF State
<1> HIDE DEF r
<1>3. Announced(r) = Announced(g)
  BY <1>2, Zenon DEF Announced
<1>4. Accounted(r)
  BY <1>2, Zenon DEF Accounted
<1>5. Placed(r, imp, fin)
  BY <1>2, Zenon DEF Placed
<1>6. Awake(r)
  BY <1>2, <1>3, Zenon DEF Awake
<1>7. Phased(r, empty)
  BY <1>2, <1>3, Zenon DEF Phased, PhaseOf
<1>8. Good(r, imp, fin, empty)
  BY <1>1, <1>4, <1>5, <1>6, <1>7, Zenon DEF Good
<1>9. QED
  BY <1>8, Zenon DEF r

(* A completion timer that runs when something is fetched makes the state     *)
(* good.                                                                      *)
LEMMA CompleteTimerSet ==
  ASSUME NEW g \in State, NEW imp, NEW fin, NEW empty, NEW on \in BOOLEAN,
         Accounted(g), Placed(g, imp, fin), Phased(g, empty),
         Announced(g) # {} => g.fetchTimer, Entries(g.fetched) # {} => on
  PROVE  Good([g EXCEPT !.completeTimer = on], imp, fin, empty)
<1> DEFINE r == [g EXCEPT !.completeTimer = on]
<1>1. r \in State
  BY OneField
<1>2. /\ r.announced = g.announced /\ r.fetching = g.fetching /\ r.fetched = g.fetched
      /\ r.completing = g.completing /\ r.queue = g.queue /\ r.queues = g.queues
      /\ r.queued = g.queued /\ r.fetchTimer = g.fetchTimer /\ r.completeTimer = on
  BY Zenon DEF State
<1> HIDE DEF r
<1>3. Announced(r) = Announced(g)
  BY <1>2, Zenon DEF Announced
<1>4. Accounted(r)
  BY <1>2, Zenon DEF Accounted
<1>5. Placed(r, imp, fin)
  BY <1>2, Zenon DEF Placed
<1>6. Awake(r)
  BY <1>2, <1>3, Zenon DEF Awake
<1>7. Phased(r, empty)
  BY <1>2, <1>3, Zenon DEF Phased, PhaseOf
<1>8. Good(r, imp, fin, empty)
  BY <1>1, <1>4, <1>5, <1>6, <1>7, Zenon DEF Good
<1>9. QED
  BY <1>8, Zenon DEF r

\* The timer is on once it is set for the only entry: with a second entry it
\* was on before.
LEMMA OnlyEntry ==
  ASSUME NEW S, NEW h, Cardinality(S \union {h}) # 1
  PROVE  S # {}
<1>1. ASSUME S = {} PROVE FALSE
  <2>1. S \union {h} = {h}
    BY <1>1
  <2>2. Cardinality({h}) = 1
    BY FS_Singleton
  <2>3. QED
    BY <2>1, <2>2
<1>2. QED
  BY <1>1

-----------------------------------------------------------------------------
(* The select branches *)

\* An announcement is recorded.
LEMMA AnnounceGood ==
  ASSUME NEW p \in Peers, NEW h \in Hashes, FetcherInv, ~Ignored(p, h)
  PROVE  Good(Announce(p, h), importing, finished, net.empty)
<1> DEFINE x1 == [f.announces EXCEPT ![p] = @ + 1]
           y == [f.announced[h] EXCEPT ![p] = @ + 1]
           x2 == [f.announced EXCEPT ![h] = y]
           k1 == [f EXCEPT !.announces = x1]
           k2 == [k1 EXCEPT !.announced = x2]
           g == [f EXCEPT !.announces[p] = @ + 1, !.announced[h][p] = @ + 1]
<1>1. /\ f \in State /\ Accounted(f) /\ Placed(f, importing, finished) /\ Awake(f)
      /\ Phased(f, net.empty)
  BY DEF FetcherInv, Good
<1>2. x1 \in [Peers -> Int]
  BY <1>1, Fields, SMT, Z3
<1>3. x2 \in [Hashes -> [Peers -> Nat]]
  <2>1. y \in [Peers -> Nat]
    BY <1>1, Fields, SMT, Z3
  <2> HIDE DEF y
  <2>2. QED
    BY <1>1, <2>1, Fields
<1>4. /\ x2[h][p] = f.announced[h][p] + 1
      /\ \A i \in Hashes, q \in Peers : i # h \/ q # p => x2[i][q] = f.announced[i][q]
  <2>1. x2[h] = y /\ \A i \in Hashes \ {h} : x2[i] = f.announced[i]
    <3> HIDE DEF y
    <3> QED BY <1>1, Fields
  <2>2. y[p] = f.announced[h][p] + 1 /\ \A q \in Peers \ {p} : y[q] = f.announced[h][q]
    BY <1>1, Fields
  <2> HIDE DEF x2, y
  <2>3. QED
    BY <2>1, <2>2
<1>5. g = k2
  BY <1>1, Zenon DEF State
<1>6. g \in State
  <2> HIDE DEF x1, x2, k2, g
  <2>1. k1 \in State
    BY <1>1, <1>2, OneField
  <2> HIDE DEF k1
  <2>2. k2 \in State
    BY <2>1, <1>3, OneField DEF k2
  <2>3. QED
    BY <1>5, <2>2
<1>7. /\ g.announced = x2 /\ g.fetching = f.fetching /\ g.fetched = f.fetched
      /\ g.completing = f.completing /\ g.queue = f.queue /\ g.queues = f.queues
      /\ g.queued = f.queued /\ g.fetchTimer = f.fetchTimer
      /\ g.completeTimer = f.completeTimer
  <2> HIDE DEF x1, x2
  <2> QED BY <1>1, <1>5, Zenon DEF State
<1> HIDE DEF x1, x2, k1, k2, g
<1>8. Announced(g) = Announced(f) \union {h}
  <2>1. f.announced[h][p] \in Nat
    BY <1>1, Fields, SMT, Z3
  <2>2. x2[h][p] > 0
    BY <1>4, <2>1
  <2>3. \A i \in Hashes, q \in Peers : i # h => x2[i][q] = f.announced[i][q]
    BY <1>4
  <2>4. QED
    BY <1>7, <2>2, <2>3, Zenon DEF Announced
<1>9. f.fetching[h] = None /\ f.completing[h] = None
  BY DEF Ignored
<1>10. Accounted(g)
  BY <1>1, <1>7, Zenon DEF Accounted
<1>11. Placed(g, importing, finished)
  BY <1>1, <1>7, Zenon DEF Placed
<1>12. Phased(g, net.empty)
  <2>1. \A i \in Hashes : PhaseOf(f, i, net.empty)
    BY <1>1, Zenon DEF Phased
  <2>2. QED
    BY <1>7, <1>8, <1>9, <2>1, Zenon DEF Phased, PhaseOf
<1>13. Entries(g.fetched) # {} => g.completeTimer
  BY <1>1, <1>7, Zenon DEF Awake
<1>14. CASE Cardinality(Announced(g)) = 1
  <2>1. Announce(p, h) = [g EXCEPT !.fetchTimer = g.fetchTimer \/ Announced(g) # {}]
    BY <1>14, Zenon DEF Announce, RescheduleFetch, g
  <2> DEFINE on == g.fetchTimer \/ Announced(g) # {}
  <2>2. on \in BOOLEAN /\ (Announced(g) # {} => on)
    BY Zenon
  <2> HIDE DEF on
  <2>3. Good([g EXCEPT !.fetchTimer = on], importing, finished, net.empty)
    BY <1>6, <1>10, <1>11, <1>12, <1>13, <2>2, FetchTimerSet
  <2>4. QED
    BY <2>1, <2>3, Zenon DEF on
<1>15. CASE Cardinality(Announced(g)) # 1
  <2>1. Announce(p, h) = g
    BY <1>15, Zenon DEF Announce, g
  <2>2. Announced(f) # {}
    BY <1>8, <1>15, OnlyEntry
  <2>3. Awake(g)
    BY <1>1, <1>7, <2>2, Zenon DEF Awake
  <2>4. QED
    BY <1>6, <1>10, <1>11, <1>12, <2>1, <2>3, Zenon DEF Good
<1>16. QED
  BY <1>14, <1>15


\* The branch of the fetch timer.
FetchBranch(due, from) ==
  RescheduleFetch(
    [ForgetHashes([f EXCEPT !.fetchTimer = FALSE], due) EXCEPT
       !.fetching = [h \in Hashes |-> IF h \in due \ known THEN from[h] ELSE @[h]]])

(* The branch of the fetch timer keeps the state good. *)
LEMMA FetchGood ==
  ASSUME FetcherInv, NEW due \in SUBSET Hashes, NEW from \in [due -> net.peers]
  PROVE  Good(FetchBranch(due, from), importing, finished, net.empty)
<1> DEFINE g0 == [f EXCEPT !.fetchTimer = FALSE]
           g == ForgetHashes(g0, due)
           x == [h \in Hashes |-> IF h \in due \ known THEN from[h] ELSE g.fetching[h]]
           k == [g EXCEPT !.fetching = x]
           on == k.fetchTimer \/ Announced(k) # {}
<1>1. /\ f \in State /\ Accounted(f) /\ Placed(f, importing, finished) /\ Awake(f)
      /\ Phased(f, net.empty) /\ net \in Nets
  BY DEF FetcherInv, Good, Rest
<1>2. net.peers \in SUBSET Peers
  BY <1>1, FetcherAssumption DEF Net
<1>3. /\ g0 \in State
      /\ g0.announced = f.announced /\ g0.fetching = f.fetching /\ g0.fetched = f.fetched
      /\ g0.completing = f.completing /\ g0.queue = f.queue /\ g0.queues = f.queues
      /\ g0.queued = f.queued /\ g0.completeTimer = f.completeTimer
  <2>1. g0 \in State
    BY <1>1, OneField, Zenon
  <2>2. QED
    BY <1>1, <2>1, Zenon DEF State
<1> HIDE DEF g0
<1>4. /\ g \in State
      /\ g.announced = Unannounced(g0.announced, due)
      /\ g.fetching = Without(g0.fetching, due) /\ g.fetched = Without(g0.fetched, due)
      /\ g.completing = Without(g0.completing, due)
      /\ g.queue = g0.queue /\ g.queues = g0.queues /\ g.queued = g0.queued
      /\ g.completeTimer = g0.completeTimer
  BY <1>1, <1>3, ForgetHashesState, Zenon
<1> HIDE DEF g
<1>5. Phased(g0, net.empty) /\ Announced(g0) = Announced(f)
  <2>1. Announced(g0) = Announced(f)
    BY <1>3, Zenon DEF Announced
  <2>2. QED
    BY <1>1, <1>3, <2>1, Zenon DEF Phased, PhaseOf
<1>6. /\ Announced(g) = Announced(g0) \ due
      /\ Entries(g.fetched) = Entries(g0.fetched) \ due
      /\ Phased(g, net.empty)
  BY <1>3, <1>4, <1>5, Shrunk, SMT, Z3
<1>7. x \in Map
  BY <1>2, <1>4, Fields, SMT, Zenon DEF Map
<1>8. /\ \A h \in due : g.fetched[h] = None /\ g.completing[h] = None /\ h \notin Announced(g)
      /\ \A h \in Hashes \ due : x[h] = g.fetching[h]
      /\ \A h \in due : x[h] = g.fetching[h] \/ x[h] = from[h]
  BY <1>3, <1>4, <1>6, Fields, WithoutMap, SMT, Z3
<1> HIDE DEF x
<1>9. /\ k \in State
      /\ k.announced = g.announced /\ k.fetching = x /\ k.fetched = g.fetched
      /\ k.completing = g.completing /\ k.queue = g.queue /\ k.queues = g.queues
      /\ k.queued = g.queued /\ k.completeTimer = g.completeTimer
  <2>1. k \in State
    BY <1>4, <1>7, OneField
  <2>2. QED
    BY <1>4, <2>1, Zenon DEF State
<1> HIDE DEF k
<1>10. Announced(k) = Announced(g)
  BY <1>9, Zenon DEF Announced
<1>11. Accounted(k)
  BY <1>1, <1>3, <1>4, <1>9, Zenon DEF Accounted
<1>12. Placed(k, importing, finished)
  BY <1>1, <1>3, <1>4, <1>9, Zenon DEF Placed
<1>13. Phased(k, net.empty)
  <2>1. \A h \in Hashes : PhaseOf(g, h, net.empty)
    BY <1>6, Zenon DEF Phased
  <2>2. SUFFICES ASSUME NEW h \in Hashes PROVE PhaseOf(k, h, net.empty)
    BY Zenon DEF Phased
  <2>3. CASE h \in due
    BY <1>8, <1>9, <1>10, <2>3, Zenon DEF PhaseOf
  <2>4. CASE h \notin due
    <3>1. k.fetching[h] = g.fetching[h]
      BY <1>8, <1>9, <2>4
    <3>2. PhaseOf(g, h, net.empty)
      BY <2>1
    <3>3. QED
      BY <1>9, <1>10, <3>1, <3>2, Zenon DEF PhaseOf
  <2>5. QED
    BY <2>3, <2>4
<1>14. Entries(k.fetched) # {} => k.completeTimer
  BY <1>1, <1>3, <1>4, <1>6, <1>9 DEF Awake
<1>15. on \in BOOLEAN /\ (Announced(k) # {} => on)
  BY Zenon
<1>16. FetchBranch(due, from) = [k EXCEPT !.fetchTimer = on]
  BY Zenon DEF FetchBranch, RescheduleFetch, k, x, g, g0
<1> HIDE DEF on
<1>17. Good([k EXCEPT !.fetchTimer = on], importing, finished, net.empty)
  BY <1>9, <1>11, <1>12, <1>13, <1>14, <1>15, FetchTimerSet
<1>18. QED
  BY <1>16, <1>17, Zenon

\* The branch of the completion timer.
CompleteBranch ==
  RescheduleComplete(
    [ForgetHashes([f EXCEPT !.completeTimer = FALSE], Entries(f.fetched)) EXCEPT
       !.completing = [h \in Hashes |->
         IF h \in Entries(f.fetched) \ known THEN f.fetched[h] ELSE @[h]]])

(* The branch of the completion timer keeps the state good. *)
LEMMA CompleteGood ==
  ASSUME FetcherInv
  PROVE  Good(CompleteBranch, importing, finished, net.empty)
<1> DEFINE due == Entries(f.fetched)
           g0 == [f EXCEPT !.completeTimer = FALSE]
           g == ForgetHashes(g0, due)
           x == [h \in Hashes |-> IF h \in due \ known THEN f.fetched[h] ELSE g.completing[h]]
           k == [g EXCEPT !.completing = x]
           on == k.completeTimer \/ Entries(k.fetched) # {}
<1>1. /\ f \in State /\ Accounted(f) /\ Placed(f, importing, finished) /\ Awake(f)
      /\ Phased(f, net.empty) /\ net \in Nets
  BY DEF FetcherInv, Good, Rest
<1>2. due \in SUBSET Hashes
  BY DEF Entries
<1>3. /\ g0 \in State
      /\ g0.announced = f.announced /\ g0.fetching = f.fetching /\ g0.fetched = f.fetched
      /\ g0.completing = f.completing /\ g0.queue = f.queue /\ g0.queues = f.queues
      /\ g0.queued = f.queued /\ g0.fetchTimer = f.fetchTimer
  <2>1. g0 \in State
    BY <1>1, OneField, Zenon
  <2>2. QED
    BY <1>1, <2>1, Zenon DEF State
<1> HIDE DEF g0, due
<1>4. /\ g \in State
      /\ g.announced = Unannounced(g0.announced, due)
      /\ g.fetching = Without(g0.fetching, due) /\ g.fetched = Without(g0.fetched, due)
      /\ g.completing = Without(g0.completing, due)
      /\ g.queue = g0.queue /\ g.queues = g0.queues /\ g.queued = g0.queued
      /\ g.fetchTimer = g0.fetchTimer
  BY <1>1, <1>2, <1>3, ForgetHashesState, Zenon
<1> HIDE DEF g
<1>5. Phased(g0, net.empty) /\ Announced(g0) = Announced(f)
  <2>1. Announced(g0) = Announced(f)
    BY <1>3, Zenon DEF Announced
  <2>2. QED
    BY <1>1, <1>3, <2>1, Zenon DEF Phased, PhaseOf
<1>6. /\ Announced(g) = Announced(g0) \ due
      /\ Phased(g, net.empty)
  BY <1>3, <1>4, <1>5, Shrunk, SMT, Z3
<1>7. x \in Map
  BY <1>1, <1>4, Fields, SMT, Z3 DEF Map
<1>8. /\ \A h \in due : g.fetching[h] = None /\ g.fetched[h] = None /\ h \notin Announced(g)
      /\ \A h \in Hashes \ due : x[h] = g.completing[h]
  BY <1>2, <1>3, <1>4, <1>6, Fields, WithoutMap, SMT, Z3
<1> HIDE DEF x
<1>9. /\ k \in State
      /\ k.announced = g.announced /\ k.completing = x /\ k.fetched = g.fetched
      /\ k.fetching = g.fetching /\ k.queue = g.queue /\ k.queues = g.queues
      /\ k.queued = g.queued /\ k.fetchTimer = g.fetchTimer
  <2>1. k \in State
    BY <1>4, <1>7, OneField
  <2>2. QED
    BY <1>4, <2>1, Zenon DEF State
<1> HIDE DEF k
<1>10. Announced(k) = Announced(g)
  BY <1>9, Zenon DEF Announced
<1>11. Accounted(k)
  BY <1>1, <1>3, <1>4, <1>9, Zenon DEF Accounted
<1>12. Placed(k, importing, finished)
  BY <1>1, <1>3, <1>4, <1>9, Zenon DEF Placed
<1>13. Phased(k, net.empty)
  <2>1. \A h \in Hashes : PhaseOf(g, h, net.empty)
    BY <1>6, Zenon DEF Phased
  <2>2. SUFFICES ASSUME NEW h \in Hashes PROVE PhaseOf(k, h, net.empty)
    BY Zenon DEF Phased
  <2>3. CASE h \in due
    BY <1>8, <1>9, <1>10, <2>3, Zenon DEF PhaseOf
  <2>4. CASE h \notin due
    <3>1. k.completing[h] = g.completing[h]
      BY <1>8, <1>9, <2>4
    <3>2. PhaseOf(g, h, net.empty)
      BY <2>1
    <3>3. QED
      BY <1>9, <1>10, <3>1, <3>2, Zenon DEF PhaseOf
  <2>5. QED
    BY <2>3, <2>4
<1>14. Announced(k) # {} => k.fetchTimer
  BY <1>1, <1>3, <1>4, <1>5, <1>6, <1>9, <1>10 DEF Awake
<1>15. on \in BOOLEAN /\ (Entries(k.fetched) # {} => on)
  BY Zenon
<1>16. CompleteBranch = [k EXCEPT !.completeTimer = on]
  BY Zenon DEF CompleteBranch, RescheduleComplete, k, x, g, g0, due
<1> HIDE DEF on
<1>17. Good([k EXCEPT !.completeTimer = on], importing, finished, net.empty)
  BY <1>9, <1>11, <1>12, <1>13, <1>14, <1>15, CompleteTimerSet
<1>18. QED
  BY <1>16, <1>17, Zenon


\* A header without transactions is noted as being completed.
LEMMA CompletingGood ==
  ASSUME FetcherInv, NEW p \in Peers, NEW h \in Hashes, Requested(p, h), h \in net.empty
  PROVE  Good([f EXCEPT !.completing[h] = p], importing, finished, net.empty)
<1> DEFINE x == [f.completing EXCEPT ![h] = p]
           k == [f EXCEPT !.completing = x]
<1>1. /\ f \in State /\ Accounted(f) /\ Placed(f, importing, finished) /\ Awake(f)
      /\ Phased(f, net.empty) /\ None \notin Peers
  BY FetcherAssumption DEF FetcherInv, Good
<1>2. x \in Map /\ x[h] = p /\ \A i \in Hashes \ {h} : x[i] = f.completing[i]
  BY <1>1, Fields DEF Map
<1>3. k = [f EXCEPT !.completing[h] = p]
  BY Zenon
<1> HIDE DEF x
<1>4. /\ k \in State
      /\ k.announced = f.announced /\ k.completing = x /\ k.fetched = f.fetched
      /\ k.fetching = f.fetching /\ k.queue = f.queue /\ k.queues = f.queues
      /\ k.queued = f.queued /\ k.fetchTimer = f.fetchTimer
      /\ k.completeTimer = f.completeTimer
  <2>1. k \in State
    BY <1>1, <1>2, OneField
  <2>2. QED
    BY <1>1, <2>1, Zenon DEF State
<1> HIDE DEF k
<1>5. Announced(k) = Announced(f)
  BY <1>4, Zenon DEF Announced
<1>6. Accounted(k)
  BY <1>1, <1>4, Zenon DEF Accounted
<1>7. Placed(k, importing, finished)
  BY <1>1, <1>4, Zenon DEF Placed
<1>8. Awake(k)
  BY <1>1, <1>4, <1>5, Zenon DEF Awake
<1>9. Phased(k, net.empty)
  <2>1. SUFFICES ASSUME NEW i \in Hashes PROVE PhaseOf(k, i, net.empty)
    BY Zenon DEF Phased
  <2>2. PhaseOf(f, i, net.empty)
    BY <1>1, Zenon DEF Phased
  <2>3. CASE i = h
    <3>1. f.fetching[h] = p /\ f.fetched[h] = None
      BY DEF Requested
    <3>2. QED
      BY <1>1, <1>4, <1>5, <2>2, <2>3, <3>1 DEF PhaseOf
  <2>4. CASE i # h
    <3>1. k.completing[i] = f.completing[i]
      BY <1>2, <1>4, <2>4
    <3>2. QED
      BY <1>4, <1>5, <2>2, <3>1, Zenon DEF PhaseOf
  <2>5. QED
    BY <2>3, <2>4
<1>10. QED
  BY <1>3, <1>4, <1>6, <1>7, <1>8, <1>9, Zenon DEF Good

\* Any other header is noted as fetched.
HeaderBranch(p, h) ==
  LET g == [f EXCEPT !.fetched[h] = p] IN
  IF Cardinality(Entries(g.fetched)) = 1 THEN RescheduleComplete(g) ELSE g

(* A header that was asked for, with its body still to come, keeps the state  *)
(* good.                                                                      *)
LEMMA HeaderGood ==
  ASSUME FetcherInv, NEW p \in Peers, NEW h \in Hashes, Requested(p, h)
  PROVE  Good(HeaderBranch(p, h), importing, finished, net.empty)
<1> DEFINE x == [f.fetched EXCEPT ![h] = p]
           k == [f EXCEPT !.fetched = x]
<1>1. /\ f \in State /\ Accounted(f) /\ Placed(f, importing, finished) /\ Awake(f)
      /\ Phased(f, net.empty) /\ None \notin Peers
  BY FetcherAssumption DEF FetcherInv, Good
<1>2. x \in Map /\ x[h] = p /\ \A i \in Hashes \ {h} : x[i] = f.fetched[i]
  BY <1>1, Fields DEF Map
<1>3. k = [f EXCEPT !.fetched[h] = p]
  BY Zenon
<1> HIDE DEF x
<1>4. /\ k \in State
      /\ k.announced = f.announced /\ k.completing = f.completing /\ k.fetched = x
      /\ k.fetching = f.fetching /\ k.queue = f.queue /\ k.queues = f.queues
      /\ k.queued = f.queued /\ k.fetchTimer = f.fetchTimer
      /\ k.completeTimer = f.completeTimer
  <2>1. k \in State
    BY <1>1, <1>2, OneField
  <2>2. QED
    BY <1>1, <2>1, Zenon DEF State
<1> HIDE DEF k
<1>5. Announced(k) = Announced(f)
  BY <1>4, Zenon DEF Announced
<1>6. Accounted(k)
  BY <1>1, <1>4, Zenon DEF Accounted
<1>7. Placed(k, importing, finished)
  BY <1>1, <1>4, Zenon DEF Placed
<1>8. Announced(k) # {} => k.fetchTimer
  BY <1>1, <1>4, <1>5, Zenon DEF Awake
<1>9. Phased(k, net.empty)
  <2>1. SUFFICES ASSUME NEW i \in Hashes PROVE PhaseOf(k, i, net.empty)
    BY Zenon DEF Phased
  <2>2. PhaseOf(f, i, net.empty)
    BY <1>1, Zenon DEF Phased
  <2>3. CASE i = h
    <3>1. f.fetching[h] = p /\ f.completing[h] = None
      BY DEF Requested
    <3>2. QED
      BY <1>1, <1>2, <1>4, <1>5, <2>2, <2>3, <3>1 DEF PhaseOf
  <2>4. CASE i # h
    <3>1. k.fetched[i] = f.fetched[i]
      BY <1>2, <1>4, <2>4
    <3>2. QED
      BY <1>4, <1>5, <2>2, <3>1, Zenon DEF PhaseOf
  <2>5. QED
    BY <2>3, <2>4
<1>10. Entries(k.fetched) = Entries(f.fetched) \union {h}
  BY <1>1, <1>2, <1>4 DEF Entries
<1>11. CASE Cardinality(Entries(k.fetched)) = 1
  <2> DEFINE on == k.completeTimer \/ Entries(k.fetched) # {}
  <2>1. HeaderBranch(p, h) = [k EXCEPT !.completeTimer = on]
    BY <1>3, <1>11, Zenon DEF HeaderBranch, RescheduleComplete
  <2>2. on \in BOOLEAN /\ (Entries(k.fetched) # {} => on)
    BY Zenon
  <2> HIDE DEF on
  <2>3. Good([k EXCEPT !.completeTimer = on], importing, finished, net.empty)
    BY <1>4, <1>6, <1>7, <1>8, <1>9, <2>2, CompleteTimerSet
  <2>4. QED
    BY <2>1, <2>3, Zenon
<1>12. CASE Cardinality(Entries(k.fetched)) # 1
  <2>1. HeaderBranch(p, h) = k
    BY <1>3, <1>12, Zenon DEF HeaderBranch
  <2>2. Entries(f.fetched) # {}
    BY <1>10, <1>12, OnlyEntry, Zenon
  <2>3. Awake(k)
    BY <1>1, <1>4, <1>8, <2>2, Zenon DEF Awake
  <2>4. QED
    BY <1>4, <1>6, <1>7, <1>9, <2>1, <2>3, Zenon DEF Good
<1>13. QED
  BY <1>11, <1>12

\* An import is acknowledged.
LEMMA DoneGood ==
  ASSUME FetcherInv, NEW h \in finished, NEW fin, fin = finished \ {h}
  PROVE  Good(ForgetBlocks(ForgetHashes(f, {h}), {h}), importing, fin, net.empty)
<1> DEFINE S == {h}
           r == ForgetHashes(f, S)
           b == ForgetBlocks(r, S)
<1>1. net \in Nets /\ S \in SUBSET Hashes /\ f \in State
  BY DEF FetcherInv, Rest, Good
<1>2. S = {h}
  OBVIOUS
<1> HIDE DEF S
<1>3. Good(r, importing, finished, net.empty)
  BY <1>1, ForgetHashesGood DEF FetcherInv
<1> HIDE DEF r
<1>4. r \in State /\ Accounted(r) /\ Placed(r, importing, finished) /\ Awake(r) /\ Phased(r, net.empty)
  BY <1>3 DEF Good
<1>5. /\ b \in State
      /\ b.queued = Without(r.queued, S)
      /\ b.announced = r.announced /\ b.fetching = r.fetching /\ b.fetched = r.fetched
      /\ b.completing = r.completing /\ b.queue = r.queue
      /\ b.fetchTimer = r.fetchTimer /\ b.completeTimer = r.completeTimer
  BY <1>1, <1>4, ForgetBlocksState, Zenon
<1>6. Accounted(b)
  BY <1>1, <1>4, ForgetBlocksAccounted
<1> HIDE DEF b
<1>7. Awake(b) /\ Phased(b, net.empty)
  <2>1. Announced(b) = Announced(r)
    BY <1>5, Zenon DEF Announced
  <2>2. QED
    BY <1>4, <1>5, <2>1, Zenon DEF Awake, Phased, PhaseOf
<1>8. Placed(b, importing, fin)
  <2>1. Entries(b.queued) = Entries(r.queued) \ S
    BY <1>4, <1>5, Fields, WithoutMap, SMT, Z3
  <2>2. QED
    BY <1>2, <1>4, <1>5, <2>1, SMT, Zenon DEF Placed
<1>9. Good(b, importing, fin, net.empty)
  BY <1>5, <1>6, <1>7, <1>8, Zenon DEF Good
<1>10. QED
  BY <1>9, Zenon DEF b, r, S


\* Bodies arrive.
LEMMA BodiesInv ==
  ASSUME FetcherInv, NEW p \in Peers, NEW several \in BOOLEAN, Bodies(p, several)
  PROVE  FetcherInv'
<1> DEFINE matched == {h \in Entries(f.completing) : f.completing[h] = p /\ f.queued[h] = None}
           K == matched \intersect known
           S == matched \ known
           g == ForgetHashes(f, K)
<1>1. net \in Nets /\ finished \in SUBSET Hashes
  BY DEF FetcherInv, Rest
<1>2. K \in SUBSET Hashes /\ S \in SUBSET Hashes
  BY DEF Entries
<1>3. PICK A \in Acceptable(g, p, S) :
        Loop(IF several /\ Enqueue(g, p, S, A).queues[p] = BlockLimit
             THEN ForgetHashes(Enqueue(g, p, S, A), A) ELSE Enqueue(g, p, S, A))
  BY Zenon DEF Bodies
<1>4. UNCHANGED <<finished, restVars, stopped>>
  BY DEF Bodies
<1> HIDE DEF K, S
<1>5. Good(g, importing, finished, net.empty)
  BY <1>1, <1>2, ForgetHashesGood DEF FetcherInv
<1> HIDE DEF g
<1>6. g \in State /\ A \in SUBSET S /\ A \in SUBSET Hashes
  BY <1>2, <1>5 DEF Good, Acceptable
<1> DEFINE e == Enqueue(g, p, S, A)
<1>7. Good(e, importing, finished, net.empty)
  BY <1>1, <1>2, <1>3, <1>5, <1>6, EnqueueGood
<1>8. CASE several /\ e.queues[p] = BlockLimit
  <2>1. Loop(ForgetHashes(e, A))
    BY <1>3, <1>8, Zenon
  <2> HIDE DEF e
  <2>2. Good(ForgetHashes(e, A), importing, finished, net.empty)
    BY <1>1, <1>6, <1>7, ForgetHashesGood
  <2> DEFINE d == ForgetHashes(e, A)
  <2> HIDE DEF d
  <2>3. Loop(d) /\ Good(d, importing, finished, net.empty)
    BY <2>1, <2>2, Zenon DEF d
  <2>4. QED
    BY <1>1, <1>4, <2>3, LoopInv
<1>9. CASE ~(several /\ e.queues[p] = BlockLimit)
  <2>1. Loop(e)
    BY <1>3, <1>9, Zenon
  <2> HIDE DEF e
  <2>2. QED
    BY <1>1, <1>4, <1>7, <2>1, LoopInv
<1>10. QED
  BY <1>8, <1>9

\* A unit of p is enqueued in the state g.
LEMMA EnqueueInv ==
  ASSUME FetcherInv, NEW p \in Peers, NEW h \in Hashes, NEW g,
         Good(g, importing, finished, net.empty),
         \E A \in Acceptable(g, p, {h}) : Loop(Enqueue(g, p, {h}, A)),
         UNCHANGED <<finished, restVars, stopped>>
  PROVE  FetcherInv'
<1> DEFINE S == {h}
<1>1. net \in Nets /\ finished \in SUBSET Hashes
  BY DEF FetcherInv, Rest
<1>2. PICK A \in Acceptable(g, p, S) : Loop(Enqueue(g, p, S, A))
  BY Zenon
<1>3. S \in SUBSET Hashes
  OBVIOUS
<1> HIDE DEF S
<1>4. g \in State /\ A \in SUBSET S
  BY <1>2 DEF Good, Acceptable
<1>5. Good(Enqueue(g, p, S, A), importing, finished, net.empty)
  BY <1>1, <1>2, <1>3, <1>4, EnqueueGood
<1> DEFINE e == Enqueue(g, p, S, A)
<1>6. Loop(e) /\ Good(e, importing, finished, net.empty)
  BY <1>2, <1>5
<1> HIDE DEF e
<1>7. QED
  BY <1>1, <1>6, LoopInv

\* The branches that leave the state g, which is good.
LEMMA BranchInv ==
  ASSUME FetcherInv, NEW g, Good(g, importing, finished, net.empty), Loop(g),
         UNCHANGED <<finished, restVars, stopped>>
  PROVE  FetcherInv'
<1>1. finished \in SUBSET Hashes
  BY DEF FetcherInv, Rest
<1>2. QED
  BY <1>1, LoopInv

(* The end of an import keeps the invariant. *)
LEMMA DoneInv ==
  ASSUME FetcherInv, NEW h \in Hashes, Done(h)
  PROVE  FetcherInv'
<1> DEFINE fin == finished \ {h}
           g == ForgetBlocks(ForgetHashes(f, {h}), {h})
<1>1. fin \in SUBSET Hashes
  BY DEF FetcherInv, Rest
<1>2. /\ h \in finished /\ finished' = fin /\ Loop(g)
      /\ UNCHANGED <<restVars, stopped>>
  BY DEF Done
<1>3. fin = finished \ {h}
  OBVIOUS
<1> HIDE DEF fin
<1>4. Good(g, importing, fin, net.empty)
  BY <1>2, <1>3, DoneGood
<1> HIDE DEF g
<1>5. QED
  BY <1>1, <1>2, <1>4, LoopInv

\* An insert goroutine ends, whether or not it stored the unit.
LEMMA InsertInv ==
  ASSUME FetcherInv, NEW h \in Hashes, Insert(h) \/ InsertFails(h)
  PROVE  FetcherInv'
<1>1. /\ h \in importing /\ importing' = importing \ {h} /\ finished' = finished \union {h}
      /\ f' = f /\ net' = net
  BY DEF Insert, InsertFails, restVars
<1>2. f \in State /\ Accounted(f) /\ Placed(f, importing, finished) /\ Awake(f) /\ Phased(f, net.empty)
  BY DEF FetcherInv, Good
<1>3. Placed(f, importing', finished')
  BY <1>1, <1>2 DEF Placed
<1>4. Good(f', importing', finished', net'.empty)
  BY <1>1, <1>2, <1>3, Zenon DEF Good
<1>5. Rest'
  BY <1>1, FetcherAssumption DEF FetcherInv, Rest, Insert, InsertFails, restVars
<1>6. QED
  BY <1>4, <1>5 DEF FetcherInv

-----------------------------------------------------------------------------
(* The invariant is inductive *)

(* An empty fetcher satisfies the invariant. *)
LEMMA FetcherInit == Init => FetcherInv
<1> SUFFICES ASSUME Init PROVE FetcherInv
  OBVIOUS
<1>1. Rest
  BY Zenon DEF Init, Rest
<1>2. f \in State
  BY DEF Init, State, Map
<1>3. /\ f.announced = [h \in Hashes |-> [p \in Peers |-> 0]] /\ f.queue = {}
      /\ f.fetching = [h \in Hashes |-> None] /\ f.fetched = [h \in Hashes |-> None]
      /\ f.queues = [p \in Peers |-> 0] /\ f.queued = [h \in Hashes |-> None]
      /\ importing = {} /\ finished = {}
  BY DEF Init
<1>4. Announced(f) = {} /\ Entries(f.fetched) = {} /\ Entries(f.queued) = {}
  BY <1>3, SMT, Z3 DEF Announced, Entries
<1>5. Accounted(f)
  <2>1. \A p \in Peers : Of(f.queued, p, Hashes) = {}
    BY <1>3, FetcherAssumption, SMT, Z3 DEF Of
  <2>2. \A p \in Peers : f.queues[p] = 0
    BY <1>3
  <2>3. Cardinality({}) = 0
    BY FS_EmptySet
  <2>4. 0 <= BlockLimit
    BY FetcherAssumption, SMT, Z3
  <2>5. QED
    BY <2>1, <2>2, <2>3, <2>4, Zenon DEF Accounted
<1>6. Placed(f, importing, finished)
  BY <1>3, <1>4 DEF Placed
<1>7. Awake(f)
  BY <1>4 DEF Awake
<1>8. Phased(f, net.empty)
  BY <1>3, <1>4 DEF Phased, PhaseOf
<1>9. QED
  BY <1>1, <1>2, <1>5, <1>6, <1>7, <1>8 DEF FetcherInv, Good

(* Every step keeps the invariant. *)
LEMMA FetcherStep == FetcherInv /\ [Next]_vars => FetcherInv'
<1> SUFFICES ASSUME FetcherInv, [Next]_vars PROVE FetcherInv'
  OBVIOUS
<1>1. net \in Nets /\ net.peers \in SUBSET Peers /\ Good(f, importing, finished, net.empty)
  BY FetcherAssumption DEF FetcherInv, Rest, Net
<1>2. ASSUME NEW p \in net.peers, NEW h \in Hashes, Notify(p, h) PROVE FetcherInv'
  <2>1. UNCHANGED <<finished, restVars, stopped>>
    BY <1>2 DEF Notify
  <2>2. CASE Ignored(p, h)
    <3>1. Loop(f)
      BY <1>2, <2>2, Zenon DEF Notify
    <3>2. QED
      BY <1>1, <2>1, <3>1, BranchInv
  <2>3. CASE ~Ignored(p, h)
    <3> DEFINE g == Announce(p, h)
    <3>1. Loop(g)
      BY <1>2, <2>3, Zenon DEF Notify
    <3>2. Good(g, importing, finished, net.empty)
      BY <1>1, <2>3, AnnounceGood
    <3> HIDE DEF g
    <3>3. QED
      BY <2>1, <3>1, <3>2, BranchInv
  <2>4. QED
    BY <2>2, <2>3
<1>3. ASSUME NEW p \in net.peers, NEW h \in Hashes, NotifyFar(p, h) \/ UnknownHeader(p, h)
      PROVE  FetcherInv'
  <2>1. Loop(f) /\ UNCHANGED <<finished, restVars, stopped>>
    BY <1>3 DEF NotifyFar, UnknownHeader
  <2>2. QED
    BY <1>1, <2>1, BranchInv
<1>4. ASSUME NEW p \in net.peers, NEW h \in Hashes, Inject(p, h) PROVE FetcherInv'
  <2>1. /\ \E A \in Acceptable(f, p, {h}) : Loop(Enqueue(f, p, {h}, A))
        /\ UNCHANGED <<finished, restVars, stopped>>
    BY <1>4 DEF Inject
  <2>2. QED
    BY <1>1, <2>1, EnqueueInv
<1>5. ASSUME NEW p \in net.peers, NEW h \in Hashes, UselessHeader(p, h) PROVE FetcherInv'
  <2> DEFINE S == {h}
             g == ForgetHashes(f, S)
  <2>1. Loop(g) /\ UNCHANGED <<finished, restVars, stopped>> /\ S \in SUBSET Hashes
    BY <1>5 DEF UselessHeader
  <2> HIDE DEF S
  <2>2. Good(g, importing, finished, net.empty)
    BY <1>1, <2>1, ForgetHashesGood
  <2> HIDE DEF g
  <2>3. QED
    BY <2>1, <2>2, BranchInv
<1>6. ASSUME NEW p \in net.peers, NEW h \in Hashes, CompleteHeader(p, h) PROVE FetcherInv'
  <2> DEFINE g == [f EXCEPT !.completing[h] = p]
  <2>1. /\ Requested(p, h) /\ h \in net.empty
        /\ \E A \in Acceptable(g, p, {h}) : Loop(Enqueue(g, p, {h}, A))
        /\ UNCHANGED <<finished, restVars, stopped>>
    BY <1>6, Zenon DEF CompleteHeader
  <2>2. Good(g, importing, finished, net.empty)
    BY <1>1, <2>1, CompletingGood
  <2> HIDE DEF g
  <2>3. QED
    BY <1>1, <2>1, <2>2, EnqueueInv
<1>7. ASSUME NEW p \in net.peers, NEW h \in Hashes, IncompleteHeader(p, h) PROVE FetcherInv'
  <2> DEFINE g == HeaderBranch(p, h)
  <2>1. /\ Requested(p, h) /\ Loop(g)
        /\ UNCHANGED <<finished, restVars, stopped>>
    BY <1>7, Zenon DEF IncompleteHeader, HeaderBranch
  <2>2. Good(g, importing, finished, net.empty)
    BY <1>1, <2>1, HeaderGood
  <2> HIDE DEF g
  <2>3. QED
    BY <2>1, <2>2, BranchInv
<1>8. ASSUME NEW p \in net.peers, NEW several \in BOOLEAN, Bodies(p, several) PROVE FetcherInv'
  BY <1>1, <1>8, BodiesInv
<1>9. ASSUME NEW h \in Hashes, Done(h) PROVE FetcherInv'
  BY <1>9, DoneInv
<1>10. ASSUME NEW h \in Hashes, Insert(h) \/ InsertFails(h) PROVE FetcherInv'
  BY <1>10, InsertInv
<1>11. ASSUME NEW h \in Hashes, ChainGrows(h) PROVE FetcherInv'
  <2>1. f' = f /\ importing' = importing /\ finished' = finished /\ net' = net
    BY <1>11 DEF ChainGrows
  <2>2. Rest'
    BY <1>11, FetcherAssumption DEF FetcherInv, Rest, ChainGrows
  <2>3. QED
    BY <1>1, <2>1, <2>2 DEF FetcherInv
<1>12. ASSUME NEW due \in SUBSET Announced(f), NEW from \in [due -> net.peers], FetchTimer(due, from)
       PROVE  FetcherInv'
  <2> DEFINE g == FetchBranch(due, from)
  <2>1. Loop(g) /\ UNCHANGED <<finished, restVars, stopped>> /\ due \in SUBSET Hashes
    BY <1>12, Zenon DEF FetchTimer, FetchBranch, Announced
  <2>2. Good(g, importing, finished, net.empty)
    BY <1>1, <2>1, FetchGood
  <2> HIDE DEF g
  <2>3. QED
    BY <2>1, <2>2, BranchInv
<1>13. CASE CompleteTimer
  <2> DEFINE g == CompleteBranch
  <2>1. Loop(g) /\ UNCHANGED <<finished, restVars, stopped>>
    BY <1>13, Zenon DEF CompleteTimer, CompleteBranch
  <2>2. Good(g, importing, finished, net.empty)
    BY CompleteGood
  <2> HIDE DEF g
  <2>3. QED
    BY <2>1, <2>2, BranchInv
<1>14. CASE Stop
  <2>1. f' = f /\ importing' = importing /\ finished' = finished /\ net' = net
    BY <1>14 DEF Stop, restVars
  <2>2. Rest'
    BY <1>14 DEF FetcherInv, Rest, Stop, restVars
  <2>3. QED
    BY <1>1, <2>1, <2>2 DEF FetcherInv
<1>15. CASE UNCHANGED vars
  <2>1. f' = f /\ importing' = importing /\ finished' = finished /\ net' = net /\ Rest'
    BY <1>15 DEF vars, FetcherInv, Rest
  <2>2. QED
    BY <1>1, <2>1 DEF FetcherInv
<1>16. QED
  BY <1>2, <1>3, <1>4, <1>5, <1>6, <1>7, <1>8, <1>9, <1>10, <1>11, <1>12, <1>13, <1>14, <1>15, Zenon
    DEF Next

(* The bookkeeping of the loop is an invariant of every interleaving of the  *)
(* select branches with the insert goroutines.                               *)
THEOREM FetcherInvariant == Spec => []FetcherInv
BY FetcherInit, FetcherStep, PTL DEF Spec

-----------------------------------------------------------------------------
(* What the invariant says *)

(* Through every path that queues, imports, acknowledges and forgets units,  *)
(* a peer's queue counter (f.queues) is the number of its units in f.queued, *)
(* and at most blockLimit: enqueue and forgetBlock keep the books for any    *)
(* peers, units and limits.                                                  *)
THEOREM QueueAccountingHolds == Spec => []QueueAccounting
<1>1. FetcherInv => QueueAccounting
  <2> SUFFICES ASSUME FetcherInv PROVE QueueAccounting
    OBVIOUS
  <2>1. f \in State /\ Accounted(f) /\ Rest
    BY DEF FetcherInv, Good
  <2>2. \A p \in Peers : f.queues[p] \in Nat
    BY <2>1, FiniteOf DEF Accounted
  <2>3. f.queues \in [Peers -> Nat]
    BY <2>1, <2>2, Fields
  <2>4. TypeOK
    BY <2>1, <2>3 DEF TypeOK, State, Rest
  <2>5. QED
    BY <2>1, <2>4 DEF QueueAccounting, Accounted
<1>2. QED
  BY <1>1, FetcherInvariant, PTL

(* A unit that enqueue accepted is in the queue, or in one running insert,   *)
(* or waiting for the loop to receive it from f.done, and in only one of     *)
(* these: no two goroutines import it at once, and none is lost.             *)
THEOREM ImportedOnceHolds == Spec => []ImportedOnce
<1>1. FetcherInv => ImportedOnce
  BY DEF FetcherInv, Good, Placed, ImportedOnce
<1>2. QED
  BY <1>1, FetcherInvariant, PTL

(* rescheduleFetch and rescheduleComplete are only called for the first      *)
(* entry and when their timer fires; nevertheless an announcement or a       *)
(* fetched header never waits with its timer off.                            *)
THEOREM NoLostWakeupHolds == Spec => []NoLostWakeup
<1>1. FetcherInv => NoLostWakeup
  BY DEF FetcherInv, Good, Awake, NoLostWakeup
<1>2. QED
  BY <1>1, FetcherInvariant, PTL

(* A hash is in one phase of its retrieval, except that a unit without       *)
(* transactions is completing while its fetch is recorded, and a fetched     *)
(* header belongs to the fetch, and the peer, that brought it.               *)
THEOREM OnePhaseHolds == Spec => []OnePhase
<1>1. FetcherInv => OnePhase
  BY DEF FetcherInv, Good, Phased, PhaseOf, OnePhase
<1>2. QED
  BY <1>1, FetcherInvariant, PTL

=============================================================================
