--------------------------- MODULE BodySyncProofs ---------------------------
(***************************************************************************)
(* The steps that move the window of the download queue, reserve and       *)
(* deliver, with which the invariant of the queue holds in every state of  *)
(* a synchronisation, and what follows from it: the consumer is woken,     *)
(* idle peers match the requests, units are imported in order, an end      *)
(* without an error leaves nothing unfetched or unimported, and a          *)
(* synchronisation is given up for want of peers only when no peer has     *)
(* the next unit.                                                          *)
(***************************************************************************)
EXTENDS BodySyncHeaderProofs

\* The provers of a step that names none, in the order they are tried.
USE Zenon, SMT, Z3

(* Results takes an interval off the front of the cache. *)
LEMMA ResultsInterval ==
  ASSUME QueueInv, Processable # {}
  PROVE  LET R == {n \in Processable : n < offset + MaxResults}
         IN  R # {} /\ R \subseteq done /\ R \subseteq Units /\ R = offset..Max(R)
<1> DEFINE R == {n \in Processable : n < offset + MaxResults}
<1>1. /\ done \subseteq cache /\ cache \subseteq offset..(offset + CacheItems - 1)
      /\ done \subseteq offset..scheduled /\ offset \in Nat \ {0} /\ scheduled \in Nat /\ scheduled <= N
      /\ N \in Nat /\ MaxResults \in Nat \ {0} /\ CacheItems \in Nat
  BY SyncConstants, TypeParts, SMT, Z3 DEF QueueInv, QueueType, HeaderType, TaskPartition, WindowKept
<1>2. \A n \in Processable : n \in done /\ n \in Nat /\ offset <= n /\ offset..n \subseteq done
  <2> SUFFICES ASSUME NEW n \in Processable
               PROVE  n \in done /\ n \in Nat /\ offset <= n /\ offset..n \subseteq done
    OBVIOUS
  <2>1. n \in cache /\ offset..n \subseteq done
    BY DEF Processable
  <2>2. n \in Nat /\ offset <= n
    BY <1>1, <2>1
  <2>3. n \in offset..n
    BY <1>1, <2>2
  <2> QED BY <2>1, <2>2, <2>3
<1>3. \A n \in Processable : \A k \in offset..n : k \in Processable
  <2> SUFFICES ASSUME NEW n \in Processable, NEW k \in offset..n PROVE k \in Processable
    OBVIOUS
  <2>1. k \in cache /\ k \in Nat /\ k <= n
    BY <1>1, <1>2
  <2>2. offset..k \subseteq offset..n
    BY <1>1, <1>2, <2>1
  <2> QED BY <1>2, <2>1, <2>2 DEF Processable
<1>4. offset \in R
  <2>1. PICK n \in Processable : TRUE
    OBVIOUS
  <2>2. offset \in offset..n
    BY <1>1, <1>2
  <2>3. offset < offset + MaxResults
    BY <1>1
  <2> QED BY <1>3, <2>2, <2>3
<1>5. R \subseteq done /\ R \subseteq Nat /\ R \subseteq Units /\ \A n \in R : n <= N
  <2>1. \A n \in done : n \in Nat /\ n \in Units /\ n <= N
    BY <1>1 DEF Units
  <2> QED BY <1>2, <2>1
<1>6. Max(R) \in R /\ \A n \in R : n <= Max(R)
  <2> HIDE DEF R
  <2> QED BY <1>1, <1>4, <1>5, MaxFacts, Zenon
<1>7. R \subseteq offset..Max(R)
  BY <1>1, <1>2, <1>5, <1>6
<1>8. offset..Max(R) \subseteq R
  <2> SUFFICES ASSUME NEW k \in offset..Max(R) PROVE k \in R
    OBVIOUS
  <2>1. Max(R) \in Processable /\ Max(R) \in Nat /\ Max(R) < offset + MaxResults
    BY <1>5, <1>6
  <2>2. k \in Processable
    BY <1>3, <2>1
  <2>3. k < offset + MaxResults
    BY <1>1, <2>1
  <2> QED BY <2>2, <2>3
<1> QED BY <1>4, <1>5, <1>7, <1>8

(* Results moves the window on while requests are under way. *)
LEMMA QueueInvResults ==
  ASSUME QueueInv, Results
  PROVE  QueueInv'
<1> DEFINE top == Max(results')
<1>0. /\ TypeOK /\ ControlType /\ QueueType /\ HeaderType /\ ContentType
  BY TypeParts DEF QueueInv
<1>1. results' # {} /\ results' \subseteq done /\ results' \subseteq Units /\ results' = offset..top
  BY ResultsInterval DEF Results
<1>2. offset' = top + 1 /\ cache' = cache \ results' /\ done' = done \ results'
  BY DEF Results
<1>3. /\ tasks \union Requested \union done \subseteq offset..scheduled
      /\ Intact => offset..scheduled \subseteq tasks \union Requested \union done
      /\ tasks \intersect Requested = {} /\ (tasks \union Requested) \intersect done = {}
      /\ \A p, q \in Peers : p # q => pend[p] \intersect pend[q] = {}
      /\ Requested \subseteq cache /\ done \subseteq cache
      /\ cache \subseteq offset..(offset + CacheItems - 1)
      /\ HeightsExact => \A n \in cache : offset..n \subseteq cache
  BY <1>0 DEF QueueInv, TaskPartition, WindowKept, CachePrefix, QueueType, Intact
<1>4. /\ offset \in Nat \ {0} /\ scheduled \in Nat /\ scheduled <= N /\ N \in Nat /\ CacheItems \in Nat
  BY <1>0, SyncConstants, SMT, Z3 DEF QueueType, HeaderType
<1>5. top \in results' /\ top \in Nat /\ offset <= top /\ top <= scheduled
  <2>1. \A n \in results' : n \in Nat /\ n <= N /\ n \in offset..scheduled
    BY <1>1, <1>3, <1>4, SMT, Z3 DEF Units
  <2>2. top \in results'
    BY <1>1, <1>4, <2>1, MaxFacts, Zenon
  <2> QED BY <1>4, <2>1, <2>2
<1>6. Requested' = Requested /\ UNCHANGED <<tasks, pend, orphans, scheduled, ended>>
  BY DEF Results, Requested, headerVars, spawnVars
<1>o. (Intact' <=> Intact) /\ (HeightsExact' <=> HeightsExact)
  BY DEF Results, spawnVars, Intact, HeightsExact
<1> HIDE DEF top
<1>7. (offset..scheduled) \ results' = (top + 1)..scheduled
  BY <1>1, <1>4, <1>5, SMT, Z3
<1>8. TaskPartition'
  <2>1. tasks' \union Requested' \union done' \subseteq offset'..scheduled'
    BY <1>1, <1>2, <1>3, <1>6, <1>7
  <2>2. Intact' => offset'..scheduled' \subseteq tasks' \union Requested' \union done'
    BY <1>1, <1>2, <1>3, <1>6, <1>7, <1>o
  <2> QED BY <1>2, <1>3, <1>6, <2>1, <2>2 DEF TaskPartition, Intact
<1>9. WindowKept'
  BY <1>1, <1>2, <1>3, <1>6, <1>o DEF QueueInv, WindowKept, Intact
<1>10. CachePrefix'
  <2>1. offset' <= scheduled' + 1
    BY <1>2, <1>4, <1>5, <1>6
  <2>2. ASSUME HeightsExact', NEW n \in cache' PROVE offset'..n \subseteq cache'
    <3>1. n \in cache /\ offset..n \subseteq cache
      BY <1>2, <1>3, <1>o, <2>2
    <3>2. \A k \in (top + 1)..n : k \in offset..n /\ k \notin offset..top
      BY <1>3, <1>4, <1>5, <3>1, SMT, Z3
    <3> QED BY <1>1, <1>2, <3>1, <3>2
  <2> QED BY <2>1, <2>2 DEF CachePrefix
<1>11. QueueType'
  <2>1. offset' \in 1..(N + 1)
    BY <1>2, <1>4, <1>5
  <2>2. cache' \subseteq offset'..(offset' + CacheItems - 1)
    BY <1>1, <1>2, <1>3, <1>4, <1>5, SMT, Z3
  <2>3. done' \subseteq cache'
    BY <1>2, <1>3
  <2>4. limit' \in 1..CacheItems
    BY <1>0, EnvironmentType DEF ControlType, Results
  <2> QED BY <1>0, <1>6, <2>1, <2>2, <2>3, <2>4 DEF QueueType
<1>12. ContentType' /\ ControlType'
  BY <1>0, <1>1 DEF ContentType, ControlType, Results
<1>13. TypeOK'
  BY <1>0, <1>11, <1>12, TypeKept, TypePartsNext DEF Results
<1>14. HeadersAhead' /\ LocalsSet'
  BY <1>1 DEF QueueInv, HeadersAhead, LocalsSet, Results, headerVars, fetchVars
<1> QED BY <1>8, <1>9, <1>10, <1>13, <1>14 DEF QueueInv

(* The other steps of the goroutine that imports. *)
LEMMA QueueInvContent ==
  ASSUME QueueInv, ContentStep
  PROVE  QueueInv'
<1>0. /\ TypeOK /\ ControlType /\ ContentType
  BY TypeParts DEF QueueInv
<1>1. CASE Sleep
  <2>1. ControlType' /\ LocalsSet'
    BY <1>0, <1>1 DEF ControlType, QueueInv, LocalsSet, Sleep, fetchVars, contentVars
  <2>2. TypeOK'
    BY <1>0, <1>1, <2>1, TypeKept, TypePartsNext DEF Sleep
  <2>3. SameOutcome
    BY <1>1 DEF Sleep, SameOutcome, Intact, spawnVars
  <2> QED BY <1>1, <2>1, <2>2, <2>3, QueueKept DEF Sleep
<1>2. CASE NoResults \/ ImportQuits
  <2>1. SameOutcome /\ SpawnType'
    BY <1>2, ReturnOther DEF NoResults, ImportQuits, Goroutines, Errors
  <2>2. LocalsSet'
    BY <1>2 DEF QueueInv, LocalsSet, NoResults, ImportQuits, fetchVars, contentVars
  <2>3. TypeOK'
    BY <1>0, <1>2, <2>1, TypeKept, TypePartsNext DEF NoResults, ImportQuits
  <2> QED BY <1>2, <2>1, <2>2, <2>3, QueueKept DEF NoResults, ImportQuits
<1>3. CASE Import
  <2>1. MovedPivot \in 0..N
    <3>1. results # {} /\ results \subseteq Nat /\ \A n \in results : n <= N
      BY <1>0, <1>3, SyncConstants, SMT, Z3 DEF Import, QueueInv, LocalsSet, ContentType, Units
    <3>2. Max(results) \in Nat /\ Max(results) <= N
      BY <3>1, MaxFacts, SyncConstants, Zenon
    <3>3. pivot \in 0..N /\ MinFullBlocks \in Nat /\ N \in Nat
      BY <1>0, SyncConstants DEF ContentType
    <3> QED BY <3>2, <3>3 DEF MovedPivot
  <2>2. ContentType'
    <3>1. Inserts \subseteq Units
      BY <1>0 DEF Inserts, ContentType
    <3> QED BY <1>0, <1>3, <2>1, <3>1 DEF Import, ContentType
  <2>3. ControlType' /\ LocalsSet'
    BY <1>0, <1>3 DEF ControlType, QueueInv, LocalsSet, Import, fetchVars
  <2>4. TypeOK'
    BY <1>0, <1>3, <2>2, <2>3, TypeKept, TypePartsNext DEF Import
  <2>5. SameOutcome
    BY <1>3 DEF Import, SameOutcome, Intact, spawnVars
  <2> QED BY <1>3, <2>3, <2>4, <2>5, QueueKept DEF Import
<1>4. CASE ImportFails
  <2>1. SameOutcome /\ SpawnType'
    BY <1>4, ReturnOther DEF ImportFails, Goroutines, Errors
  <2>2. ContentType'
    <3>1. Inserts \subseteq Units
      BY <1>0 DEF Inserts, ContentType
    <3>2. imported' \subseteq Units
      BY <1>0, <1>4, <3>1 DEF ImportFails, ContentType
    <3> QED BY <1>0, <1>4, <3>2 DEF ImportFails, ContentType
  <2>3. LocalsSet'
    BY <1>4 DEF QueueInv, LocalsSet, ImportFails, fetchVars
  <2>4. TypeOK'
    BY <1>0, <1>4, <2>1, <2>2, TypeKept, TypePartsNext DEF ImportFails
  <2> QED BY <1>4, <2>1, <2>3, <2>4, QueueKept DEF ImportFails
<1> QED BY <1>1, <1>2, <1>3, <1>4, QueueInvResults DEF ContentStep


(* A pass begins and expires requests. *)
LEMMA QueueInvExpire ==
  ASSUME QueueInv, NEW late \in SUBSET Peers, BeginPass(late)
  PROVE  QueueInv'
<1>0. /\ TypeOK /\ HeadersAhead /\ ControlType /\ PeerType /\ QueueType /\ FetchType
  BY TypeParts DEF QueueInv
<1>1. tasks' = Returned(late) /\ pend' = Cleared(late) /\ SameOutcome
      /\ UNCHANGED <<cache, done, offset, scheduled>>
  BY DEF BeginPass, headerVars, spawnVars, SameOutcome, Intact
<1>2. /\ (TaskPartition /\ WindowKept /\ CachePrefix)'
      /\ tasks' \subseteq Units /\ pend' \in [Peers -> SUBSET Units]
      /\ \A q \in Peers : Cardinality(pend'[q]) <= MaxBlockFetch
  BY <1>1, TasksReturned
<1>3. QueueType'
  BY <1>0, <1>1, <1>2 DEF QueueType, BeginPass
<1>4. PeerType' /\ ControlType'
  BY <1>0 DEF PeerType, ControlType, BeginPass
<1>5. fetch' = [fetch EXCEPT !.pc = "pending"] /\ UNCHANGED <<bodyWakeCh, finished>>
  BY DEF BeginPass
<1>6. FetchType' /\ fetch'.pc = "pending"
  BY <1>0, <1>5, Zenon DEF FetchType, FetchStates
<1>7. TypeOK'
  BY <1>0, <1>3, <1>4, <1>6, TypeKept, TypePartsNext DEF BeginPass
<1>8. HeadersAhead' /\ LocalsSet'
  BY <1>0, <1>6 DEF QueueInv, HeadersAhead, LocalsSet, BeginPass, headerVars, contentVars
<1> QED BY <1>2, <1>7, <1>8 DEF QueueInv

(* Every body is accepted, because what is asked for has its place in the cache. *)
LEMMA QueueInvDeliver ==
  ASSUME QueueInv, NEW p \in Peers, NEW sent \in SUBSET pend[p], Deliver(p, sent)
  PROVE  QueueInv'
<1> DEFINE request == pend[p]
           accepted == {u \in sent : {k \in sent : Priority(k) <= Priority(u)} \subseteq cache}
<1>0. /\ TypeOK /\ HeadersAhead /\ ControlType /\ PeerType /\ QueueType
  BY TypeParts DEF QueueInv
<1>1. /\ tasks \union Requested \union done \subseteq offset..scheduled
      /\ Intact => offset..scheduled \subseteq tasks \union Requested \union done
      /\ tasks \intersect Requested = {} /\ (tasks \union Requested) \intersect done = {}
      /\ \A q, r \in Peers : q # r => pend[q] \intersect pend[r] = {}
      /\ Requested \subseteq cache /\ done \subseteq cache /\ tasks \subseteq Units
      /\ pend \in [Peers -> SUBSET Units]
  BY <1>0 DEF QueueInv, TaskPartition, WindowKept, QueueType, Intact
<1>2. request \subseteq Requested /\ request \subseteq cache
  BY <1>1, SMT, Zenon DEF Requested
<1>3. accepted = sent /\ sent \subseteq request
  BY <1>2
<1>4. /\ pend' = Cleared({p}) /\ done' = done \union accepted
      /\ tasks' = tasks \union (request \ accepted)
      /\ UNCHANGED <<cache, offset, scheduled, limit>> /\ orphans' = orphans \ {p}
      /\ lacks' \in {lacks, [lacks EXCEPT ![p] = @ \union request]}
  BY DEF Deliver, headerVars
<1>5. SetIdle(p, sent) /\ UNCHANGED spawnVars /\ p \in registered
  BY <1>3 DEF Deliver
<1>o. SameOutcome /\ (Intact' <=> Intact) /\ (HeightsExact' <=> HeightsExact)
  BY <1>5 DEF Deliver, SameOutcome, Intact, HeightsExact, spawnVars
<1> HIDE DEF accepted
<1>6. \A q \in Peers : pend'[q] = IF q = p THEN {} ELSE pend[q]
  BY <1>4 DEF Cleared
<1>7. Requested' = Requested \ request
  BY <1>1, <1>6, SMT, Z3 DEF Requested
<1>8. TaskPartition'
  <2>1. /\ tasks' \union Requested' \union done' = tasks \union Requested \union done
        /\ offset'..scheduled' = offset..scheduled
    BY <1>2, <1>3, <1>4, <1>7
  <2>2. tasks' \intersect Requested' = {} /\ (tasks' \union Requested') \intersect done' = {}
    BY <1>1, <1>2, <1>3, <1>4, <1>7
  <2>3. \A q, r \in Peers : q # r => pend'[q] \intersect pend'[r] = {}
    BY <1>1, <1>6
  <2>4. /\ tasks' \union Requested' \union done' \subseteq offset'..scheduled'
        /\ Intact' => offset'..scheduled' \subseteq tasks' \union Requested' \union done'
    BY <1>1, <1>o, <2>1
  <2> QED BY <2>2, <2>3, <2>4 DEF TaskPartition, Intact
<1>9. WindowKept' /\ CachePrefix'
  BY <1>1, <1>4, <1>7, <1>o DEF QueueInv, WindowKept, CachePrefix, Intact
<1>10. QueueType'
  <2>1. pend' \in [Peers -> SUBSET Units] /\ \A q \in Peers : Cardinality(pend'[q]) <= MaxBlockFetch
    BY <1>0, <1>1, <1>4, <1>6, FS_EmptySet, SyncConstants, SMT, Z3 DEF Cleared, QueueType
  <2>2. tasks' \subseteq Units /\ done' \subseteq cache'
    BY <1>1, <1>2, <1>3, <1>4
  <2> QED BY <1>0, <1>4, <2>1, <2>2 DEF QueueType
<1>11. PeerType'
  <2>1. lacks' \in [Peers -> SUBSET Units]
    BY <1>0, <1>1, <1>4, SMT, Zenon DEF PeerType
  <2>2. idle' \subseteq registered /\ quick' \subseteq registered
    BY <1>0, <1>5 DEF SetIdle, PeerType
  <2> QED BY <1>0, <2>1, <2>2 DEF PeerType, Deliver
<1>12. content' \in {content, Woken}
  BY ZenonT(40) DEF Deliver
<1>13. ControlType'
  BY <1>0, <1>12, Zenon DEF ControlType, Deliver, Woken
<1>14. TypeOK'
  BY <1>0, <1>5, <1>10, <1>11, <1>13, TypeKept, TypePartsNext, ZenonT(40) DEF Deliver
<1>15. HeadersAhead' /\ LocalsSet'
  BY <1>0, <1>12, Zenon DEF QueueInv, HeadersAhead, LocalsSet, Deliver, Woken, headerVars, fetchVars, contentVars
<1> QED BY <1>8, <1>9, <1>14, <1>15 DEF QueueInv

(* A reservation fails at a task that has no place in the cache.  What it has *)
(* popped is lost, and requests, finished units and the other tasks stay as   *)
(* they are.                                                                  *)
LEMMA QueueInvReserveFails ==
  ASSUME QueueInv, QueueType, ~HeightsExact,
         NEW popped \in SUBSET tasks, NEW fits \in SUBSET (popped \intersect CacheWindow),
         NEW noop \in SUBSET fits,
         cache' = cache \union fits, done' = done \union noop, tasks' = tasks \ popped,
         ended'["fetchBodies"] = "invalidChain",
         UNCHANGED <<env, pend, offset, limit, orphans, scheduled>>
  PROVE  (TaskPartition /\ WindowKept /\ CachePrefix /\ QueueType)'
<1>1. /\ tasks \union Requested \union done \subseteq offset..scheduled
      /\ tasks \intersect Requested = {} /\ (tasks \union Requested) \intersect done = {}
      /\ \A q, r \in Peers : q # r => pend[q] \intersect pend[r] = {}
      /\ Requested \subseteq cache /\ offset <= scheduled + 1
  BY DEF QueueInv, TaskPartition, WindowKept, CachePrefix
<1>2. ~HeightsExact /\ ~HeightsExact' /\ ~Intact'
  BY DEF HeightsExact, Intact
<1>3. Requested' = Requested
  BY DEF Requested
<1>4. noop \subseteq popped /\ noop \subseteq tasks /\ tasks' \subseteq tasks /\ tasks' \intersect noop = {}
  OBVIOUS
<1>5. TaskPartition'
  <2>1. tasks' \union Requested' \union done' \subseteq offset'..scheduled'
    BY <1>1, <1>3, <1>4
  <2>2. tasks' \intersect Requested' = {} /\ (tasks' \union Requested') \intersect done' = {}
    BY <1>1, <1>3, <1>4
  <2> QED BY <1>1, <1>2, <2>1, <2>2 DEF TaskPartition, Intact
<1>6. WindowKept' /\ CachePrefix'
  BY <1>1, <1>2, <1>3 DEF WindowKept, CachePrefix
<1>7. QueueType'
  <2>1. cache' \subseteq offset'..(offset' + CacheItems - 1) /\ done' \subseteq cache' /\ tasks' \subseteq Units
    BY <1>4 DEF QueueType, CacheWindow
  <2> QED BY <2>1 DEF QueueType
<1> QED BY <1>5, <1>6, <1>7

(* With exact heights a reservation always fits, and what it leaves of the    *)
(* tasks is as before.                                                        *)
LEMMA QueueInvReserve ==
  ASSUME QueueInv, NEW count \in 2..MaxBlockFetch, NEW popped \in SUBSET tasks, Reserve(count, popped)
  PROVE  QueueInv'
<1> DEFINE p == fetch.peer
           fits == popped \intersect CacheWindow
           send == popped \ (Empty \union lacks[p])
           noop == popped \intersect Empty
<1>0. /\ TypeOK /\ HeadersAhead /\ ControlType /\ PeerType /\ QueueType /\ HeaderType /\ FetchType
      /\ TaskPartition /\ WindowKept /\ CachePrefix /\ SpawnType /\ LocalsSet
  BY TypeParts DEF QueueInv
<1>1. /\ tasks \union Requested \union done \subseteq offset..scheduled
      /\ Intact => offset..scheduled \subseteq tasks \union Requested \union done
      /\ tasks \intersect Requested = {} /\ (tasks \union Requested) \intersect done = {}
      /\ \A q, r \in Peers : q # r => pend[q] \intersect pend[r] = {}
      /\ Requested \subseteq cache /\ done \subseteq cache /\ tasks \subseteq Units
      /\ pend \in [Peers -> SUBSET Units]
      /\ HeightsExact => Intact /\ \A n \in cache : offset..n \subseteq cache
  BY <1>0 DEF TaskPartition, WindowKept, QueueType, CachePrefix, Intact
<1>2. p \in Peers
  BY <1>0 DEF LocalsSet, Reserve, FetchType, FetchStates
<1>3. /\ offset \in Nat \ {0} /\ limit \in 1..CacheItems /\ CacheItems \in Nat /\ scheduled \in Nat
      /\ count \in Nat \ {0} /\ count <= MaxBlockFetch /\ MaxBlockFetch \in Nat
  BY <1>0, SyncConstants, SMT, Z3 DEF QueueType, HeaderType
<1>4. popped \subseteq tasks /\ (popped # {} => pend[p] = {} /\ popped \in Popped(p, count))
  BY DEF Reserve
<1>5. HeightsExact => fits = popped
  <2> SUFFICES ASSUME HeightsExact, NEW n \in popped PROVE n \in CacheWindow
    OBVIOUS
  <2>1. popped \in Popped(p, count)
    BY <1>4
  <2>2. n \in offset..(offset + limit - 1)
    BY <1>0, <2>1, PoppedInWindow
  <2> QED BY <1>3, <2>2, SMT, Z3 DEF CacheWindow
<1>e. CASE fits # popped
  <2>1. /\ cache' = cache \union fits /\ done' = done \union (fits \intersect Empty) /\ tasks' = tasks \ popped
        /\ Return("fetchBodies", "invalidChain")
        /\ UNCHANGED <<pend, idle, content, fetch>>
        /\ UNCHANGED <<offset, limit, orphans, headerVars, contentVars, env, closed, cancelled, quit,
                       registered, quick, lacks, joins, bodyWakeCh, finished>>
    BY <1>e, ZenonT(40) DEF Reserve
  <2>2. ended'["fetchBodies"] = "invalidChain" /\ SpawnType'
    BY <1>0, <2>1 DEF Return, SpawnType, Goroutines, Errors
  <2>3. fits \in SUBSET (popped \intersect CacheWindow) /\ fits \intersect Empty \in SUBSET fits /\ ~HeightsExact
    BY <1>5, <1>e
  <2>4. (TaskPartition /\ WindowKept /\ CachePrefix /\ QueueType)'
    <3> HIDE DEF fits
    <3> QED BY <1>0, <2>1, <2>2, <2>3, QueueInvReserveFails DEF headerVars
  <2>5. TypeOK'
    BY <1>0, <2>1, <2>2, <2>4, TypeKept, TypePartsNext DEF peerVars, fetchVars
  <2>6. HeadersAhead' /\ LocalsSet'
    BY <1>0, <2>1 DEF HeadersAhead, LocalsSet, headerVars, contentVars
  <2> QED BY <2>4, <2>5, <2>6 DEF QueueInv
<1> SUFFICES ASSUME fits = popped PROVE QueueInv'
  BY <1>e
<1>6. /\ cache' = cache \union popped /\ done' = done \union noop
      /\ tasks' = tasks \ (send \union noop)
      /\ pend' = (IF send = {} THEN pend ELSE [pend EXCEPT ![p] = send])
      /\ idle' = (IF send = {} THEN idle ELSE idle \ {p})
      /\ content' = (IF noop # {} THEN Woken ELSE content)
      /\ fetch' = [fetch EXCEPT !.pc = "assign", !.peer = None,
                                !.progressed = @ \/ noop # {}, !.running = @ \/ send # {}]
      /\ UNCHANGED <<spawnVars, offset, limit, orphans, headerVars, contentVars, env, closed, cancelled, quit,
                     registered, quick, lacks, joins, bodyWakeCh, finished>>
  BY DEF Reserve
<1>o. (Intact' <=> Intact) /\ (HeightsExact' <=> HeightsExact)
  BY <1>6 DEF Intact, HeightsExact, spawnVars
<1>7. send # {} => pend[p] = {}
  BY <1>4
<1>8. Cardinality(send) <= MaxBlockFetch
  <2>1. CASE popped # {}
    <3>1. Cardinality(send) <= count
      BY <1>0, <1>3, <1>4, <2>1, SendBounded
    <3>2. Cardinality(send) \in Nat
      BY <1>1, <1>4, FiniteUnits
    <3> HIDE DEF send
    <3> QED BY <1>3, <3>1, <3>2
  <2>2. CASE popped = {}
    <3>1. send = {}
      BY <2>2
    <3> HIDE DEF send
    <3> QED BY <1>3, <3>1, FS_EmptySet, SMT, Z3
  <2> QED BY <2>1, <2>2
<1>9. ASSUME HeightsExact, NEW n \in popped, NEW k \in offset..n PROVE k \in cache \union popped
  <2>1. popped \in Popped(p, count)
    BY <1>4, <1>9
  <2>2. n \in offset..scheduled /\ n \in Int /\ k \in Int /\ k <= n
    BY <1>1, <1>3, <1>9, SMT, Z3
  <2>3. k \in offset..scheduled
    BY <1>3, <1>9, <2>2
  <2>4. CASE k \in tasks /\ k # n
    <3>1. k < n
      BY <2>2, <2>4
    <3>2. k \in popped
      BY <1>0, <1>9, <2>1, <2>4, <3>1, PoppedLowest
    <3> QED BY <3>2
  <2>5. CASE k \notin tasks
    BY <1>1, <1>9, <2>3, <2>5
  <2> QED BY <1>9, <2>4, <2>5
<1>s. send \subseteq popped /\ noop \subseteq popped /\ send \intersect noop = {}
  OBVIOUS
<1> HIDE DEF fits, send, noop, p
<1>10. \A q \in Peers : pend'[q] = IF q = p /\ send # {} THEN send ELSE pend[q]
  BY <1>1, <1>2, <1>6
<1>11. Requested' = Requested \union send
  BY <1>2, <1>7, <1>10 DEF Requested
<1>12. TaskPartition'
  <2>1. scheduled' = scheduled /\ offset' = offset
    BY <1>6 DEF headerVars
  <2>2. tasks' \union Requested' \union done' = tasks \union Requested \union done
    BY <1>4, <1>6, <1>s, <1>11
  <2>5. /\ tasks' \union Requested' \union done' \subseteq offset'..scheduled'
        /\ Intact' => offset'..scheduled' \subseteq tasks' \union Requested' \union done'
    BY <1>1, <1>o, <2>1, <2>2
  <2>3. tasks' \intersect Requested' = {} /\ (tasks' \union Requested') \intersect done' = {}
    BY <1>1, <1>4, <1>6, <1>s, <1>11
  <2>4. ASSUME NEW q \in Peers, NEW r \in Peers, q # r PROVE pend'[q] \intersect pend'[r] = {}
    <3>1. \A x \in Peers : pend[x] \intersect send = {}
      BY <1>1, <1>4, <1>s, SMT, Z3 DEF Requested
    <3> QED BY <1>1, <1>10, <2>4, <3>1
  <2> QED BY <2>3, <2>4, <2>5 DEF TaskPartition, Intact
<1>13. WindowKept'
  BY <1>0, <1>1, <1>6, <1>11, <1>s, <1>o DEF WindowKept, Intact
<1>14. CachePrefix'
  <2>1. offset' <= scheduled' + 1
    BY <1>0, <1>6 DEF CachePrefix, headerVars
  <2>2. ASSUME HeightsExact', NEW n \in cache' PROVE offset'..n \subseteq cache'
    BY <1>1, <1>6, <1>9, <1>o, <2>2
  <2> QED BY <2>1, <2>2 DEF CachePrefix
<1>15. QueueType'
  <2>1. pend' \in [Peers -> SUBSET Units] /\ \A q \in Peers : Cardinality(pend'[q]) <= MaxBlockFetch
    <3>1. send \in SUBSET Units
      BY <1>1, <1>4, <1>s
    <3> QED BY <1>0, <1>1, <1>6, <1>8, <1>10, <3>1, Zenon DEF QueueType
  <2>2. tasks' \subseteq Units /\ done' \subseteq cache'
    BY <1>1, <1>4, <1>6, <1>s
  <2>3. cache' \subseteq offset..(offset + CacheItems - 1)
    BY <1>0, <1>6 DEF QueueType, fits, CacheWindow
  <2> QED BY <1>0, <1>6, <2>1, <2>2, <2>3 DEF QueueType
<1>16. PeerType' /\ ControlType'
  BY <1>0, <1>6 DEF PeerType, ControlType, Woken
<1>17. FetchType' /\ fetch'.pc = "assign"
  BY <1>0, <1>6, Zenon DEF FetchType, FetchStates
<1>18. TypeOK'
  BY <1>0, <1>6, <1>15, <1>16, <1>17, TypeKept, TypePartsNext
<1>19. HeadersAhead' /\ LocalsSet'
  BY <1>0, <1>6, <1>17 DEF QueueInv, HeadersAhead, LocalsSet, Woken, headerVars, contentVars
<1> QED BY <1>12, <1>13, <1>14, <1>18, <1>19 DEF QueueInv


(* The steps of fetchParts that only read the queue. *)
LEMMA QueueInvPass ==
  ASSUME QueueInv, Wake \/ CancelBodies \/ NoPeers \/ CheckPending \/ CheckInFlight \/ EndPass
                     \/ \E p \in Peers : NextPeer(p)
  PROVE  QueueInv'
<1>0. TypeOK /\ PeerType /\ FetchType /\ SpawnType /\ LocalsSet
  BY TypeParts DEF QueueInv
<1>1. UNCHANGED <<queueVars, headerVars, env, content, closed, cancelled, quit, peerVars, contentVars>>
  BY Zenon DEF Wake, CancelBodies, NoPeers, CheckPending, CheckInFlight, EndPass, NextPeer
<1>2. SameOutcome /\ SpawnType'
  <2>1. CASE UNCHANGED spawnVars
    BY <1>0, <1>1, <2>1 DEF SpawnType, spawnVars, SameOutcome, Intact
  <2>2. CASE ~UNCHANGED spawnVars
    <3>1. \E e \in {"cancelled", "noPeers", "nil", "peersUnavailable"} : Return("fetchBodies", e)
      BY <2>2, Zenon DEF Wake, CancelBodies, NoPeers, CheckPending, CheckInFlight, EndPass, NextPeer
    <3>2. Running("fetchBodies")
      BY Zenon DEF Wake, CancelBodies, NoPeers, CheckPending, CheckInFlight, EndPass, NextPeer
    <3> QED BY <1>1, <3>1, <3>2, ReturnOther DEF Goroutines, Errors
  <2> QED BY <2>1, <2>2
<1>3. FetchType' /\ LocalsSet'
  <2>1. UNCHANGED <<content, results>>
    BY <1>1 DEF contentVars
  <2>2. Select \in FetchStates /\ Select.pc = "select"
    BY DEF Select, FetchStates
  <2>3. CASE Wake
    <3>1. bodyWakeCh' = <<>> /\ finished' \in BOOLEAN /\ UNCHANGED fetch
      BY <2>3, Zenon DEF Wake
    <3> QED BY <1>0, <2>1, <3>1 DEF FetchType, LocalsSet
  <2>4. CASE CancelBodies \/ NoPeers
    BY <1>0, <2>1, <2>4, Zenon DEF CancelBodies, NoPeers, FetchType, LocalsSet, fetchVars
  <2>5. CASE CheckInFlight \/ EndPass
    BY <1>0, <2>1, <2>2, <2>5, Zenon DEF CheckInFlight, EndPass, FetchType, LocalsSet
  <2>6. CASE CheckPending
    <3>1. CASE tasks = {}
      <4>1. fetch' = [fetch EXCEPT !.pc = "inFlight"] /\ UNCHANGED <<bodyWakeCh, finished>>
        BY <2>6, <3>1 DEF CheckPending
      <4> QED BY <1>0, <2>1, <4>1, Zenon DEF FetchType, FetchStates, LocalsSet
    <3>2. CASE tasks # {}
      <4>1. /\ fetch' = [Select EXCEPT !.pc = "assign", !.todo = idle,
                                       !.running = (Requested # {}), !.all = (idle = registered)]
            /\ UNCHANGED <<bodyWakeCh, finished>>
        BY <2>6, <3>2 DEF CheckPending
      <4>2. idle \subseteq Peers
        BY <1>0 DEF PeerType
      <4>3. fetch' \in FetchStates /\ fetch'.pc = "assign"
        BY <4>1, <4>2, Zenon DEF Select, FetchStates
      <4> QED BY <1>0, <2>1, <4>1, <4>3, Zenon DEF FetchType, LocalsSet
    <3> QED BY <3>1, <3>2
  <2>7. ASSUME NEW p \in Peers, NextPeer(p) PROVE FetchType' /\ LocalsSet'
    <3>1. /\ UNCHANGED <<bodyWakeCh, finished>> /\ fetch.pc = "assign"
          /\ \/ fetch' = [fetch EXCEPT !.todo = {}, !.throttled = TRUE]
             \/ fetch' = [fetch EXCEPT !.todo = {}]
             \/ fetch' = [fetch EXCEPT !.pc = "reserve", !.todo = @ \ {p}, !.peer = p]
      BY <2>7, Zenon DEF NextPeer
    <3>2. fetch' \in FetchStates
      BY <1>0, <3>1, ZenonT(40) DEF FetchType, FetchStates
    <3>3. fetch'.pc = "reserve" => fetch'.peer = p
      BY <1>0, <3>1, Zenon DEF FetchType, FetchStates
    <3> QED BY <1>0, <2>1, <3>1, <3>2, <3>3, SyncConstants, Zenon DEF FetchType, LocalsSet
  <2> QED BY <2>3, <2>4, <2>5, <2>6, <2>7
<1>4. TypeOK'
  BY <1>0, <1>1, <1>2, <1>3, TypeKept, TypePartsNext
<1> QED BY <1>1, <1>2, <1>3, <1>4, QueueKept

(* spawnSync and the end of the synchronisation. *)
LEMMA QueueInvSpawn ==
  ASSUME QueueInv, CloseQueue \/ Cancel \/ Terminate
  PROVE  QueueInv'
<1>0. TypeOK /\ ControlType /\ LocalsSet
  BY TypeParts DEF QueueInv
<1>1. /\ UNCHANGED <<queueVars, headerVars, peerVars, fetchVars, contentVars, spawnVars>>
      /\ content' \in {content, Woken}
  BY Zenon DEF CloseQueue, Cancel, Terminate
<1>2. ControlType'
  BY <1>0, <1>1, Zenon DEF ControlType, CloseQueue, Cancel, Terminate, Woken
<1>3. LocalsSet'
  BY <1>0, <1>1 DEF LocalsSet, Woken, fetchVars, contentVars
<1>4. TypeOK'
  BY <1>0, <1>1, <1>2, TypeKept, TypePartsNext
<1>5. SameOutcome
  BY <1>1, Zenon DEF SameOutcome, Intact, spawnVars, CloseQueue, Cancel, Terminate
<1> QED BY <1>1, <1>3, <1>4, <1>5, QueueKept

(* Every step keeps the invariant of the queue. *)
LEMMA QueueInvNext == QueueInv /\ [Next]_vars => QueueInv'
<1> SUFFICES ASSUME QueueInv, [Next]_vars PROVE QueueInv'
  OBVIOUS
<1>1. CASE \E p \in Peers : Register(p) \/ Unregister(p)
  BY <1>1, QueueInvPeers
<1>2. CASE HeaderStep \/ ProcessStep
  BY <1>2, QueueInvHeaders, QueueInvProcess
<1>3. CASE \E p \in Peers : \E sent \in SUBSET pend[p] : Deliver(p, sent)
  BY <1>3, QueueInvDeliver
<1>4. CASE \E late \in SUBSET Peers : BeginPass(late)
  BY <1>4, QueueInvExpire
<1>5. CASE Wake \/ CancelBodies \/ NoPeers \/ PassStep
  BY <1>5, QueueInvPass, QueueInvReserve DEF PassStep
<1>6. CASE ContentStep
  BY <1>6, QueueInvContent
<1>7. CASE CloseQueue \/ Cancel \/ Terminate
  BY <1>7, QueueInvSpawn
<1>8. CASE UNCHANGED vars
  <2>1. /\ UNCHANGED <<queueVars, headerVars, peerVars, fetchVars, contentVars, spawnVars>>
        /\ UNCHANGED <<env, content, closed, cancelled, quit>>
    BY <1>8 DEF vars
  <2>2. TypeOK'
    BY <2>1, TypeKept, TypePartsNext DEF QueueInv
  <2>3. LocalsSet' /\ SameOutcome
    BY <2>1 DEF QueueInv, LocalsSet, SameOutcome, Intact, fetchVars, contentVars, spawnVars
  <2> QED BY <2>1, <2>2, <2>3, QueueKept
<1> QED BY <1>1, <1>2, <1>3, <1>4, <1>5, <1>6, <1>7, <1>8 DEF Next

(* The bookkeeping of the download queue is consistent in every state of every *)
(* synchronisation.                                                           *)
THEOREM QueueInvariant == Spec => []QueueInv
BY QueueInvInit, QueueInvNext, PTL DEF Spec

(* The state stays well typed: in particular the window stays within the      *)
(* cache, and no peer is asked for more than MaxBlockFetch units.             *)
THEOREM SyncTypeCorrect == Spec => []TypeOK
<1>1. QueueInv => TypeOK
  BY DEF QueueInv
<1> QED BY <1>1, QueueInvariant, PTL

(* Reservations, deliveries, expiries and revocations in any order neither    *)
(* lose nor double a task, but for a reservation that fails.                  *)
THEOREM TasksPartitioned == Spec => []TaskPartition
<1>1. QueueInv => TaskPartition
  BY DEF QueueInv
<1> QED BY <1>1, QueueInvariant, PTL

(* Every body that is asked for has its place in the cache when it comes, at  *)
(* all heights, and while the heights are exact priorities, resultSlots       *)
(* leaves room for everything that is reserved: then the error paths of       *)
(* reserveHeaders and deliver that end in errInvalidChain are never taken.    *)
THEOREM WindowAlwaysKept == Spec => []WindowKept
<1>1. QueueInv => WindowKept
  BY DEF QueueInv
<1> QED BY <1>1, QueueInvariant, PTL

-----------------------------------------------------------------------------
(* Waking the consumer *)

(* What an answer and a reservation do to the goroutines: an answer never     *)
(* ends the download, a reservation only when it fails.                       *)
LEMMA DeliverAccepted ==
  ASSUME QueueInv, NEW p \in Peers, NEW sent \in SUBSET pend[p], Deliver(p, sent)
  PROVE  SetIdle(p, sent) /\ UNCHANGED spawnVars
<1> DEFINE accepted == {u \in sent : {k \in sent : Priority(k) <= Priority(u)} \subseteq cache}
<1>1. sent \subseteq cache
  BY SMT, Zenon DEF QueueInv, WindowKept, Requested
<1>2. accepted = sent
  BY <1>1
<1> QED BY <1>2 DEF Deliver

(* The two ways a reservation ends. *)
LEMMA ReserveEnds ==
  ASSUME QueueInv, NEW count, NEW popped, Reserve(count, popped)
  PROVE  \/ /\ UNCHANGED <<pend, idle, content, fetch>> /\ err' # "nil"
            /\ ended'["fetchBodies"] = "invalidChain" /\ Return("fetchBodies", "invalidChain")
         \/ /\ pend' = (IF popped \ (Empty \union lacks[fetch.peer]) = {} THEN pend
                        ELSE [pend EXCEPT ![fetch.peer] = popped \ (Empty \union lacks[fetch.peer])])
            /\ idle' = (IF popped \ (Empty \union lacks[fetch.peer]) = {} THEN idle ELSE idle \ {fetch.peer})
            /\ tasks' = tasks \ ((popped \ (Empty \union lacks[fetch.peer])) \union (Empty \intersect popped))
            /\ done' = done \union (popped \intersect Empty)
            /\ content' = (IF popped \intersect Empty # {} THEN Woken ELSE content)
            /\ fetch' = [fetch EXCEPT !.pc = "assign", !.peer = None,
                                      !.progressed = @ \/ popped \intersect Empty # {},
                                      !.running = @ \/ popped \ (Empty \union lacks[fetch.peer]) # {}]
            /\ UNCHANGED spawnVars
<1>0. SpawnType
  BY TypeParts DEF QueueInv
<1>1. CASE popped \intersect CacheWindow # popped
  <2>1. UNCHANGED <<pend, idle, content, fetch>> /\ Return("fetchBodies", "invalidChain")
    BY <1>1, ZenonT(40) DEF Reserve
  <2>2. ended'["fetchBodies"] = "invalidChain" /\ err' # "nil"
    BY <1>0, <2>1 DEF Return, SpawnType, Goroutines
  <2> QED BY <2>1, <2>2
<1>2. CASE popped \intersect CacheWindow = popped
  BY <1>2 DEF Reserve
<1> QED BY <1>1, <1>2

(* Whether there is something to take depends on the finished units only. *)
LEMMA ProcessableDone ==
  ASSUME NEW o \in Nat, NEW d, NEW c, d \subseteq c, \A n \in c : n \in Nat /\ o <= n
  PROVE  {n \in c : o..n \subseteq d} = {n \in d : o..n \subseteq d}
<1>1. \A n \in c : n \in o..n
  OBVIOUS
<1> QED BY <1>1

(* countProcessableItems before a step. *)
LEMMA ProcessableNow ==
  ASSUME TypeOK
  PROVE  Processable = {n \in done : offset..n \subseteq done}
<1>1. offset \in Nat /\ done \subseteq cache /\ \A n \in cache : n \in Nat /\ offset <= n
  BY TypeParts, SyncConstants, SMT, Z3 DEF QueueType
<1> QED BY <1>1, ProcessableDone, SMT, Zenon DEF Processable

(* And after it. *)
LEMMA ProcessableNext ==
  ASSUME TypeOK'
  PROVE  Processable' = {n \in done' : offset'..n \subseteq done'}
<1>1. offset' \in Nat /\ done' \subseteq cache' /\ \A n \in cache' : n \in Nat /\ offset' <= n
  BY TypePartsNext, SyncConstants, SMT, Z3 DEF QueueType
<1> QED BY <1>1, ProcessableDone, SMT, Zenon DEF Processable

(* A step that leaves Results asleep does not close the queue, and finishes   *)
(* no unit unless it is a reservation that fails.                             *)
LEMMA AsleepStep ==
  ASSUME QueueInv, QueueInv', [Next]_vars, content' = "asleep", ~Sleep
  PROVE  /\ content = "asleep" /\ closed' = closed
         /\ ended'["fetchBodies"] = "invalidChain" \/ UNCHANGED <<done, offset>>
<1>1. CASE \E p \in Peers : Register(p) \/ Unregister(p)
  BY <1>1 DEF Register, Unregister
<1>2. CASE HeaderStep
  BY <1>2, Zenon DEF HeaderStep, FetchHeaders, NoMoreHeaders, HeadersTimeout, SkeletonInvalid, CancelHeaders, queueVars
<1>3. CASE ProcessStep
  BY <1>3, ZenonT(40) DEF ProcessStep, TakeHeaders, Schedule, HeadersStale, HeadersProcessed, CancelHeaders, queueVars
<1>4. ASSUME NEW p \in Peers, NEW sent \in SUBSET pend[p], Deliver(p, sent)
      PROVE  content = "asleep" /\ UNCHANGED <<done, offset, closed>>
  BY <1>4 DEF Deliver, Woken
<1>5. CASE \E late \in SUBSET Peers : BeginPass(late)
  BY <1>5 DEF BeginPass
<1>6. CASE Wake \/ CancelBodies \/ NoPeers \/ CheckPending \/ CheckInFlight \/ EndPass
             \/ \E p \in Peers : NextPeer(p)
  BY <1>6, ZenonT(40) DEF Wake, CancelBodies, NoPeers, CheckPending, CheckInFlight, EndPass, NextPeer, queueVars
<1>7. ASSUME NEW count \in 2..MaxBlockFetch, NEW popped \in SUBSET tasks, Reserve(count, popped)
      PROVE  /\ content = "asleep" /\ closed' = closed
             /\ ended'["fetchBodies"] = "invalidChain" \/ UNCHANGED <<done, offset>>
  <2>1. UNCHANGED <<closed, offset>>
    BY <1>7, Zenon DEF Reserve
  <2>2. CASE UNCHANGED content /\ ended'["fetchBodies"] = "invalidChain"
    BY <2>1, <2>2
  <2>3. CASE done' = done \union (popped \intersect Empty)
             /\ content' = (IF popped \intersect Empty # {} THEN Woken ELSE content)
    BY <2>1, <2>3 DEF Woken
  <2> QED BY <1>7, <2>2, <2>3, ReserveEnds, ZenonT(40)
<1>8. CASE ContentStep
  BY <1>8 DEF ContentStep, Results, NoResults, Import, ImportQuits, ImportFails, queueVars
<1>9. CASE CloseQueue \/ Cancel \/ Terminate
  BY <1>9, Zenon DEF CloseQueue, Cancel, Terminate, Woken, queueVars
<1>10. CASE UNCHANGED vars
  BY <1>10 DEF vars, queueVars
<1> QED BY <1>1, <1>2, <1>3, <1>4, <1>5, <1>6, <1>7, <1>8, <1>9, <1>10 DEF Next, PassStep

(* The download that has failed does not go on. *)
LEMMA FailureStays ==
  ASSUME QueueInv, [Next]_vars, ended["fetchBodies"] = "invalidChain"
  PROVE  ended'["fetchBodies"] = "invalidChain"
<1>0. SpawnType /\ ~Running("fetchBodies")
  BY TypeParts, SyncConstants DEF QueueInv, Running, Errors
<1>1. \/ UNCHANGED spawnVars
      \/ \E g \in Goroutines, e \in Errors \union {"nil"} : Return(g, e) /\ Running(g)
  BY ZenonT(60) DEF Next, Register, Unregister, HeaderStep, FetchHeaders, NoMoreHeaders, HeadersTimeout,
              SkeletonInvalid, CancelHeaders, ProcessStep, TakeHeaders, Schedule, HeadersStale,
              HeadersProcessed, Deliver, BeginPass, Wake, CancelBodies, NoPeers, PassStep,
              CheckPending, CheckInFlight, EndPass, NextPeer, Reserve, ContentStep, Sleep, Results, NoResults,
              Import, ImportQuits, ImportFails, CloseQueue, Cancel, Terminate, vars, Goroutines, Errors
<1>2. CASE UNCHANGED spawnVars
  BY <1>2 DEF spawnVars
<1>3. ASSUME NEW g \in Goroutines, NEW e, Return(g, e), Running(g)
      PROVE  ended'["fetchBodies"] = "invalidChain"
  <2>1. g # "fetchBodies"
    BY <1>0, <1>3
  <2> QED BY <1>0, <1>3, <2>1 DEF Return, SpawnType, Goroutines
<1> QED BY <1>1, <1>2, <1>3

(* Every unit that deliver or a reservation finishes, and the closing of the  *)
(* queue, reaches a consumer that waits on the condition variable.  Only what *)
(* a failing reservation finishes does not, whose error closes the queue.     *)
THEOREM ConsumerIsWoken == Spec => []NoLostWakeup
<1>1. Init => NoLostWakeup
  BY DEF Init, NoLostWakeup
<1>2. QueueInv /\ QueueInv' /\ NoLostWakeup /\ [Next]_vars => NoLostWakeup'
  <2> SUFFICES ASSUME QueueInv, QueueInv', NoLostWakeup, [Next]_vars, content' = "asleep"
               PROVE  ~closed' /\ (Processable' = {} \/ ended'["fetchBodies"] = "invalidChain")
    BY DEF NoLostWakeup
  <2>1. CASE Sleep
    BY <2>1 DEF Sleep, Processable, queueVars
  <2>2. CASE ~Sleep
    <3>1. /\ content = "asleep" /\ closed' = closed
          /\ ended'["fetchBodies"] = "invalidChain" \/ UNCHANGED <<done, offset>>
      BY <2>2, AsleepStep
    <3>2. UNCHANGED <<done, offset>> => Processable' = Processable
      BY ProcessableNow, ProcessableNext DEF QueueInv
    <3>3. ended["fetchBodies"] = "invalidChain" => ended'["fetchBodies"] = "invalidChain"
      BY FailureStays
    <3> QED BY <3>1, <3>2, <3>3 DEF NoLostWakeup
  <2> QED BY <2>1, <2>2
<1> QED BY <1>1, <1>2, QueueInvariant, PTL DEF Spec

-----------------------------------------------------------------------------
(* Idle peers and requests *)

\* What a pass of fetchParts still has to try is idle, apart from the peers
\* that have left, and a peer is tried once.
PassPeers ==
  /\ (fetch.todo \union {fetch.peer}) \intersect registered \subseteq idle
  /\ fetch.peer \notin fetch.todo
  /\ fetch.pc \in {"select", "pending", "inFlight"} => fetch.todo = {}
  /\ fetch.pc # "reserve" => fetch.peer = None

IdleInv == PassPeers /\ \A p \in registered \ idle : pend[p] # {}

(* All peers are idle at first. *)
LEMMA IdleInvInit == Init => IdleInv
BY SyncConstants, SMT, Z3 DEF Init, IdleInv, PassPeers, Select

(* Steps that leave fetchParts where it is. *)
LEMMA IdleInvOther ==
  ASSUME QueueInv, IdleInv, UNCHANGED fetch,
         \/ \E p \in Peers : Register(p) \/ Unregister(p)
         \/ HeadersTimeout
         \/ UNCHANGED <<registered, idle, pend>>
  PROVE  IdleInv'
<1>0. /\ TypeOK /\ pend \in [Peers -> SUBSET Units] /\ fetch \in FetchStates
      /\ registered \subseteq Peers /\ idle \subseteq registered
  BY TypeParts DEF QueueInv, QueueType, FetchType, PeerType
<1>1. ASSUME NEW p \in Peers, Register(p) PROVE IdleInv'
  <2>1. /\ p \notin fetch.todo /\ p # fetch.peer /\ registered' = registered \union {p}
        /\ idle' = idle \union {p} /\ UNCHANGED pend
    BY <1>1, Zenon DEF Register
  <2> QED BY <2>1 DEF IdleInv, PassPeers
<1>2. ASSUME NEW p \in Peers, Unregister(p) PROVE IdleInv'
  <2>1. registered' = registered \ {p} /\ idle' = idle \ {p} /\ pend' = Cleared({p})
    BY <1>2, Zenon DEF Unregister
  <2>2. \A q \in registered' : pend'[q] = pend[q]
    BY <1>0, <2>1 DEF Cleared
  <2>3. PassPeers'
    BY <2>1, Zenon DEF IdleInv, PassPeers
  <2>4. \A q \in registered' \ idle' : q \in registered \ idle
    BY <2>1
  <2> QED BY <2>2, <2>3, <2>4, Zenon DEF IdleInv
<1>3. CASE HeadersTimeout
  <2>1. registered' = registered \ {Master} /\ idle' = idle \ {Master}
        /\ pend' = Cleared({Master} \intersect registered)
    BY <1>3, Zenon DEF HeadersTimeout
  <2>2. \A q \in registered' : pend'[q] = pend[q]
    BY <1>0, <2>1 DEF Cleared
  <2>3. PassPeers'
    BY <2>1, Zenon DEF IdleInv, PassPeers
  <2>4. \A q \in registered' \ idle' : q \in registered \ idle
    BY <2>1
  <2> QED BY <2>2, <2>3, <2>4, Zenon DEF IdleInv
<1>4. CASE UNCHANGED <<registered, idle, pend>>
  BY <1>4 DEF IdleInv, PassPeers
<1> QED BY <1>1, <1>2, <1>3, <1>4

(* An answer, whether expected or late, makes its peer idle. *)
LEMMA IdleInvDeliver ==
  ASSUME QueueInv, IdleInv, NEW p \in Peers, NEW sent \in SUBSET pend[p], Deliver(p, sent)
  PROVE  IdleInv'
<1>0. registered \subseteq Peers
  BY TypeParts DEF QueueInv, PeerType
<1>1. SetIdle(p, sent)
  BY DeliverAccepted
<1>2. idle' = idle \union {p} /\ pend' = Cleared({p}) /\ UNCHANGED <<registered, fetch>>
  BY <1>1, Zenon DEF Deliver, SetIdle, fetchVars
<1>3. \A q \in registered : q # p => pend'[q] = pend[q]
  BY <1>0, <1>2 DEF Cleared
<1> QED BY <1>2, <1>3, Zenon DEF IdleInv, PassPeers

(* Expired peers become idle or are dropped. *)
LEMMA IdleInvExpire ==
  ASSUME QueueInv, IdleInv, NEW late \in SUBSET Peers, BeginPass(late)
  PROVE  IdleInv'
<1>0. fetch \in FetchStates /\ registered \subseteq Peers
  BY TypeParts DEF QueueInv, FetchType, PeerType
<1>1. PICK dropped \in SUBSET registered :
         /\ registered' = registered \ dropped
         /\ idle' = (idle \union (late \intersect registered)) \ dropped
  <2>1. {p \in late \intersect registered : Cardinality(pend[p]) <= 2} \in SUBSET registered
    OBVIOUS
  <2> QED BY <2>1, Zenon DEF BeginPass
<1>2. /\ pend' = Cleared(late) /\ fetch.pc = "select" /\ fetch' = [fetch EXCEPT !.pc = "pending"]
  BY DEF BeginPass
<1>3. fetch'.pc = "pending" /\ fetch'.todo = {} /\ fetch'.peer = None
  BY <1>0, <1>2 DEF IdleInv, PassPeers, FetchStates
<1>4. PassPeers'
  BY <1>0, <1>1, <1>3, SyncConstants DEF PassPeers
<1>5. \A q \in registered' \ idle' : pend'[q] # {}
  BY <1>0, <1>1, <1>2 DEF IdleInv, Cleared
<1> QED BY <1>4, <1>5 DEF IdleInv

(* The pass over the idle peers. *)
LEMMA IdleInvPass ==
  ASSUME QueueInv, IdleInv, PassStep
  PROVE  IdleInv'
<1>0. /\ fetch \in FetchStates /\ registered \subseteq Peers /\ idle \subseteq registered
      /\ pend \in [Peers -> SUBSET Units] /\ LocalsSet
  BY TypeParts DEF QueueInv, FetchType, PeerType, QueueType
<1>1. CASE CheckInFlight \/ EndPass
  <2>1. fetch' = Select /\ UNCHANGED <<registered, idle, pend>>
    BY <1>1, Zenon DEF CheckInFlight, EndPass, peerVars, queueVars
  <2>2. fetch'.pc = "select" /\ fetch'.todo = {} /\ fetch'.peer = None
    BY <2>1 DEF Select
  <2>3. None \notin registered
    BY <1>0, SyncConstants
  <2> QED BY <2>1, <2>2, <2>3 DEF IdleInv, PassPeers
<1>2. CASE CheckPending
  <2>1. fetch'.peer = None /\ fetch'.pc \in {"inFlight", "assign"}
        /\ fetch'.todo \subseteq idle /\ (fetch'.pc = "inFlight" => fetch'.todo = {})
    <3>1. CASE tasks = {}
      <4>1. fetch.pc = "pending" /\ fetch' = [fetch EXCEPT !.pc = "inFlight"]
        BY <1>2, <3>1 DEF CheckPending
      <4> QED BY <1>0, <4>1 DEF IdleInv, PassPeers, FetchStates
    <3>2. CASE tasks # {}
      BY <1>2, <3>2 DEF CheckPending, Select
    <3> QED BY <3>1, <3>2
  <2>2. UNCHANGED <<registered, idle, pend>>
    BY <1>2 DEF CheckPending, peerVars, queueVars
  <2>3. None \notin registered /\ None \notin idle
    BY <1>0, SyncConstants
  <2> QED BY <2>1, <2>2, <2>3, ZenonT(40) DEF IdleInv, PassPeers
<1>3. ASSUME NEW p \in Peers, NextPeer(p) PROVE IdleInv'
  <2>1. /\ UNCHANGED <<registered, idle, pend>> /\ fetch.pc = "assign" /\ p \in fetch.todo
        /\ \/ fetch' = [fetch EXCEPT !.todo = {}, !.throttled = TRUE]
           \/ fetch' = [fetch EXCEPT !.todo = {}]
           \/ fetch' = [fetch EXCEPT !.pc = "reserve", !.todo = @ \ {p}, !.peer = p]
    BY <1>3 DEF NextPeer, peerVars, queueVars
  <2>2. \/ fetch'.todo = {} /\ fetch'.peer = None /\ fetch'.pc = "assign"
        \/ fetch'.todo = fetch.todo \ {p} /\ fetch'.peer = p /\ fetch'.pc = "reserve"
    BY <1>0, <2>1, Zenon DEF IdleInv, PassPeers, FetchStates
  <2>3. None \notin registered
    BY <1>0, SyncConstants
  <2> QED BY <2>1, <2>2, <2>3 DEF IdleInv, PassPeers
<1>4. ASSUME NEW count \in 2..MaxBlockFetch, NEW popped \in SUBSET tasks, Reserve(count, popped)
      PROVE  IdleInv'
  <2> DEFINE send == popped \ (Empty \union lacks[fetch.peer])
             noop == popped \intersect Empty
  <2>f. registered' = registered
    BY <1>4, Zenon DEF Reserve
  <2>e. CASE UNCHANGED <<pend, idle, fetch>>
    BY <2>e, <2>f, IdleInvOther
  <2>1. SUFFICES ASSUME ~UNCHANGED <<pend, idle, fetch>> PROVE IdleInv'
    BY <2>e
  <2>2. /\ pend' = (IF send = {} THEN pend ELSE [pend EXCEPT ![fetch.peer] = send])
        /\ idle' = (IF send = {} THEN idle ELSE idle \ {fetch.peer})
        /\ fetch' = [fetch EXCEPT !.pc = "assign", !.peer = None,
                                  !.progressed = @ \/ noop # {}, !.running = @ \/ send # {}]
        /\ UNCHANGED registered
    BY <1>4, <2>1, <2>f, ReserveEnds, Zenon
  <2> HIDE DEF send, noop
  <2>3. fetch.peer \in Peers
    BY <1>0, <1>4 DEF LocalsSet, Reserve, FetchStates
  <2>4. fetch'.pc = "assign" /\ fetch'.peer = None /\ fetch'.todo = fetch.todo
    BY <1>0, <2>2 DEF FetchStates
  <2>5. \A q \in Peers : pend'[q] = IF q = fetch.peer /\ send # {} THEN send ELSE pend[q]
    BY <1>0, <2>2
  <2>6. None \notin registered /\ None \notin fetch'.todo
    BY <1>0, <2>4, SyncConstants DEF FetchStates
  <2>7. PassPeers'
    BY <2>2, <2>4, <2>6 DEF IdleInv, PassPeers
  <2>8. \A q \in registered' \ idle' : pend'[q] # {}
    BY <1>0, <2>2, <2>5 DEF IdleInv
  <2> QED BY <2>7, <2>8 DEF IdleInv
<1> QED BY <1>1, <1>2, <1>3, <1>4 DEF PassStep

(* Every step keeps idle peers and requests matched. *)
LEMMA IdleInvStep == QueueInv /\ IdleInv /\ [Next]_vars => IdleInv'
<1> SUFFICES ASSUME QueueInv, IdleInv, [Next]_vars PROVE IdleInv'
  OBVIOUS
<1>1. CASE \E p \in Peers : Register(p) \/ Unregister(p)
  BY <1>1, IdleInvOther, Zenon DEF Register, Unregister, fetchVars
<1>2. CASE HeaderStep \/ ProcessStep
  <2>1. UNCHANGED fetch /\ (HeadersTimeout \/ UNCHANGED <<registered, idle, pend>>)
    BY <1>2, Zenon DEF HeaderStep, ProcessStep, FetchHeaders, NoMoreHeaders, HeadersTimeout, SkeletonInvalid,
                CancelHeaders, TakeHeaders, Schedule, HeadersStale, HeadersProcessed,
                peerVars, queueVars, fetchVars
  <2> QED BY <2>1, IdleInvOther
<1>3. CASE Wake \/ CancelBodies \/ NoPeers
  <2>1. UNCHANGED <<fetch, registered, idle, pend>>
    BY <1>3, ZenonT(40) DEF Wake, CancelBodies, NoPeers, peerVars, queueVars, fetchVars
  <2> QED BY <2>1, IdleInvOther
<1>4. CASE ContentStep
  <2>1. UNCHANGED <<fetch, registered, idle, pend>>
    BY <1>4, Zenon DEF ContentStep, Sleep, Results, NoResults, Import, ImportQuits, ImportFails,
                peerVars, queueVars, fetchVars
  <2> QED BY <2>1, IdleInvOther
<1>5. CASE CloseQueue \/ Cancel \/ Terminate
  <2>1. UNCHANGED <<fetch, registered, idle, pend>>
    BY <1>5, Zenon DEF CloseQueue, Cancel, Terminate, peerVars, queueVars, fetchVars
  <2> QED BY <2>1, IdleInvOther
<1>6. CASE UNCHANGED vars
  <2>1. UNCHANGED <<fetch, registered, idle, pend>>
    BY <1>6 DEF vars, peerVars, queueVars, fetchVars
  <2> QED BY <2>1, IdleInvOther
<1> QED BY <1>1, <1>2, <1>3, <1>4, <1>5, <1>6, IdleInvDeliver, IdleInvExpire, IdleInvPass DEF Next

(* The peers of a pass are idle in every state. *)
THEOREM IdleInvariant == Spec => []IdleInv
BY IdleInvInit, IdleInvStep, QueueInvariant, PTL DEF Spec

(* fetchParts never reserves for a busy peer, where it would panic, and a     *)
(* connected peer that is not idle has a request that will be answered,       *)
(* expired or revoked.                                                        *)
THEOREM IdlePeersMatch == Spec => []IdleMatchesRequests
<1>1. QueueInv /\ IdleInv => IdleMatchesRequests
  BY DEF IdleInv, PassPeers, IdleMatchesRequests
<1> QED BY <1>1, IdleInvariant, QueueInvariant, PTL

-----------------------------------------------------------------------------
(* The order of imports *)

\* In FullSync the imported units are the first ones, and what Results has
\* handed out and is not imported follows them.
ImportInv ==
  env.pivot = 0 =>
    /\ pivot = 0 /\ committed
    /\ \E m \in 0..(offset - 1) :
         /\ imported = 1..m
         /\ imported \union results = 1..(offset - 1)
         /\ Running("content") => results = (m + 1)..(offset - 1)
         /\ Running("content") /\ content # "import" => m = offset - 1

(* Nothing is imported at first. *)
LEMMA ImportInvInit == Init => ImportInv
<1> SUFFICES ASSUME Init, env.pivot = 0 PROVE ImportInv
  BY DEF ImportInv
<1>1. offset = 1 /\ imported = {} /\ results = {} /\ pivot = 0 /\ committed
  BY Zenon DEF Init
<1>2. 0 \in 0..(offset - 1) /\ 1..0 = {} /\ (0 + 1)..(offset - 1) = {} /\ 0 = offset - 1
  BY <1>1
<1> QED BY <1>1, <1>2 DEF ImportInv

(* Steps that neither take results nor import. *)
LEMMA ImportInvOther ==
  ASSUME ImportInv, TypeOK, UNCHANGED <<env, contentVars, offset>>,
         content' = content \/ (content # "import" /\ content' # "import"),
         ended'["content"] = ended["content"] \/ ended'["content"] # None
  PROVE  ImportInv'
<1>1. CASE content' = content
  BY <1>1 DEF ImportInv, Running, contentVars
<1>2. CASE content # "import" /\ content' # "import"
  BY <1>2 DEF ImportInv, Running, contentVars
<1> QED BY <1>1, <1>2

(* Taking results, importing them, and failing to. *)
LEMMA ImportInvContent ==
  ASSUME QueueInv, ImportInv, Results \/ Import \/ ImportFails
  PROVE  ImportInv'
<1>0. /\ ControlType /\ QueueType /\ ContentType /\ SpawnType /\ offset \in Nat \ {0}
      /\ results \subseteq Units /\ Units \subseteq Nat \ {0}
  BY TypeParts, SyncConstants, SMT, Z3 DEF QueueInv, QueueType, ContentType, Units
<1>1. env' = env
  BY ZenonT(40) DEF Results, Import, ImportFails
<1> SUFFICES ASSUME env.pivot = 0
             PROVE  /\ pivot' = 0 /\ committed'
                    /\ \E m \in 0..(offset' - 1) :
                         /\ imported' = 1..m
                         /\ imported' \union results' = 1..(offset' - 1)
                         /\ ended'["content"] = None => results' = (m + 1)..(offset' - 1)
                         /\ ended'["content"] = None /\ content' # "import" => m = offset' - 1
  BY <1>1 DEF ImportInv, Running
<1>2. pivot = 0 /\ committed
  BY DEF ImportInv
<1>3. PICK m \in 0..(offset - 1) :
        /\ imported = 1..m
        /\ imported \union results = 1..(offset - 1)
        /\ ended["content"] = None => results = (m + 1)..(offset - 1)
        /\ ended["content"] = None /\ content # "import" => m = offset - 1
  BY DEF ImportInv, Running
<1>4. ended["content"] = None
  BY Zenon DEF Results, Import, ImportFails, Running
<1>5. MovedPivot = 0 /\ Inserts = results
  BY <1>0, <1>2 DEF MovedPivot, Inserts
<1>6. CASE Results
  <2> DEFINE top == Max(results')
  <2>1. results' # {} /\ results' \subseteq Units /\ results' = offset..top
    BY <1>6, ResultsInterval DEF Results
  <2>2. \A n \in results' : n \in Nat /\ n <= N
    BY <2>1, SyncConstants, SMT, Z3 DEF Units
  <2>3. top \in results'
    BY <2>1, <2>2, MaxFacts, SyncConstants, ZenonT(40)
  <2>4. /\ content = "results" /\ content' = "import" /\ offset' = top + 1
        /\ UNCHANGED <<imported, pivot, committed, ended>>
    BY <1>6 DEF Results, spawnVars
  <2> HIDE DEF top
  <2>5. top \in Nat /\ offset <= top /\ m = offset - 1
    BY <1>0, <1>3, <1>4, <2>1, <2>2, <2>3, <2>4, SMT, Z3
  <2>6. offset' - 1 = top /\ m \in 0..top /\ (m + 1)..top = results' /\ (1..m) \union results' = 1..top
    BY <1>0, <2>1, <2>4, <2>5, SMT, Z3
  <2> QED BY <1>2, <1>3, <2>4, <2>6
<1>7. CASE Import
  <2>1. /\ imported' = imported \union results /\ results' = {} /\ content' = "results"
        /\ pivot' = 0 /\ committed' /\ UNCHANGED <<offset, ended>>
    BY <1>2, <1>5, <1>7, Zenon DEF Import, queueVars, spawnVars
  <2>2. imported' = 1..(offset - 1)
    BY <1>3, <2>1
  <2>3. offset - 1 \in 0..(offset - 1) /\ (offset - 1 + 1)..(offset - 1) = {}
    BY <1>0
  <2> QED BY <2>1, <2>2, <2>3
<1>8. CASE ImportFails
  <2>1. PICK n \in results : imported' = imported \union {k \in results : k < n}
    BY <1>5, <1>8 DEF ImportFails
  <2>2. UNCHANGED <<results, pivot, committed, offset>> /\ ended'["content"] = "invalidChain"
    BY <1>0, <1>8, Zenon DEF ImportFails, queueVars, Return, SpawnType, Goroutines
  <2>3. n \in Nat /\ m < n /\ n <= offset - 1 /\ m \in Nat
    BY <1>0, <1>3, <1>4, SMT, Z3
  <2>4. imported' = 1..(n - 1)
    BY <1>0, <1>3, <1>4, <2>1, <2>3, SMT, Z3
  <2>5. imported' \union results' = 1..(offset' - 1)
    BY <1>3, <2>1, <2>2
  <2>6. n - 1 \in 0..(offset' - 1)
    BY <1>0, <2>2, <2>3, SMT, Z3
  <2>7. ended'["content"] # None
    BY <2>2, SyncConstants DEF Errors
  <2> QED BY <1>2, <2>2, <2>4, <2>5, <2>6, <2>7
<1> QED BY <1>6, <1>7, <1>8

(* Every step keeps the imported units an initial segment, in order. *)
LEMMA ImportInvStep == QueueInv /\ ImportInv /\ [Next]_vars => ImportInv'
<1> SUFFICES ASSUME QueueInv, ImportInv, [Next]_vars PROVE ImportInv'
  OBVIOUS
<1>0. TypeOK /\ SpawnType /\ None \notin Errors /\ None # "nil"
  BY TypeParts, SyncConstants DEF QueueInv
<1>1. CASE Results \/ Import \/ ImportFails
  BY <1>1, ImportInvContent
<1>2. CASE ~(Results \/ Import \/ ImportFails)
  <2>1. UNCHANGED <<env, contentVars, offset>>
    BY <1>2, ZenonT(40) DEF Next, Register, Unregister, HeaderStep, FetchHeaders, NoMoreHeaders, HeadersTimeout,
                SkeletonInvalid, CancelHeaders, ProcessStep, TakeHeaders, Schedule, HeadersStale,
                HeadersProcessed, Deliver, BeginPass, Wake, CancelBodies, NoPeers, PassStep,
                CheckPending, CheckInFlight, EndPass, NextPeer, Reserve, ContentStep, Sleep, NoResults,
                ImportQuits, CloseQueue, Cancel, Terminate, queueVars, vars
  <2>2. content' = content \/ (content # "import" /\ content' # "import")
    <3>1. CASE Sleep
      BY <3>1 DEF Sleep
    <3>2. CASE ~Sleep
      <4>1. content' \in {content, Woken}
        BY <1>2, <3>2, ZenonT(40)
           DEF Next, Register, Unregister, HeaderStep, FetchHeaders, NoMoreHeaders, HeadersTimeout,
               SkeletonInvalid, CancelHeaders, ProcessStep, TakeHeaders, Schedule, HeadersStale,
               HeadersProcessed, Deliver, BeginPass, Wake, CancelBodies, NoPeers, PassStep,
               CheckPending, CheckInFlight, EndPass, NextPeer, Reserve, ContentStep, NoResults,
               ImportQuits, CloseQueue, Cancel, Terminate, vars
      <4> QED BY <4>1 DEF Woken
    <3> QED BY <3>1, <3>2
  <2>3. UNCHANGED ended \/ \E g \in Goroutines, e \in Errors \union {"nil"} : Return(g, e)
    BY <1>2, ZenonT(40) DEF Next, Register, Unregister, HeaderStep, FetchHeaders, NoMoreHeaders, HeadersTimeout,
                SkeletonInvalid, CancelHeaders, ProcessStep, TakeHeaders, Schedule, HeadersStale,
                HeadersProcessed, Deliver, BeginPass, Wake, CancelBodies, NoPeers, PassStep,
                CheckPending, CheckInFlight, EndPass, NextPeer, Reserve, ContentStep, Sleep, NoResults,
                ImportQuits, CloseQueue, Cancel, Terminate, spawnVars, vars, Goroutines, Errors
  <2>4. ended'["content"] = ended["content"] \/ ended'["content"] # None
    BY <1>0, <2>3 DEF Return, SpawnType, Goroutines
  <2> QED BY <1>0, <2>1, <2>2, <2>4, ImportInvOther
<1> QED BY <1>1, <1>2

(* The import is a prefix in every state. *)
THEOREM ImportInvariant == Spec => []ImportInv
BY ImportInvInit, ImportInvStep, QueueInvariant, PTL DEF Spec

(* Units are handed to InsertDag in the order of their numbers and once each, *)
(* whatever the order in which their bodies arrive.                           *)
THEOREM ImportsInOrder == Spec => []ImportedInOrder
<1>1. QueueInv /\ ImportInv => ImportedInOrder
  <2> SUFFICES ASSUME QueueInv, ImportInv, env.pivot = 0
               PROVE  imported = 1..Cardinality(imported) /\ imported \union results = 1..(offset - 1)
    BY DEF ImportedInOrder
  <2>1. PICK m \in 0..(offset - 1) : imported = 1..m /\ imported \union results = 1..(offset - 1)
    BY DEF ImportInv
  <2>2. m \in Nat
    BY TypeParts, SyncConstants, SMT, Z3 DEF QueueInv, QueueType
  <2>3. Cardinality(1..m) = m
    BY <2>2, FS_Interval
  <2> QED BY <2>1, <2>3
<1> QED BY <1>1, ImportInvariant, QueueInvariant, PTL

-----------------------------------------------------------------------------
(* What a synchronisation without an error has done *)

(* fetchBodies returns nil only behind processHeaders and with nothing left   *)
(* to fetch, and the queue is closed only behind both: then the consumer      *)
(* empties the cache before it returns.                                       *)
SuccessInv ==
  "leave" \notin env.faults /\ err = "nil" =>
    /\ \A g \in Goroutines : ended[g] \in {None, "nil"}
    /\ bodyWakeCh = <<FALSE>> \/ finished => ended["processHeaders"] = "nil"
    /\ fetch.pc = "inFlight" /\ finished => tasks = {}
    /\ ended["fetchBodies"] = "nil" => tasks = {} /\ Requested = {} /\ ended["processHeaders"] = "nil"
    /\ closed => \A g \in Goroutines \ {"content"} : ended[g] = "nil"
    /\ ended["content"] = "nil" => closed /\ (env.pivot = 0 => imported = 1..scheduled)

(* There is no error as long as every goroutine returned nil. *)
LEMMA ErrorFree ==
  ASSUME NEW g, NEW e, Return(g, e), err' = "nil"
  PROVE  err = "nil" /\ e = "nil"
BY DEF Return

(* Three goroutines other than the consumer. *)
LEMMA OthersEnded ==
  ASSUME NEW S \in SUBSET (Goroutines \ {"content"}), Cardinality(S) = 3
  PROVE  S = Goroutines \ {"content"}
<1> DEFINE a == {"fetchHeaders"}
           b == a \union {"processHeaders"}
           c == b \union {"fetchBodies"}
<1>1. Goroutines \ {"content"} = c
  BY DEF Goroutines
<1>2. IsFiniteSet(a) /\ Cardinality(a) = 1 /\ "processHeaders" \notin a
  BY FS_Singleton, Zenon
<1> HIDE DEF a
<1>3. IsFiniteSet(b) /\ Cardinality(b) = 2
  BY <1>2, FS_AddElement, SMT, Z3
<1>4. "fetchBodies" \notin b
  BY DEF a
<1> HIDE DEF b
<1>5. IsFiniteSet(c) /\ Cardinality(c) = 3
  BY <1>3, <1>4, FS_AddElement, SMT, Z3
<1> HIDE DEF c
<1>6. QED
  BY <1>1, <1>5, FS_Subset

(* The consumer returns when the queue is closed and the cache is empty. *)
LEMMA AllImported ==
  ASSUME QueueInv, ImportInv, env.pivot = 0, tasks = {}, Requested = {}, Processable = {},
         Running("content"), content = "results", Intact
  PROVE  imported = 1..scheduled
<1>p. done = offset..scheduled /\ offset <= scheduled + 1
  BY DEF QueueInv, TaskPartition, Intact, CachePrefix
<1>1. /\ done = offset..scheduled /\ done \subseteq cache /\ offset <= scheduled + 1
      /\ offset \in Nat \ {0} /\ scheduled \in Nat
  BY <1>p, TypeParts, SyncConstants, SMT, Z3 DEF QueueInv, QueueType, HeaderType
<1>2. PICK m \in 0..(offset - 1) : imported = 1..m /\ m = offset - 1
  BY DEF ImportInv
<1>3. offset = scheduled + 1
  <2>1. SUFFICES ASSUME offset <= scheduled PROVE FALSE
    BY <1>1
  <2>2. offset \in done /\ offset..offset = {offset}
    BY <1>1, <2>1
  <2>3. offset \in Processable
    BY <1>1, <2>2 DEF Processable
  <2>4. QED
    BY <2>3
<1>4. QED
  BY <1>1, <1>2, <1>3

(* The two messages of bodyWakeCh differ. *)
LEMMA WakeMessages == <<TRUE>> # <<FALSE>> /\ <<>> # <<FALSE>> /\ ~Head(<<FALSE>>) /\ Head(<<TRUE>>)
<1>1. <<TRUE>>[1] = TRUE /\ <<FALSE>>[1] = FALSE
  OBVIOUS
<1>2. Head(<<TRUE>>) = <<TRUE>>[1] /\ Head(<<FALSE>>) = <<FALSE>>[1]
  OBVIOUS
<1>3. <<>> # <<FALSE>>
  OBVIOUS
<1>4. <<TRUE>> # <<FALSE>>
  BY <1>1
<1>5. QED
  BY <1>1, <1>2, <1>3, <1>4, Zenon

(* Before the first synchronisation nothing has ended. *)
LEMMA SuccessInvInit == Init => SuccessInv
<1> SUFFICES ASSUME Init PROVE SuccessInv
  OBVIOUS
<1>1. \A g \in Goroutines : ended[g] = None
  BY DEF Init
<1>2. ended["fetchBodies"] # "nil" /\ ended["content"] # "nil"
  BY <1>1, SyncConstants DEF Goroutines
<1>3. bodyWakeCh # <<FALSE>> /\ ~finished /\ ~closed
  BY WakeMessages, Zenon DEF Init
<1>4. QED
  BY <1>1, <1>2, <1>3, Zenon DEF SuccessInv

(* Steps in which no goroutine returns and tasks are neither queued nor asked *)
(* for behind fetchBodies.                                                    *)
LEMMA SuccessKept ==
  ASSUME SuccessInv, UNCHANGED <<env, spawnVars, closed, imported>>,
         bodyWakeCh' = <<FALSE>> \/ finished' => bodyWakeCh = <<FALSE>> \/ finished,
         fetch'.pc = "inFlight" /\ finished' => tasks' = {}
           \/ (fetch.pc = "inFlight" /\ finished /\ tasks' = tasks),
         \/ UNCHANGED <<tasks, pend, scheduled>>
         \/ Running("fetchBodies") /\ UNCHANGED scheduled
         \/ Running("processHeaders")
  PROVE  SuccessInv'
<1> SUFFICES ASSUME "leave" \notin env.faults, err = "nil" PROVE SuccessInv'
  BY Zenon DEF SuccessInv, spawnVars
<1>1. /\ \A g \in Goroutines : ended[g] \in {None, "nil"}
      /\ bodyWakeCh = <<FALSE>> \/ finished => ended["processHeaders"] = "nil"
      /\ fetch.pc = "inFlight" /\ finished => tasks = {}
      /\ ended["fetchBodies"] = "nil" => tasks = {} /\ Requested = {} /\ ended["processHeaders"] = "nil"
      /\ closed => \A g \in Goroutines \ {"content"} : ended[g] = "nil"
      /\ ended["content"] = "nil" => closed /\ (env.pivot = 0 => imported = 1..scheduled)
  BY Zenon DEF SuccessInv
<1>2. ended' = ended /\ err' = err /\ closed' = closed /\ imported' = imported /\ env' = env
  BY DEF spawnVars
<1>3. ended["fetchBodies"] = "nil" => tasks' = {} /\ Requested' = {}
  <2>1. UNCHANGED <<tasks, pend>> => tasks' = tasks /\ Requested' = Requested
    BY DEF Requested
  <2>2. QED
    BY <1>1, <2>1, SyncConstants DEF Running
<1>4. ended["content"] = "nil" => closed /\ (env.pivot = 0 => imported = 1..scheduled')
  <2>1. "processHeaders" \in Goroutines \ {"content"}
    BY DEF Goroutines
  <2>2. QED
    BY <1>1, <2>1, SyncConstants, Zenon DEF Running
<1>5. bodyWakeCh' = <<FALSE>> \/ finished' => ended'["processHeaders"] = "nil"
  BY <1>1, <1>2, Zenon
<1>6. fetch'.pc = "inFlight" /\ finished' => tasks' = {}
  BY <1>1, Zenon
<1>7. \A g \in Goroutines : ended'[g] \in {None, "nil"}
  BY <1>1, <1>2, ZenonT(40)
<1>8. ended'["fetchBodies"] = "nil" => tasks' = {} /\ Requested' = {} /\ ended'["processHeaders"] = "nil"
  BY <1>1, <1>2, <1>3
<1>9. closed' => \A g \in Goroutines \ {"content"} : ended'[g] = "nil"
  <2> SUFFICES ASSUME closed' PROVE \A g \in Goroutines \ {"content"} : ended'[g] = "nil"
    OBVIOUS
  <2>1. closed
    BY <1>2
  <2>2. QED
    BY <1>1, <1>2, <2>1, ZenonT(40)
<1>10. ended'["content"] = "nil" => closed' /\ (env'.pivot = 0 => imported' = 1..scheduled')
  BY <1>2, <1>4
<1>11. QED
  BY <1>5, <1>6, <1>7, <1>8, <1>9, <1>10, ZenonT(40) DEF SuccessInv

(* The header goroutines end, fail or wake others, and what an end without an *)
(* error means is kept.                                                       *)
LEMMA SuccessHeaders ==
  ASSUME QueueInv, SuccessInv, HeaderStep \/ ProcessStep
  PROVE  SuccessInv'
<1>0. SpawnType /\ FetchType
  BY TypeParts DEF QueueInv
<1>1. CASE HeadersTimeout \/ SkeletonInvalid \/ HeadersStale \/ CancelHeaders("fetchHeaders")
             \/ CancelHeaders("processHeaders")
  <2>1. PICK g \in Goroutines, e \in Errors : Return(g, e)
    BY <1>1, Zenon DEF HeadersTimeout, SkeletonInvalid, HeadersStale, CancelHeaders, Errors, Goroutines
  <2>2. e # "nil"
    BY DEF Errors
  <2>3. err' # "nil"
    BY <2>1, <2>2, ErrorFree
  <2>4. QED
    BY <2>3 DEF SuccessInv
<1>2. CASE FetchHeaders \/ TakeHeaders
  <2>1. UNCHANGED <<env, spawnVars, closed, imported, bodyWakeCh, finished, fetch, tasks, pend, scheduled>>
    BY <1>2, Zenon DEF FetchHeaders, TakeHeaders, queueVars, fetchVars, contentVars
  <2>2. QED
    BY <2>1, SuccessKept, Zenon DEF SuccessInv
<1>3. CASE Schedule
  <2>1. /\ UNCHANGED <<env, spawnVars, closed, imported, finished, fetch>>
        /\ Running("processHeaders")
        /\ bodyWakeCh' = bodyWakeCh \/ bodyWakeCh' = <<TRUE>>
    BY <1>3, Zenon DEF Schedule, contentVars
  <2>2. bodyWakeCh' = <<FALSE>> => bodyWakeCh = <<FALSE>>
    BY <2>1, WakeMessages, Zenon
  <2>3. CASE "leave" \notin env.faults /\ err = "nil"
    <3>1. ~finished
      BY <2>1, <2>3, SyncConstants, ZenonT(40) DEF SuccessInv, Running
    <3>2. QED
      BY <2>1, <2>2, <3>1, SuccessKept, ZenonT(40)
  <2>4. CASE ~("leave" \notin env.faults /\ err = "nil")
    BY <2>1, <2>4, Zenon DEF SuccessInv, spawnVars
  <2>5. QED
    BY <2>3, <2>4
<1>4. CASE NoMoreHeaders
  <2>1. /\ Return("fetchHeaders", "nil") /\ Running("fetchHeaders")
        /\ UNCHANGED <<env, closed, imported, bodyWakeCh, finished, fetch, tasks, pend, scheduled>>
    BY <1>4, Zenon DEF NoMoreHeaders, queueVars, fetchVars, contentVars
  <2>2. /\ ended'["fetchHeaders"] = "nil" /\ err = err'
        /\ \A g \in Goroutines \ {"fetchHeaders"} : ended'[g] = ended[g]
    BY <1>0, <2>1 DEF Return, SpawnType, Goroutines
  <2>3. Requested' = Requested
    BY <2>1 DEF Requested
  <2>4. QED
    BY <2>1, <2>2, <2>3, Zenon DEF SuccessInv, Goroutines
<1>5. CASE HeadersProcessed
  <2>1. /\ Running("processHeaders")
        /\ UNCHANGED <<env, closed, imported, finished, fetch, tasks, pend, scheduled>>
        /\ Return("processHeaders", "nil") \/ Return("processHeaders", "stallingPeer")
    BY <1>5, ZenonT(40) DEF HeadersProcessed, queueVars, headerVars, contentVars
  <2>2. CASE err' # "nil"
    BY <2>2 DEF SuccessInv
  <2>3. CASE err' = "nil"
    <3>1. Return("processHeaders", "nil") /\ err = "nil"
      BY <2>1, <2>3, ErrorFree
    <3>2. /\ ended'["processHeaders"] = "nil"
          /\ \A g \in Goroutines \ {"processHeaders"} : ended'[g] = ended[g]
      BY <1>0, <3>1 DEF Return, SpawnType, Goroutines
    <3>3. Requested' = Requested
      BY <2>1 DEF Requested
    <3>4. QED
      BY <2>1, <3>1, <3>2, <3>3, Zenon DEF SuccessInv, Goroutines
  <2>4. QED
    BY <2>2, <2>3
<1>6. QED
  BY <1>1, <1>2, <1>3, <1>4, <1>5 DEF HeaderStep, ProcessStep

(* The loop of fetchBodies and the deliveries keep it: a loop ends behind the *)
(* last body.                                                                 *)
LEMMA SuccessBodies ==
  ASSUME QueueInv, SuccessInv,
         \/ \E p \in Peers : \E sent \in SUBSET pend[p] : Deliver(p, sent)
         \/ \E late \in SUBSET Peers : BeginPass(late)
         \/ Wake \/ CancelBodies \/ NoPeers \/ PassStep
  PROVE  SuccessInv'
<1>0. SpawnType /\ FetchType
  BY TypeParts DEF QueueInv
<1>2. CASE \E p \in Peers : \E sent \in SUBSET pend[p] : Deliver(p, sent)
  <2>0. UNCHANGED spawnVars
    BY <1>2, DeliverAccepted
  <2>1. /\ Running("fetchBodies") /\ fetch.pc = "select"
        /\ UNCHANGED <<env, spawnVars, closed, imported, bodyWakeCh, finished, fetch, scheduled>>
    BY <1>2, <2>0, ZenonT(40) DEF Deliver, headerVars, fetchVars, contentVars
  <2>2. fetch'.pc # "inFlight"
    BY <2>1
  <2>3. QED
    BY <2>1, <2>2, SuccessKept, Zenon
<1>3. CASE \E late \in SUBSET Peers : BeginPass(late)
  <2>1. /\ Running("fetchBodies") /\ fetch' = [fetch EXCEPT !.pc = "pending"]
        /\ UNCHANGED <<env, spawnVars, closed, imported, bodyWakeCh, finished, scheduled>>
    BY <1>3, Zenon DEF BeginPass, headerVars, contentVars
  <2>2. fetch'.pc # "inFlight"
    BY <1>0, <2>1 DEF FetchType, FetchStates
  <2>3. QED
    BY <2>1, <2>2, SuccessKept, Zenon
<1>4. CASE Wake
  <2>1. /\ Running("fetchBodies") /\ fetch.pc = "select" /\ bodyWakeCh' = <<>>
        /\ bodyWakeCh # <<>> /\ finished' = (finished \/ ~Head(bodyWakeCh))
        /\ UNCHANGED <<env, spawnVars, closed, imported, fetch, tasks, pend, scheduled>>
    BY <1>4, Zenon DEF Wake, queueVars, headerVars, contentVars
  <2>2. finished' => bodyWakeCh = <<FALSE>> \/ finished
    BY <1>0, <2>1, WakeMessages, Zenon DEF FetchType
  <2>3. fetch'.pc # "inFlight" /\ bodyWakeCh' # <<FALSE>>
    BY <2>1, ZenonT(40)
  <2>4. QED
    BY <2>1, <2>2, <2>3, SuccessKept, Zenon
<1>5. CASE CancelBodies \/ NoPeers
  <2>1. Return("fetchBodies", "cancelled") \/ Return("fetchBodies", "noPeers")
    BY <1>5, Zenon DEF CancelBodies, NoPeers
  <2>2. err' # "nil"
    BY <2>1, ErrorFree
  <2>3. QED
    BY <2>2 DEF SuccessInv
<1>6. CASE CheckPending
  <2>1. /\ Running("fetchBodies")
        /\ UNCHANGED <<env, spawnVars, closed, imported, bodyWakeCh, finished, tasks, pend, scheduled>>
    BY <1>6, Zenon DEF CheckPending, queueVars, headerVars, contentVars
  <2>2. tasks = {} \/ fetch'.pc # "inFlight"
    BY <1>6 DEF CheckPending, Select
  <2>3. QED
    BY <2>1, <2>2, SuccessKept, Zenon
<1>7. CASE CheckInFlight
  <2>1. /\ fetch.pc = "inFlight" /\ Running("fetchBodies") /\ fetch' = Select
        /\ UNCHANGED <<env, closed, imported, bodyWakeCh, finished, tasks, pend, scheduled>>
    BY <1>7, ZenonT(40) DEF CheckInFlight, queueVars, headerVars, contentVars
  <2>2. fetch'.pc # "inFlight"
    BY <2>1 DEF Select
  <2>3. CASE Requested = {} /\ finished
    <3>1. Return("fetchBodies", "nil")
      BY <1>7, <2>3 DEF CheckInFlight
    <3>2. CASE "leave" \notin env.faults /\ err = "nil"
      <4>1. tasks = {} /\ ended["processHeaders"] = "nil"
        BY <2>1, <2>3, <3>2, Zenon DEF SuccessInv
      <4>2. /\ ended'["fetchBodies"] = "nil" /\ err = err'
            /\ \A g \in Goroutines \ {"fetchBodies"} : ended'[g] = ended[g]
        BY <1>0, <3>1 DEF Return, SpawnType, Goroutines
      <4>3. Requested' = Requested
        BY <2>1, Zenon DEF Requested
      <4>4. QED
        BY <2>1, <2>2, <2>3, <3>2, <4>1, <4>2, <4>3, ZenonT(40) DEF SuccessInv, Goroutines
    <3>3. CASE ~("leave" \notin env.faults /\ err = "nil")
      BY <2>1, <3>1, <3>3, Zenon DEF SuccessInv, Return
    <3>4. QED
      BY <3>2, <3>3
  <2>4. CASE ~(Requested = {} /\ finished)
    <3>1. UNCHANGED spawnVars
      BY <1>7, <2>4 DEF CheckInFlight
    <3>2. QED
      BY <2>1, <2>2, <3>1, SuccessKept, Zenon
  <2>5. QED
    BY <2>3, <2>4
<1>8. CASE EndPass
  <2>1. /\ Running("fetchBodies") /\ fetch' = Select
        /\ UNCHANGED <<env, closed, imported, bodyWakeCh, finished, tasks, pend, scheduled>>
        /\ Return("fetchBodies", "peersUnavailable") \/ UNCHANGED spawnVars
    BY <1>8, ZenonT(40) DEF EndPass, queueVars, headerVars, contentVars
  <2>2. fetch'.pc # "inFlight"
    BY <2>1 DEF Select
  <2>3. CASE Return("fetchBodies", "peersUnavailable")
    <3>1. err' # "nil"
      BY <2>3, ErrorFree
    <3>2. QED
      BY <3>1 DEF SuccessInv
  <2>4. CASE UNCHANGED spawnVars
    BY <2>1, <2>2, <2>4, SuccessKept, Zenon
  <2>5. QED
    BY <2>1, <2>3, <2>4
<1>9. CASE \E p \in Peers : NextPeer(p)
  <2>1. /\ Running("fetchBodies") /\ fetch.pc = "assign"
        /\ UNCHANGED <<env, spawnVars, closed, imported, bodyWakeCh, finished, tasks, pend, scheduled>>
        /\ \/ fetch' = [fetch EXCEPT !.todo = {}, !.throttled = TRUE]
           \/ fetch' = [fetch EXCEPT !.todo = {}]
           \/ \E p \in Peers : fetch' = [fetch EXCEPT !.pc = "reserve", !.todo = @ \ {p}, !.peer = p]
    BY <1>9, Zenon DEF NextPeer, queueVars, headerVars, contentVars
  <2>2. fetch'.pc # "inFlight"
    BY <1>0, <2>1, Zenon DEF FetchType, FetchStates
  <2>3. QED
    BY <2>1, <2>2, SuccessKept, Zenon
<1>10. ASSUME NEW count \in 2..MaxBlockFetch, NEW popped \in SUBSET tasks, Reserve(count, popped)
       PROVE  SuccessInv'
  <2>0. CASE err' # "nil"
    BY <2>0 DEF SuccessInv
  <2>1. CASE /\ UNCHANGED spawnVars
             /\ \E a, b : fetch' = [fetch EXCEPT !.pc = "assign", !.peer = None, !.progressed = a, !.running = b]
    <3>1. /\ Running("fetchBodies")
          /\ UNCHANGED <<env, spawnVars, closed, imported, bodyWakeCh, finished, scheduled>>
      BY <1>10, <2>1, ZenonT(40) DEF Reserve, headerVars, contentVars
    <3>2. fetch'.pc # "inFlight"
      BY <1>0, <2>1, Zenon DEF FetchType, FetchStates
    <3>3. QED
      BY <3>1, <3>2, SuccessKept, Zenon
  <2>2. QED
    BY <1>10, <2>0, <2>1, ReserveEnds, ZenonT(40)
<1>11. QED
  BY <1>2, <1>3, <1>4, <1>5, <1>6, <1>7, <1>8, <1>9, <1>10, ZenonT(40) DEF PassStep

(* The importer keeps it: it ends behind the last result. *)
LEMMA SuccessContent ==
  ASSUME QueueInv, ImportInv, SuccessInv, ContentStep
  PROVE  SuccessInv'
<1>0. SpawnType
  BY TypeParts DEF QueueInv
<1>1. CASE Sleep \/ Results \/ Import
  <2>1. /\ Running("content")
        /\ UNCHANGED <<env, spawnVars, closed, bodyWakeCh, finished, fetch, tasks, pend, scheduled>>
    BY <1>1, Zenon DEF Sleep, Results, Import, queueVars, headerVars, fetchVars
  <2>2. Requested' = Requested
    BY <2>1 DEF Requested
  <2>3. QED
    BY <2>1, <2>2, SyncConstants, Zenon DEF SuccessInv, Running, spawnVars
<1>2. CASE ImportQuits \/ ImportFails
  <2>1. Return("content", "cancelled") \/ Return("content", "invalidChain")
    BY <1>2, Zenon DEF ImportQuits, ImportFails
  <2>2. err' # "nil"
    BY <2>1, ErrorFree
  <2>3. QED
    BY <2>2 DEF SuccessInv
<1>3. CASE NoResults
  <2>1. /\ Running("content") /\ content = "results" /\ Processable = {} /\ closed
        /\ Return("content", "nil")
        /\ UNCHANGED <<env, closed, imported, bodyWakeCh, finished, fetch, tasks, pend, scheduled>>
    BY <1>3, ZenonT(40) DEF NoResults, queueVars, headerVars, fetchVars, contentVars
  <2>2. SUFFICES ASSUME "leave" \notin env.faults, err = "nil" PROVE SuccessInv'
    BY <2>1, Zenon DEF SuccessInv, Return
  <2>3. \A g \in Goroutines \ {"content"} : ended[g] = "nil"
    BY <2>1, <2>2, Zenon DEF SuccessInv
  <2>4. tasks = {} /\ Requested = {}
    BY <2>2, <2>3, Zenon DEF SuccessInv, Goroutines
  <2>5. env.pivot = 0 => imported = 1..scheduled
    <3>1. Intact
      BY <2>3, Zenon DEF Intact, Goroutines
    <3>2. QED
      BY <2>1, <2>4, <3>1, AllImported
  <2>6. /\ ended'["content"] = "nil" /\ err' = "nil"
        /\ \A g \in Goroutines \ {"content"} : ended'[g] = "nil"
    BY <1>0, <2>1, <2>2, <2>3 DEF Return, SpawnType, Goroutines
  <2>7. Requested' = {} /\ tasks' = {}
    BY <2>1, <2>4 DEF Requested
  <2>8. QED
    BY <2>1, <2>5, <2>6, <2>7, Zenon DEF SuccessInv, Goroutines
<1>4. QED
  BY <1>1, <1>2, <1>3 DEF ContentStep

(* Closing the queue, Cancel and Terminate keep it: without an error the      *)
(* queue is closed behind all goroutines but the consumer.                    *)
LEMMA SuccessSpawn ==
  ASSUME QueueInv, SuccessInv, CloseQueue \/ Cancel \/ Terminate
  PROVE  SuccessInv'
<1>1. UNCHANGED <<env, spawnVars, imported, bodyWakeCh, finished, fetch, tasks, pend, scheduled>>
  BY Zenon DEF CloseQueue, Cancel, Terminate, queueVars, headerVars, fetchVars, contentVars
<1>2. CASE closed' = closed
  BY <1>1, <1>2, SuccessKept, ZenonT(40) DEF SuccessInv
<1>3. CASE closed' # closed
  <2>1. SUFFICES ASSUME "leave" \notin env.faults, err = "nil" PROVE SuccessInv'
    BY <1>1, Zenon DEF SuccessInv, spawnVars
  <2>2. /\ closed' /\ ~closed
        /\ Cardinality({g \in Goroutines : ~Running(g)}) = 3
    BY <1>3, <2>1, ZenonT(40) DEF CloseQueue, Cancel, Terminate
  <2>3. ended["content"] = None
    BY <2>1, <2>2, Zenon DEF SuccessInv, Goroutines
  <2> DEFINE S == {g \in Goroutines : ~Running(g)}
  <2>4. S \in SUBSET (Goroutines \ {"content"})
    BY <2>3 DEF Running
  <2>5. S = Goroutines \ {"content"}
    <3> HIDE DEF S
    <3>1. Cardinality(S) = 3
      BY <2>2 DEF S
    <3>2. QED
      BY <2>4, <3>1, OthersEnded
  <2>6. \A g \in Goroutines \ {"content"} : ended[g] = "nil"
    BY <2>1, <2>5, Zenon DEF SuccessInv, Running
  <2>7. Requested' = Requested
    BY <1>1 DEF Requested
  <2>8. QED
    BY <1>1, <2>1, <2>2, <2>3, <2>6, <2>7, SyncConstants, ZenonT(40) DEF SuccessInv, spawnVars
<1>4. QED
  BY <1>2, <1>3

(* Every step keeps what an end without an error means. *)
LEMMA SuccessStep == QueueInv /\ ImportInv /\ SuccessInv /\ [Next]_vars => SuccessInv'
<1> SUFFICES ASSUME QueueInv, ImportInv, SuccessInv, [Next]_vars PROVE SuccessInv'
  OBVIOUS
<1>1. CASE \E p \in Peers : Register(p) \/ Unregister(p)
  BY <1>1, Zenon DEF Register, Unregister, SuccessInv
<1>2. CASE UNCHANGED vars
  BY <1>2, Zenon DEF vars, SuccessInv, Requested, queueVars, headerVars, fetchVars, contentVars, spawnVars
<1>3. QED
  BY <1>1, <1>2, SuccessHeaders, SuccessBodies, SuccessContent, SuccessSpawn, Zenon DEF Next

(* A FullSync whose goroutines all returned nil has imported every unit it had *)
(* scheduled, whatever was expired, answered late or asked for again, as long  *)
(* as no connection is lost but those that fetchParts itself drops.            *)
THEOREM SuccessIsCompleteAlways == Spec => []SuccessIsComplete
<1>1. SuccessInv => SuccessIsComplete
  <2> SUFFICES ASSUME SuccessInv, env.pivot = 0, "leave" \notin env.faults, Finished, err = "nil"
               PROVE  imported = 1..scheduled
    BY DEF SuccessIsComplete, SyncIsComplete
  <2>1. ended["content"] # None /\ ended["content"] \in {None, "nil"}
    BY Zenon DEF Finished, Running, SuccessInv, Goroutines
  <2>2. QED
    BY <2>1, Zenon DEF SuccessInv
<1>2. QED
  BY <1>1, SuccessInvInit, SuccessStep, QueueInvariant, ImportInvariant, PTL DEF Spec

-----------------------------------------------------------------------------
(* Giving up for want of peers *)

\* A pass that has seen no request under way.
Fruitless == fetch.pc \in {"assign", "reserve"} /\ ~fetch.running

\* It ends the download if it goes on like this.  Units are tried in the order
\* of their numbers, so the first that is needed is the same for all peers.
Hopeless ==
  /\ Fruitless /\ ~fetch.progressed /\ ~fetch.throttled /\ fetch.all
  /\ joins = 0 /\ env.limits = {CacheItems} /\ HeightsExact

(* The heights are those of the environment. *)
LEMMA ExactnessKept ==
  ASSUME UNCHANGED env
  PROVE  HeightsExact' <=> HeightsExact
BY DEF HeightsExact

\* What such a pass has established: the peers that it is done with are known
\* to lack the first unit that is needed, which is in the window.
WantInv ==
  /\ Fruitless => Requested = {}
  /\ env.limits = {CacheItems} => limit = CacheItems
  /\ Hopeless =>
       /\ tasks # {}
       /\ fetch.pc = "reserve" => \E t \in tasks : t < offset + limit
       /\ \A p \in registered : p \in fetch.todo \/ p = fetch.peer \/ Min(tasks) \in lacks[p]

(* Min of a non-empty set of naturals. *)
LEMMA MinFacts ==
  ASSUME NEW S \in SUBSET Nat, S # {}
  PROVE  Min(S) \in S /\ \A s \in S : Min(S) <= s
<1> DEFINE R == OpToRel(<, Nat)
<1>1. IsWellFoundedOn(R, Nat)
  BY NatLessThanWellFounded, Zenon
<1>2. PICK t \in S : \A u \in S : ~(<<u, t>> \in R)
  BY <1>1, WFMin, Zenon
<1>3. \A u \in S : ~(u < t)
  BY <1>2, Zenon DEF OpToRel
<1>4. \A u \in S : t <= u
  <2> HIDE DEF R
  <2>1. QED
    BY <1>2, <1>3
<1>5. QED
  BY <1>2, <1>4, Zenon DEF Min

(* The tasks are units, and none is behind the last scheduled one. *)
LEMMA TaskFacts ==
  ASSUME QueueInv
  PROVE  /\ tasks \in SUBSET Nat /\ tasks \subseteq offset..scheduled
         /\ tasks \intersect done = {}
         /\ offset \in Nat \ {0} /\ limit \in Nat \ {0} /\ scheduled \in Nat
         /\ done \subseteq cache
         /\ HeightsExact => tasks \union Requested \union done = offset..scheduled
<1>1. /\ offset \in Nat \ {0} /\ limit \in Nat \ {0} /\ scheduled \in Nat
      /\ done \subseteq cache
  BY TypeParts, SyncConstants, SMT, Z3 DEF QueueInv, QueueType, HeaderType
<1>2. /\ tasks \union Requested \union done \subseteq offset..scheduled
      /\ HeightsExact => tasks \union Requested \union done = offset..scheduled
      /\ tasks \intersect done = {}
  BY DEF QueueInv, TaskPartition, WindowKept
<1>3. QED
  BY <1>1, <1>2, SMT, Z3

(* With nothing under way, there are slots exactly if there is a task in the  *)
(* window.                                                                    *)
LEMMA SlotsForTasks ==
  ASSUME QueueInv, HeightsExact, Requested = {}, tasks # {}
  PROVE  ResultSlots > 0 <=> \E t \in tasks : t < offset + limit
<1> DEFINE window == offset..(offset + limit - 1)
           filled == {n \in window : offset..n \subseteq cache}
           ready == filled \intersect done
           fetching == {n \in Requested : n < offset + limit}
<1>1. fetching = {} /\ Cardinality(fetching) = 0
  BY FS_EmptySet
<1>2. ResultSlots = limit - Cardinality(ready)
  <2>1. ResultSlots = limit - Cardinality(ready) - Cardinality(fetching)
    BY DEF ResultSlots
  <2>2. IsFiniteSet(window)
    BY TaskFacts, FS_Interval, SMT, Z3
  <2>3. ready \in SUBSET window
    OBVIOUS
  <2> HIDE DEF ready, fetching, window
  <2>4. Cardinality(ready) \in Nat
    BY <2>2, <2>3, FS_Subset, FS_CardinalityType
  <2>5. QED
    BY <1>1, <2>1, <2>4, TaskFacts, SMT, Z3
<1>3. IsFiniteSet(window) /\ Cardinality(window) = limit
  <2>1. offset \in Nat \ {0} /\ limit \in Nat \ {0}
    BY TaskFacts
  <2>2. QED
    BY <2>1, FS_Interval
<1>4. ready \in SUBSET window /\ ready \subseteq done
  OBVIOUS
<1>5. ASSUME NEW t \in tasks, t < offset + limit PROVE ResultSlots > 0
  <2>1. t \in window
    BY <1>5, TaskFacts, SMT, Z3
  <2>2. t \notin ready
    BY <1>4, TaskFacts
  <2> HIDE DEF ready, window
  <2>3. IsFiniteSet(ready) /\ Cardinality(ready) <= limit /\ Cardinality(ready) # limit
    BY <1>3, <1>4, <2>1, <2>2, FS_Subset
  <2>4. Cardinality(ready) \in Nat
    BY <2>3, FS_CardinalityType
  <2>5. QED
    BY <1>2, <2>3, <2>4, TaskFacts, SMT, Z3
<1>6. ASSUME \A t \in tasks : ~(t < offset + limit) PROVE ~(ResultSlots > 0)
  <2>1. window \subseteq done
    <3> SUFFICES ASSUME NEW n \in window PROVE n \in done
      OBVIOUS
    <3>1. PICK t \in tasks : TRUE
      OBVIOUS
    <3>2. t \in Nat /\ t <= scheduled /\ ~(t < offset + limit)
      BY <1>6, <3>1, TaskFacts, SMT, Z3
    <3>3. n \in offset..scheduled /\ n < offset + limit
      BY <3>2, TaskFacts, SMT, Z3
    <3>4. QED
      BY <1>6, <3>3, TaskFacts
  <2>2. window \subseteq filled
    BY <2>1, TaskFacts DEF QueueInv, CachePrefix
  <2>3. ready = window
    BY <2>1, <2>2
  <2> HIDE DEF ready, window
  <2>4. QED
    BY <1>2, <1>3, <2>3, TaskFacts, SMT, Z3
<1>7. QED
  BY <1>5, <1>6

(* Nothing is under way at first. *)
LEMMA WantInvInit == Init => WantInv
<1> SUFFICES ASSUME Init PROVE WantInv
  OBVIOUS
<1>1. fetch.pc = "select" /\ (env.limits = {CacheItems} => limit = CacheItems)
  BY DEF Init, Select
<1>2. ~Fruitless
  BY <1>1 DEF Fruitless
<1>3. QED
  BY <1>1, <1>2 DEF WantInv, Hopeless

(* Steps of others: requests that are not there are not returned, tasks are   *)
(* added at the end, the window moves on, and no peer joins.                  *)
OnlyMoreTasks ==
  Requested = {} => /\ Requested' = {} /\ tasks \subseteq tasks'
                    /\ \A n \in tasks' \ tasks : n > scheduled
WindowMovesOn ==
  UNCHANGED <<env, fetch>> /\ (limit' = limit \/ limit' \in env.limits) /\ offset <= offset'
NoNewPeers ==
  joins' # 0 \/ (joins' = joins /\ registered' \subseteq registered /\ lacks' = lacks)
LEMMA WantKept ==
  ASSUME QueueInv, QueueInv', WantInv, OnlyMoreTasks, WindowMovesOn, NoNewPeers
  PROVE  WantInv'
<1> USE DEF OnlyMoreTasks, WindowMovesOn, NoNewPeers
<1>1. Fruitless' => Fruitless
  BY DEF Fruitless
<1>2. Fruitless' => Requested' = {}
  BY <1>1, ZenonT(40) DEF WantInv
<1>3. env'.limits = {CacheItems} => limit' = CacheItems /\ limit = CacheItems
  BY DEF WantInv
<1>4. ASSUME Hopeless'
      PROVE  /\ tasks' # {}
             /\ fetch'.pc = "reserve" => \E t \in tasks' : t < offset' + limit'
             /\ \A p \in registered' : p \in fetch'.todo \/ p = fetch'.peer \/ Min(tasks') \in lacks'[p]
  <2>1. /\ Hopeless /\ Requested = {}
        /\ registered' \subseteq registered /\ lacks' = lacks /\ limit' = limit
    BY <1>1, <1>3, <1>4, ExactnessKept DEF Hopeless, WantInv
  <2>2. /\ tasks # {} /\ tasks \subseteq tasks' /\ \A n \in tasks' \ tasks : n > scheduled
        /\ fetch.pc = "reserve" => \E t \in tasks : t < offset + limit
        /\ \A p \in registered : p \in fetch.todo \/ p = fetch.peer \/ Min(tasks) \in lacks[p]
    BY <2>1, ZenonT(40) DEF WantInv
  <2>3. offset' \in Nat /\ tasks' \in SUBSET Nat
    BY TypePartsNext, SyncConstants, SMT, Z3 DEF QueueInv, QueueType, Units
  <2>4. Min(tasks') = Min(tasks)
    <3>1. Min(tasks) \in tasks /\ \A s \in tasks : Min(tasks) <= s
      BY <2>2, TaskFacts, MinFacts, Zenon
    <3>2. Min(tasks') \in tasks' /\ \A s \in tasks' : Min(tasks') <= s
      BY <2>2, <2>3, MinFacts, ZenonT(40)
    <3>3. Min(tasks) \in Nat /\ Min(tasks') \in Nat /\ Min(tasks) <= scheduled /\ scheduled \in Nat
      <4>1. scheduled \in Nat /\ offset \in Nat /\ Min(tasks) \in offset..scheduled
        BY <3>1, TaskFacts, Zenon
      <4>2. Min(tasks') \in Nat
        BY <2>3, <3>2, Zenon
      <4>3. QED
        BY <4>1, <4>2
    <3>4. Min(tasks) <= Min(tasks')
      <4>1. CASE Min(tasks') \in tasks
        BY <3>1, <4>1
      <4>2. CASE Min(tasks') \notin tasks
        <5>1. Min(tasks') > scheduled
          BY <2>2, <3>2, <4>2, ZenonT(40)
        <5>2. QED
          BY <3>3, <5>1
      <4>3. QED
        BY <4>1, <4>2
    <3>5. Min(tasks') <= Min(tasks)
      BY <2>2, <3>1, <3>2
    <3>6. QED
      BY <3>3, <3>4, <3>5
  <2>5. fetch'.pc = "reserve" => \E t \in tasks' : t < offset' + limit'
    BY <2>1, <2>2, <2>3, TaskFacts, SMT, Z3
  <2>6. \A p \in registered' : p \in fetch'.todo \/ p = fetch'.peer \/ Min(tasks') \in lacks'[p]
    BY <2>1, <2>2, <2>4, Zenon
  <2>7. QED
    BY <2>2, <2>5, <2>6
<1>5. QED
  BY <1>2, <1>3, <1>4, Zenon DEF WantInv

(* The counters of the peers, the headers and the window are numbers. *)
LEMMA QueueNumbers ==
  ASSUME QueueInv
  PROVE  /\ joins \in Nat /\ scheduled \in Nat /\ offset \in Nat
         /\ pend \in [Peers -> SUBSET Units] /\ registered \subseteq Peers
<1>1. PeerType /\ HeaderType /\ QueueType
  BY TypeParts, Zenon DEF QueueInv
<1>2. joins \in 0..MaxJoins /\ registered \subseteq Peers
  BY <1>1, Zenon DEF PeerType
<1>3. scheduled \in 0..N
  BY <1>1, Zenon DEF HeaderType
<1>4. offset \in 1..(N + 1) /\ pend \in [Peers -> SUBSET Units]
  BY <1>1, Zenon DEF QueueType
<1>5. QED
  BY <1>2, <1>3, <1>4, SyncConstants, SMT, Z3

(* The peers and the headers. *)
LEMMA WantOthers ==
  ASSUME QueueInv, QueueInv', WantInv,
         (\E p \in Peers : Register(p) \/ Unregister(p)) \/ HeaderStep \/ ProcessStep
  PROVE  WantInv'
<1>0. /\ joins \in Nat /\ scheduled \in Nat /\ offset \in Nat
      /\ pend \in [Peers -> SUBSET Units] /\ registered \subseteq Peers
  BY QueueNumbers, Zenon
<1>1. UNCHANGED <<env, fetch, offset, limit>>
  BY ZenonT(40) DEF Register, Unregister, HeaderStep, ProcessStep, FetchHeaders, NoMoreHeaders, HeadersTimeout,
              SkeletonInvalid, CancelHeaders, TakeHeaders, Schedule, HeadersStale, HeadersProcessed,
              queueVars, fetchVars
<1>w. WindowMovesOn
  BY <1>0, <1>1 DEF WindowMovesOn
<1>2. ASSUME NEW S \in SUBSET Peers, tasks' = Returned(S), pend' = Cleared(S), Requested = {}
      PROVE  Requested' = {} /\ tasks' = tasks
  <2>1. \A p \in Peers : pend[p] = {}
    BY <1>2 DEF Requested
  <2>2. tasks' = tasks
    BY <1>2, <2>1, SMT, Z3 DEF Returned
  <2>3. \A p \in Peers : pend'[p] = {}
    BY <1>2, <2>1 DEF Cleared
  <2>4. QED
    BY <2>2, <2>3, SMT, Z3 DEF Requested
<1>3. ASSUME NEW p \in Peers, Register(p) PROVE WantInv'
  <2>1. UNCHANGED <<tasks, pend>> /\ joins' = joins + 1
    BY <1>3, Zenon DEF Register
  <2>2. Requested' = Requested /\ joins' # 0
    BY <1>0, <2>1 DEF Requested
  <2>3. OnlyMoreTasks /\ NoNewPeers
    BY <2>1, <2>2 DEF OnlyMoreTasks, NoNewPeers
  <2>4. QED
    BY <1>w, <2>3, WantKept
<1>4. ASSUME NEW p \in Peers, Unregister(p) PROVE WantInv'
  <2>1. /\ tasks' = Returned({p}) /\ pend' = Cleared({p})
        /\ registered' \subseteq registered /\ UNCHANGED <<joins, lacks>>
    BY <1>4, Zenon DEF Unregister
  <2>2. Requested = {} => Requested' = {} /\ tasks' = tasks
    BY <1>2, <2>1
  <2>3. OnlyMoreTasks
    BY <2>2 DEF OnlyMoreTasks
  <2>4. NoNewPeers
    BY <2>1, Zenon DEF NoNewPeers
  <2>5. QED
    BY <1>w, <2>3, <2>4, WantKept
<1>5. CASE HeadersTimeout
  <2>1. /\ tasks' = Returned({Master} \intersect registered) /\ pend' = Cleared({Master} \intersect registered)
        /\ registered' \subseteq registered /\ UNCHANGED <<joins, lacks>>
    BY <1>5, Zenon DEF HeadersTimeout
  <2>2. {Master} \intersect registered \in SUBSET Peers
    BY <1>0
  <2>3. Requested = {} => Requested' = {} /\ tasks' = tasks
    BY <1>2, <2>1, <2>2
  <2>4. OnlyMoreTasks
    BY <2>3 DEF OnlyMoreTasks
  <2>5. NoNewPeers
    BY <2>1, Zenon DEF NoNewPeers
  <2>6. QED
    BY <1>w, <2>4, <2>5, WantKept
<1>6. CASE Schedule \/ HeadersStale
  <2>1. tasks' = tasks \union (scheduled + 1)..scheduled' /\ UNCHANGED <<pend, registered, joins, lacks>>
    BY <1>6, ZenonT(40) DEF Schedule, HeadersStale, peerVars
  <2>2. scheduled' \in Nat
    <3>1. HeaderType'
      BY TypePartsNext, Zenon DEF QueueInv
    <3>2. scheduled' \in 0..N
      BY <3>1 DEF HeaderType
    <3>3. QED
      BY <3>2, SyncConstants
  <2>3. Requested' = Requested
    BY <2>1, Zenon DEF Requested
  <2>4. OnlyMoreTasks
    BY <1>0, <2>1, <2>2, <2>3, SMT, Z3 DEF OnlyMoreTasks
  <2>5. NoNewPeers
    BY <2>1 DEF NoNewPeers
  <2>6. QED
    BY <1>w, <2>4, <2>5, WantKept
<1>7. CASE FetchHeaders \/ NoMoreHeaders \/ SkeletonInvalid \/ TakeHeaders \/ HeadersProcessed
             \/ CancelHeaders("fetchHeaders") \/ CancelHeaders("processHeaders")
  <2>1. UNCHANGED <<tasks, pend, registered, joins, lacks>>
    BY <1>7, ZenonT(40) DEF FetchHeaders, NoMoreHeaders, SkeletonInvalid, TakeHeaders, HeadersProcessed,
                        CancelHeaders, peerVars, queueVars
  <2>2. Requested' = Requested
    BY <2>1, Zenon DEF Requested
  <2>3. OnlyMoreTasks /\ NoNewPeers
    BY <2>1, <2>2 DEF OnlyMoreTasks, NoNewPeers
  <2>4. QED
    BY <1>w, <2>3, WantKept
<1>8. QED
  BY <1>3, <1>4, <1>5, <1>6, <1>7 DEF HeaderStep, ProcessStep

(* The consumer and spawnSync. *)
LEMMA WantContent ==
  ASSUME QueueInv, QueueInv', WantInv,
         ContentStep \/ CloseQueue \/ Cancel \/ Terminate \/ Wake \/ CancelBodies \/ NoPeers \/ UNCHANGED vars
  PROVE  WantInv'
<1>1. UNCHANGED <<env, fetch, tasks, pend, registered, joins, lacks>>
  BY ZenonT(40) DEF ContentStep, Sleep, Results, NoResults, Import, ImportQuits, ImportFails,
                    CloseQueue, Cancel, Terminate, Wake, CancelBodies, NoPeers, vars,
                    peerVars, queueVars, fetchVars
<1>2. Requested' = Requested
  BY <1>1, Zenon DEF Requested
<1>t. OnlyMoreTasks /\ NoNewPeers
  BY <1>1, <1>2 DEF OnlyMoreTasks, NoNewPeers
<1>3. CASE Results
  <2>1. results' # {} /\ results' \subseteq Units /\ results' = offset..Max(results')
    BY <1>3, ResultsInterval DEF Results
  <2>2. offset' = Max(results') + 1 /\ limit' \in env.limits
    BY <1>3 DEF Results
  <2>3. offset \in Nat /\ \A n \in results' : n \in Nat /\ n <= N
    BY <2>1, TaskFacts, SyncConstants, SMT, Z3 DEF Units
  <2>4. Max(results') \in results'
    BY <2>1, <2>3, MaxFacts, SyncConstants, Zenon
  <2>5. offset <= offset'
    BY <2>1, <2>2, <2>3, <2>4
  <2>6. WindowMovesOn
    BY <1>1, <2>2, <2>5 DEF WindowMovesOn
  <2>7. QED
    BY <1>t, <2>6, WantKept
<1>4. CASE ~Results
  <2>1. UNCHANGED <<offset, limit>>
    BY <1>4, ZenonT(40)
       DEF ContentStep, Sleep, NoResults, Import, ImportQuits, ImportFails,
           CloseQueue, Cancel, Terminate, Wake, CancelBodies, NoPeers, vars, queueVars
  <2>2. offset <= offset'
    BY <2>1, TaskFacts, SMT, Z3
  <2>3. WindowMovesOn
    BY <1>1, <2>1, <2>2 DEF WindowMovesOn
  <2>4. QED
    BY <1>t, <2>3, WantKept
<1>5. QED
  BY <1>3, <1>4

(* Answers, and the pass that is not yet or no more over the idle peers. *)
LEMMA WantBegin ==
  ASSUME QueueInv, QueueInv', WantInv,
         \/ \E p \in Peers : \E sent \in SUBSET pend[p] : Deliver(p, sent)
         \/ \E late \in SUBSET Peers : BeginPass(late)
         \/ CheckPending \/ CheckInFlight \/ EndPass
  PROVE  WantInv'
<1>0. fetch \in FetchStates
  BY TypeParts DEF QueueInv, FetchType
<1>1. UNCHANGED <<env, limit>>
  BY ZenonT(40) DEF Deliver, BeginPass, CheckPending, CheckInFlight, EndPass, queueVars
<1>2. CASE CheckPending /\ tasks # {}
  <2>1. /\ fetch' = [Select EXCEPT !.pc = "assign", !.todo = idle,
                                   !.running = (Requested # {}), !.all = (idle = registered)]
        /\ UNCHANGED <<pend, tasks, registered, idle>>
    BY <1>2 DEF CheckPending, peerVars, queueVars
  <2>2. /\ fetch'.pc = "assign" /\ fetch'.todo = idle /\ fetch'.running = (Requested # {})
        /\ fetch'.all = (idle = registered)
    BY <2>1, Zenon DEF Select
  <2>3. Requested' = Requested
    BY <2>1 DEF Requested
  <2>4. Fruitless' => Requested' = {}
    BY <2>2, <2>3, Zenon DEF Fruitless
  <2>5. Hopeless' => registered' = fetch'.todo
    BY <2>1, <2>2, Zenon DEF Hopeless
  <2>6. QED
    BY <1>1, <1>2, <2>1, <2>2, <2>4, <2>5 DEF WantInv
<1>3. CASE ~(CheckPending /\ tasks # {})
  <2>1. \/ fetch' = fetch /\ fetch.pc = "select"
        \/ fetch' = [fetch EXCEPT !.pc = "pending"]
        \/ fetch' = [fetch EXCEPT !.pc = "inFlight"]
        \/ fetch' = Select
    BY <1>3, ZenonT(40) DEF Deliver, BeginPass, CheckPending, CheckInFlight, EndPass, fetchVars
  <2>2. ~(fetch'.pc \in {"assign", "reserve"})
    BY <1>0, <2>1, SMT, Z3 DEF FetchStates, Select
  <2>3. QED
    BY <1>1, <2>2, Zenon DEF WantInv, Hopeless, Fruitless
<1>4. QED
  BY <1>2, <1>3

(* The loop goes on to a peer when there are slots, so a task is in the       *)
(* window.                                                                    *)
LEMMA WantNextPeer ==
  ASSUME QueueInv, QueueInv', IdleInv, WantInv, NEW p \in Peers, NextPeer(p)
  PROVE  WantInv'
<1>0. fetch \in FetchStates
  BY TypeParts DEF QueueInv, FetchType
<1>1. /\ fetch.pc = "assign" /\ p \in fetch.todo
      /\ UNCHANGED <<env, limit, offset, pend, tasks, registered, lacks, joins>>
  BY DEF NextPeer, peerVars, queueVars
<1>2. Requested' = Requested
  BY <1>1 DEF Requested
<1>3. CASE ResultSlots <= 0
  <2>1. fetch' = [fetch EXCEPT !.todo = {}, !.throttled = TRUE]
    BY <1>3 DEF NextPeer
  <2>2. fetch'.pc = fetch.pc /\ fetch'.throttled /\ fetch'.running = fetch.running
    BY <1>0, <2>1, ZenonT(40) DEF FetchStates
  <2>3. Fruitless' => Fruitless
    BY <2>2 DEF Fruitless
  <2>4. QED
    BY <1>1, <1>2, <2>2, <2>3, Zenon DEF WantInv, Hopeless
<1>4. CASE ~(ResultSlots <= 0) /\ tasks = {}
  <2>1. fetch' = [fetch EXCEPT !.todo = {}]
    BY <1>4 DEF NextPeer
  <2>2. /\ fetch'.pc = fetch.pc /\ fetch'.throttled = fetch.throttled /\ fetch'.running = fetch.running
        /\ fetch'.progressed = fetch.progressed /\ fetch'.all = fetch.all
    BY <1>0, <2>1, ZenonT(40) DEF FetchStates
  <2>3. (Fruitless' => Fruitless) /\ (Hopeless' => Hopeless)
    BY <1>1, <2>2, ExactnessKept DEF Fruitless, Hopeless
  <2>4. ~Hopeless
    BY <1>4 DEF WantInv
  <2>5. QED
    BY <1>1, <1>2, <2>3, <2>4, Zenon DEF WantInv
<1>5. CASE ~(ResultSlots <= 0) /\ tasks # {}
  <2>1. fetch' = [fetch EXCEPT !.pc = "reserve", !.todo = @ \ {p}, !.peer = p]
    BY <1>5 DEF NextPeer
  <2>2. /\ fetch'.pc = "reserve" /\ fetch'.throttled = fetch.throttled /\ fetch'.running = fetch.running
        /\ fetch'.progressed = fetch.progressed /\ fetch'.all = fetch.all
        /\ fetch'.todo = fetch.todo \ {p} /\ fetch'.peer = p
    BY <1>0, <2>1, ZenonT(40) DEF FetchStates
  <2>3. (Fruitless' => Fruitless) /\ (Hopeless' => Hopeless /\ Fruitless)
    BY <1>1, <2>2, ExactnessKept DEF Fruitless, Hopeless
  <2>4. Fruitless' => Requested' = {}
    BY <1>2, <2>3, ZenonT(40) DEF WantInv
  <2>5. ASSUME Hopeless'
        PROVE  /\ tasks' # {}
               /\ \E t \in tasks' : t < offset' + limit'
               /\ \A q \in registered' : q \in fetch'.todo \/ q = fetch'.peer \/ Min(tasks') \in lacks'[q]
    <3>1. Hopeless /\ Requested = {}
      BY <2>3, <2>5, Zenon DEF WantInv
    <3>2. ResultSlots > 0
      BY <1>5, SlotsInteger DEF QueueInv
    <3>3. \E t \in tasks : t < offset + limit
      BY <1>5, <3>1, <3>2, SlotsForTasks DEF Hopeless
    <3>4. \A q \in registered : q \in fetch.todo \/ q = None \/ Min(tasks) \in lacks[q]
      BY <1>1, <3>1, ZenonT(40) DEF WantInv, IdleInv, PassPeers
    <3>5. None \notin registered
      BY TypeParts, SyncConstants DEF QueueInv, PeerType
    <3>6. \A q \in registered' : q \in fetch'.todo \/ q = fetch'.peer \/ Min(tasks') \in lacks'[q]
      BY <1>1, <2>2, <3>4, <3>5, Zenon
    <3>7. QED
      BY <1>1, <1>5, <3>3, <3>6, ZenonT(40)
  <2>6. QED
    BY <1>1, <2>4, <2>5 DEF WantInv
<1>6. QED
  BY <1>3, <1>4, <1>5

(* A reservation for a peer takes the first task, and leaves it where it is   *)
(* only if the peer is known to lack it.                                      *)
LEMMA WantReserve ==
  ASSUME QueueInv, QueueInv', IdleInv, WantInv,
         NEW count \in 2..MaxBlockFetch, NEW popped \in SUBSET tasks, Reserve(count, popped)
  PROVE  WantInv'
<1> DEFINE p == fetch.peer
           send == popped \ (Empty \union lacks[p])
           noop == popped \intersect Empty
<1>0. fetch \in FetchStates /\ LocalsSet /\ registered \subseteq Peers
  BY TypeParts DEF QueueInv, FetchType, PeerType
<1>1. /\ fetch.pc = "reserve" /\ (pend[p] = {} => popped \in Popped(p, count))
      /\ UNCHANGED <<env, registered, lacks, joins, offset, limit>>
  BY DEF Reserve
<1>e. CASE UNCHANGED <<pend, fetch>> /\ ended'["fetchBodies"] = "invalidChain"
  <2>1. ~HeightsExact'
    BY <1>e DEF QueueInv, WindowKept
  <2>2. Requested' = Requested
    BY <1>e DEF Requested
  <2>3. Fruitless' => Fruitless
    BY <1>e DEF Fruitless
  <2>4. ~Hopeless'
    BY <2>1 DEF Hopeless
  <2>5. QED
    BY <1>1, <2>2, <2>3, <2>4, Zenon DEF WantInv
<1> SUFFICES ASSUME ~(UNCHANGED <<pend, fetch>> /\ ended'["fetchBodies"] = "invalidChain") PROVE WantInv'
  BY <1>e
<1>2. /\ fetch.pc = "reserve"
      /\ tasks' = tasks \ (send \union (Empty \intersect popped))
      /\ pend' = (IF send = {} THEN pend ELSE [pend EXCEPT ![p] = send])
      /\ fetch' = [fetch EXCEPT !.pc = "assign", !.peer = None,
                                !.progressed = @ \/ noop # {}, !.running = @ \/ send # {}]
      /\ UNCHANGED <<env, registered, lacks, joins, offset, limit>>
  BY <1>1, ReserveEnds, ZenonT(40)
<1>3. p \in Peers
  BY <1>0, <1>2 DEF LocalsSet, FetchStates
<1> HIDE DEF p, send, noop
<1>4. /\ fetch'.pc = "assign" /\ fetch'.peer = None /\ fetch'.todo = fetch.todo
      /\ fetch'.progressed = (fetch.progressed \/ noop # {})
      /\ fetch'.running = (fetch.running \/ send # {})
      /\ fetch'.throttled = fetch.throttled /\ fetch'.all = fetch.all
  BY <1>0, <1>2, ZenonT(40) DEF FetchStates
<1>5. ASSUME Fruitless' PROVE Fruitless /\ Requested = {} /\ send = {} /\ Requested' = {}
  <2>1. ~fetch.running /\ send = {}
    BY <1>4, <1>5, Zenon DEF Fruitless
  <2>2. Fruitless
    BY <1>2, <2>1 DEF Fruitless
  <2>3. Requested' = Requested
    BY <1>2, <2>1 DEF Requested
  <2>4. QED
    BY <2>1, <2>2, <2>3 DEF WantInv
<1>6. ASSUME Hopeless'
      PROVE  /\ tasks' # {}
             /\ \A q \in registered' : q \in fetch'.todo \/ q = fetch'.peer \/ Min(tasks') \in lacks'[q]
  <2>1. Fruitless /\ Requested = {} /\ send = {}
    BY <1>5, <1>6 DEF Hopeless
  <2>2. noop = {} /\ Hopeless
    BY <1>2, <1>4, <1>6, <2>1, ExactnessKept, ZenonT(40) DEF Hopeless
  <2>3. tasks' = tasks
    BY <1>2, <2>1, <2>2 DEF noop
  <2>4. /\ tasks # {} /\ \E t \in tasks : t < offset + limit
        /\ \A q \in registered : q \in fetch.todo \/ q = p \/ Min(tasks) \in lacks[q]
    BY <1>2, <2>2 DEF WantInv, p
  <2>5. ResultSlots > 0 /\ ResultSlots \in Int
    <3>1. Requested = {} /\ tasks # {} /\ \E t \in tasks : t < offset + limit
      BY <2>1, <2>4, Zenon
    <3>2. ResultSlots > 0
      BY <2>2, <3>1, SlotsForTasks, Zenon DEF Hopeless
    <3>3. ResultSlots \in Int
      BY SlotsInteger DEF QueueInv
    <3>4. QED
      BY <3>2, <3>3
  <2>6. Min(tasks) \in tasks /\ \A s \in tasks : s \in Nat /\ Min(tasks) <= s
    BY <2>4, TaskFacts, MinFacts, Zenon
  <2>7. popped \in Popped(p, count)
    BY <1>1, <1>3, <2>1, ZenonT(40) DEF Requested, p
  <2>8. popped # {}
    <3>1. Cardinality({}) = 0 /\ {} \ (Empty \union lacks[p]) = {} /\ {} # tasks
      BY <2>4, FS_EmptySet
    <3>2. Cardinality({}) < ResultSlots /\ Cardinality({} \ (Empty \union lacks[p])) < count
      BY <2>5, <3>1, SyncConstants, SMT, Z3
    <3>3. GoesOn(p, count, {})
      BY <3>1, <3>2, Zenon DEF GoesOn
    <3>4. QED
      BY <2>7, <3>3, PoppedFacts
  <2>9. Min(tasks) \in lacks[p]
    <3>1. PICK u \in popped : TRUE
      BY <2>8
    <3>2. u \in Nat /\ Min(tasks) \in Nat /\ Min(tasks) <= u
      BY <2>6, <3>1
    <3>3. Min(tasks) \in popped
      <4>1. CASE Min(tasks) = u
        BY <4>1
      <4>2. CASE Min(tasks) < u
        BY <2>2, <2>6, <2>7, <4>2, PoppedLowest DEF QueueInv, Hopeless
      <4>3. QED
        BY <3>2, <4>1, <4>2
    <3>4. QED
      BY <2>1, <2>2, <3>3 DEF send, noop
  <2>10. QED
    BY <1>2, <1>4, <2>3, <2>4, <2>9, Zenon
<1>7. QED
  BY <1>2, <1>4, <1>5, <1>6 DEF WantInv

(* Every step keeps what the loop of fetchBodies knows of peers and tasks. *)
LEMMA WantStep == QueueInv /\ QueueInv' /\ IdleInv /\ WantInv /\ [Next]_vars => WantInv'
<1> SUFFICES ASSUME QueueInv, QueueInv', IdleInv, WantInv, [Next]_vars PROVE WantInv'
  OBVIOUS
<1>1. CASE PassStep
  <2>1. CASE CheckPending \/ CheckInFlight \/ EndPass
    BY <2>1, WantBegin
  <2>2. CASE \E p \in Peers : NextPeer(p)
    BY <2>2, WantNextPeer
  <2>3. CASE \E count \in 2..MaxBlockFetch, popped \in SUBSET tasks : Reserve(count, popped)
    BY <2>3, WantReserve
  <2>4. QED
    BY <1>1, <2>1, <2>2, <2>3 DEF PassStep
<1>2. QED
  BY <1>1, WantOthers, WantContent, WantBegin, Zenon DEF Next

(* What a pass has established about the peers, in every state. *)
THEOREM WantInvariant == Spec => []WantInv
BY WantInvInit, WantStep, QueueInvariant, IdleInvariant, PTL DEF Spec

(* Only the end of a pass makes fetchBodies return errPeersUnavailable. *)
LEMMA UnavailableAtEnd ==
  ASSUME QueueInv, [Next]_vars, Running("fetchBodies"),
         ended'["fetchBodies"] = "peersUnavailable"
  PROVE  EndPass
<1>0. SpawnType /\ ended'["fetchBodies"] # ended["fetchBodies"] /\ ended'["fetchBodies"] # "invalidChain"
  BY TypeParts, SyncConstants DEF QueueInv, Running, Errors
<1>1. ended' # ended
  BY <1>0
<1>2. /\ \A e : ~Return("fetchHeaders", e) /\ ~Return("processHeaders", e) /\ ~Return("content", e)
      /\ ~Return("fetchBodies", "nil") /\ ~Return("fetchBodies", "cancelled")
      /\ ~Return("fetchBodies", "noPeers") /\ ~Return("fetchBodies", "invalidChain")
  BY <1>0 DEF Return, SpawnType, Goroutines
<1>3. ~(UNCHANGED spawnVars) /\ ~(UNCHANGED vars)
  BY <1>1 DEF spawnVars, vars
<1>4. /\ ~\E p \in Peers : Register(p) \/ Unregister(p)
      /\ ~\E late \in SUBSET Peers : BeginPass(late)
      /\ ~(CloseQueue \/ Cancel \/ Terminate \/ Wake)
  BY <1>3, ZenonT(40) DEF Register, Unregister, BeginPass, CloseQueue, Cancel, Terminate, Wake
<1>5. ~HeaderStep
  BY <1>2, <1>3, ZenonT(40) DEF HeaderStep, FetchHeaders, NoMoreHeaders, HeadersTimeout, SkeletonInvalid, CancelHeaders
<1>6. ~ProcessStep
  BY <1>2, <1>3, ZenonT(40) DEF ProcessStep, TakeHeaders, Schedule, HeadersStale, HeadersProcessed, CancelHeaders
<1>7. ~ContentStep
  BY <1>2, <1>3, ZenonT(40) DEF ContentStep, Sleep, Results, NoResults, Import, ImportQuits, ImportFails
<1>8. ~\E p \in Peers : \E sent \in SUBSET pend[p] : Deliver(p, sent)
  BY <1>2, <1>3, ZenonT(40) DEF Deliver
<1>9. ~\E count \in 2..MaxBlockFetch, popped \in SUBSET tasks : Reserve(count, popped)
  BY <1>2, <1>3, ZenonT(40) DEF Reserve
<1>10. ~(CancelBodies \/ NoPeers \/ CheckPending \/ CheckInFlight \/ \E p \in Peers : NextPeer(p))
  BY <1>2, <1>3, ZenonT(40) DEF CancelBodies, NoPeers, CheckPending, CheckInFlight, NextPeer
<1>11. QED
  BY <1>3, <1>4, <1>5, <1>6, <1>7, <1>8, <1>9, <1>10, ZenonT(40) DEF Next, PassStep

(* The download is given up for want of peers only when nothing is under way  *)
(* and every connected peer is known to lack the first unit that is needed,   *)
(* if no peer joined and the memory limit did not fall, at heights that are   *)
(* exact priorities.                                                          *)
THEOREM GivesUpForWantOnly == Spec /\ []HeightsExact => GivesUpForWant
<1>1. ASSUME QueueInv, IdleInv, WantInv, HeightsExact, [Next]_vars,
             Running("fetchBodies"), ended'["fetchBodies"] = "peersUnavailable"
      PROVE  /\ Requested = {}
             /\ joins = 0 /\ env.limits = {CacheItems} =>
                  \A p \in registered : \E n \in tasks \intersect lacks[p] : InFront({n}, tasks)
  <2>1. EndPass /\ SpawnType /\ ended'["fetchBodies"] # ended["fetchBodies"]
    BY <1>1, UnavailableAtEnd, TypeParts, SyncConstants DEF QueueInv, Running, Errors
  <2>2. /\ fetch.pc = "assign" /\ fetch.todo = {} /\ tasks # {}
        /\ ~fetch.progressed /\ ~fetch.throttled /\ ~fetch.running /\ fetch.all
    BY <2>1, Zenon DEF EndPass, spawnVars
  <2>3. Fruitless /\ Requested = {}
    BY <1>1, <2>2 DEF Fruitless, WantInv
  <2>4. fetch.peer = None /\ None \notin registered
    BY <1>1, <2>2, TypeParts, SyncConstants, ZenonT(40) DEF IdleInv, PassPeers, QueueInv, PeerType
  <2>5. joins = 0 /\ env.limits = {CacheItems} => Hopeless
    BY <1>1, <2>2, <2>3 DEF Hopeless
  <2>6. joins = 0 /\ env.limits = {CacheItems} => \A p \in registered : Min(tasks) \in lacks[p]
    BY <1>1, <2>2, <2>3, <2>4, <2>5 DEF WantInv
  <2>7. Min(tasks) \in tasks /\ \A s \in tasks : Min(tasks) <= s
    BY <1>1, <2>2, TaskFacts, MinFacts, Zenon
  <2>8. InFront({Min(tasks)}, tasks)
    <3>1. tasks \subseteq Units /\ TypeOK
      BY <1>1, TypeParts DEF QueueInv, QueueType
    <3>2. \A s \in tasks : Priority(Min(tasks)) <= Priority(s)
      BY <1>1, <2>7, <3>1, ExactPriority
    <3>3. QED
      BY <3>2 DEF InFront
  <2>9. QED
    BY <2>3, <2>6, <2>7, <2>8
<1>2. QueueInv /\ IdleInv /\ WantInv /\ HeightsExact /\ [Next]_vars =>
        [Running("fetchBodies") /\ ended'["fetchBodies"] = "peersUnavailable" =>
           /\ Requested = {}
           /\ joins = 0 /\ env.limits = {CacheItems} =>
                \A p \in registered : \E n \in tasks \intersect lacks[p] : InFront({n}, tasks)]_vars
  BY <1>1, Zenon
<1>3. QED
  BY <1>2, QueueInvariant, IdleInvariant, WantInvariant, PTL DEF Spec, GivesUpForWant

=============================================================================
