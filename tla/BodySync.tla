------------------------------ MODULE BodySync ------------------------------
(***************************************************************************)
(* One synchronisation of the downloader (ptn/downloader/downloader.go,    *)
(* queue.go, peer.go): the goroutines that fetch headers, process headers, *)
(* fetch bodies and import the results, spawnSync that waits for the four, *)
(* and the peers that leave and join meanwhile.                            *)
(*                                                                         *)
(* Units are numbered from the ancestor, the first to fetch is 1.  Which   *)
(* body belongs to which unit is left out: the comparison with TxRoot is   *)
(* commented out in DeliverBodies, a packet of bodies is a number of items *)
(* that is applied to whatever request its peer has pending.  Packets are  *)
(* not matched with requests either, so an answer may come late, twice or  *)
(* not at all.  Headers come from the master peer in order; how the        *)
(* skeleton is filled is left out.                                         *)
(***************************************************************************)
EXTENDS Integers, Sequences, FiniteSetsExt

CONSTANTS
  Peers, Master, None,
  N,               \* bound: the units the master may have headers of
  CacheItems,      \* blockCacheItems
  MaxBlockFetch,
  MaxResults,      \* maxResultsProcess
  MaxHeaders,      \* maxHeadersProcess
  MaxQueued,       \* maxQueuedHeaders
  MinFullBlocks,   \* fsMinFullBlocks
  Environments,    \* the chain, the pivot and the faults of a behaviour
  MaxJoins         \* bound: registrations of peers during the synchronisation

Faults == {"leave",     \* peers leave by themselves, and join
           "empty",     \* peers answer with nothing
           "headers",   \* the master is slow with headers, or they do not fit
           "insert",    \* InsertDag fails
           "cancel"}    \* the synchronisation is cancelled, or the node stops

Errors == {"cancelled", "badPeer", "stallingPeer", "noPeers", "peersUnavailable", "invalidChain"}

ASSUME SyncAssumption ==
  /\ IsFiniteSet(Peers) /\ Master \in Peers
  /\ None \notin Peers /\ None \notin Nat /\ None \notin Errors \union {"nil"}
  /\ N \in Nat
  /\ Environments \subseteq
       [ancestor : Nat,                \* the height of the common ancestor
        batches : (SUBSET (1..N)) \ {{}}, \* the last headers of the batches
        empty : SUBSET (1..N),         \* units without transactions
        limits : SUBSET (1..CacheItems), \* units that may fit into blockCacheMemory
        pivot : 0..N,                  \* 0 in FullSync
        faults : SUBSET Faults]
  /\ {CacheItems, MaxResults, MaxHeaders, MaxQueued, MinFullBlocks} \subseteq Nat \ {0}
  /\ MaxBlockFetch \in Nat /\ MaxBlockFetch >= 2
  /\ MaxJoins \in Nat

VARIABLES
  env,             \* the environment of this behaviour
  \* peerSet
  registered, idle,
  quick,           \* peers with a measured throughput
  lacks,           \* hashes a peer is known not to have
  joins,
  \* queue
  tasks,           \* blockTaskQueue
  pend,            \* blockPendPool: the units a peer was asked for, as they were popped
  orphans,         \* peers whose pending request was made over a connection that is gone
  cache,           \* units with an entry in resultCache
  done,            \* blockDonePool, the entries with Pending = 0
  offset,          \* resultOffset
  limit,           \* the part of resultCache that fits into blockCacheMemory
  closed,
  \* fetchHeaders and processHeaders
  from,            \* the next header to fetch
  headerProcCh,    \* a batch is the number of its last header, nil is 0
  batch,           \* the batch in processing, None between batches, 0 for nil
  scheduled,       \* the last unit given to Schedule
  \* fetchBodies
  bodyWakeCh, finished,
  fetch,           \* where fetchParts is, and the local variables of a pass
  \* processFullSyncContent or processFastSyncContent
  content, results,
  pivot, committed,
  imported,        \* units given to InsertDag
  \* Downloader
  cancelled,       \* cancelCh is closed
  quit,            \* quitCh is closed
  ended,           \* for each goroutine what it has put into errc, or None
  err              \* the first error in errc

peerVars == <<registered, idle, quick, lacks, joins>>
queueVars == <<tasks, pend, orphans, cache, done, offset, limit>>
headerVars == <<from, headerProcCh, batch, scheduled>>
fetchVars == <<bodyWakeCh, finished, fetch>>
contentVars == <<results, pivot, committed, imported>>
spawnVars == <<ended, err>>
vars == <<env, peerVars, queueVars, closed, headerVars, fetchVars, content, contentVars,
          cancelled, quit, spawnVars>>

Units == 1..N
Empty == env.empty \* isNoop: TxRoot is EmptyRootHash
Goroutines == {"fetchHeaders", "processHeaders", "fetchBodies", "content"}
Running(g) == ended[g] = None
Requested == UNION {pend[p] : p \in Peers}

\* The conversion of a height to a float32, whose mantissa has 24 bits: exact
\* up to 2^24, above it the nearest multiple of a power of two, and of two that
\* are equally near the one with the even mantissa.  Heights stay below 2^31.
ExactHeights == 16777216
Float32(height) ==
  LET unit == Max({u \in {2^e : e \in 0..7} : u * (ExactHeights \div 2) <= height})
      low == height \div unit
      rest == 2 * (height % unit)
  IN  IF height <= ExactHeights THEN height
      ELSE unit * (IF rest > unit \/ (rest = unit /\ low % 2 = 1) THEN low + 1 ELSE low)

\* The place of a unit in blockTaskQueue, whose priority is the negated float:
\* above 2^24 neighbours may have the same, and the heap leaves their order open.
Priority(n) == Float32(env.ancestor + n)

\* Mutant: the test of the index lets one height past the cache through.
CacheWindowOneMore == offset..(offset + CacheItems)

\* The units that have a place in resultCache.
CacheWindow == offset..(offset + CacheItems - 1)

\* S is taken from the front of T.
InFront(S, T) == \A n \in S, k \in T \ S : Priority(n) <= Priority(k)

\* Every variable is of its type: a request is no larger than a peer may be
\* asked for, and the cache holds units of its window alone.
TypeOK ==
  /\ env \in Environments
  /\ registered \subseteq Peers /\ idle \subseteq registered /\ quick \subseteq registered
  /\ lacks \in [Peers -> SUBSET Units] /\ joins \in 0..MaxJoins
  /\ tasks \subseteq Units /\ orphans \subseteq Peers
  /\ pend \in [Peers -> SUBSET Units] /\ \A p \in Peers : Cardinality(pend[p]) <= MaxBlockFetch
  /\ done \subseteq cache /\ cache \subseteq offset..(offset + CacheItems - 1)
  /\ offset \in 1..(N + 1) /\ limit \in 1..CacheItems /\ closed \in BOOLEAN
  /\ from \in 1..(N + 1) /\ headerProcCh \in {<<>>} \union {<<k>> : k \in 0..N}
  /\ batch \in (0..N) \union {None} /\ scheduled \in 0..N
  /\ bodyWakeCh \in {<<>>, <<TRUE>>, <<FALSE>>} /\ finished \in BOOLEAN
  /\ fetch \in [pc : {"select", "pending", "inFlight", "assign", "reserve"},
                todo : SUBSET Peers, peer : Peers \union {None}, progressed : BOOLEAN,
                throttled : BOOLEAN, running : BOOLEAN, all : BOOLEAN]
  /\ content \in {"results", "asleep", "import"} /\ results \subseteq Units
  /\ pivot \in 0..N /\ committed \in BOOLEAN /\ imported \subseteq Units
  /\ cancelled \in BOOLEAN /\ quit \in BOOLEAN
  /\ ended \in [Goroutines -> Errors \union {"nil", None}] /\ err \in Errors \union {"nil"}

Select == [pc |-> "select", todo |-> {}, peer |-> None, progressed |-> FALSE,
           throttled |-> FALSE, running |-> FALSE, all |-> FALSE]

\* Where syncWithPeer calls spawnSync: synchronise has reset the queue and the
\* peers and emptied the channels.  Reset keeps the size of a result that the
\* last synchronisation has measured.
Init ==
  /\ env \in Environments
  /\ registered = Peers
  /\ idle = registered /\ quick = {} /\ lacks = [p \in Peers |-> {}] /\ joins = 0
  /\ tasks = {} /\ pend = [p \in Peers |-> {}] /\ orphans = {}
  /\ cache = {} /\ done = {} /\ offset = 1 /\ limit \in {CacheItems} \union env.limits /\ closed = FALSE
  /\ from = 1 /\ headerProcCh = <<>> /\ batch = None /\ scheduled = 0
  /\ bodyWakeCh = <<>> /\ finished = FALSE /\ fetch = Select
  /\ content = "results" /\ results = {} /\ imported = {}
  /\ pivot = env.pivot /\ committed = (env.pivot = 0)
  /\ cancelled = FALSE /\ quit = FALSE
  /\ ended = [g \in Goroutines |-> None] /\ err = "nil"

\* A goroutine of spawnSync returns e.
Return(g, e) ==
  /\ ended' = [ended EXCEPT ![g] = e]
  /\ err' = IF err = "nil" THEN e ELSE err

\* Mutant: nobody signals the condition variable.
WokenNever == content

\* The condition variable active: Signal, which has at most one waiter.
Woken == IF content = "asleep" THEN "results" ELSE content

-----------------------------------------------------------------------------
(* The peers, as long as bodies are fetched: what they do later matters no  *)
(* more, except that the loss of the master cancels the rest, as Cancel.    *)

Finished == \A g \in Goroutines : ~Running(g)

\* RegisterPeer: a connection of p is new.  It is made after the pass of
\* fetchParts that saw the last connection of p has ended, and starts with
\* the average throughput of the others.
Register(p) ==
  /\ "leave" \in env.faults /\ Running("fetchBodies") /\ joins < MaxJoins
  /\ p \notin registered /\ p \notin fetch.todo /\ p # fetch.peer
  /\ registered' = registered \union {p} /\ idle' = idle \union {p}
  /\ lacks' = [lacks EXCEPT ![p] = {}]
  /\ quick' \in {quick, IF quick = {} THEN quick ELSE quick \union {p}}
  /\ joins' = joins + 1
  /\ orphans' = IF pend[p] = {} THEN orphans ELSE orphans \union {p}
  /\ UNCHANGED <<env, tasks, pend, cache, done, offset, limit, closed, headerVars, fetchVars,
                 content, contentVars, cancelled, quit, spawnVars>>

\* Mutant: an expired or revoked request is deleted, its tasks are forgotten.
ReturnedNothing(S) == tasks

\* The units of pending requests, returned to the task queue.
Returned(S) == tasks \union UNION {pend[p] : p \in S}
Cleared(S) == [p \in Peers |-> IF p \in S THEN {} ELSE pend[p]]

\* UnregisterPeer, called when the connection of p ends: Revoke returns its
\* tasks, and the loss of the master cancels the synchronisation.
Unregister(p) ==
  /\ "leave" \in env.faults /\ Running("fetchBodies") /\ p \in registered
  /\ registered' = registered \ {p} /\ idle' = idle \ {p} /\ quick' = quick \ {p}
  /\ tasks' = Returned({p}) /\ pend' = Cleared({p}) /\ orphans' = orphans \ {p}
  /\ cancelled' = (cancelled \/ p = Master)
  /\ UNCHANGED <<env, lacks, joins, cache, done, offset, limit, closed, headerVars, fetchVars,
                 content, contentVars, quit, spawnVars>>
-----------------------------------------------------------------------------
(* Headers *)

\* fetchHeaders hands a batch of headers to processHeaders.
FetchHeaders ==
  /\ Running("fetchHeaders") /\ headerProcCh = <<>>
  /\ \E k \in env.batches : k >= from /\ headerProcCh' = <<k>> /\ from' = k + 1
  /\ UNCHANGED <<env, peerVars, queueVars, closed, batch, scheduled, fetchVars, content, contentVars,
                 cancelled, quit, spawnVars>>

\* The master has no more headers, or none at all.  While the pivot is not committed the
\* request is repeated.
NoMoreHeaders ==
  /\ Running("fetchHeaders") /\ headerProcCh = <<>>
  /\ from \notin 2..Max(env.batches) /\ (committed \/ from < env.pivot)
  /\ headerProcCh' = <<0>> /\ Return("fetchHeaders", "nil")
  /\ UNCHANGED <<env, peerVars, queueVars, closed, from, batch, scheduled, fetchVars, content, contentVars,
                 cancelled, quit>>

\* The request timed out: the master is dropped, which cancels the
\* synchronisation, and the two channels are written to unless the select
\* sees the cancellation.
HeadersTimeout ==
  /\ "headers" \in env.faults /\ Running("fetchHeaders")
  /\ registered' = registered \ {Master} /\ idle' = idle \ {Master} /\ quick' = quick \ {Master}
  /\ LET dropped == {Master} \intersect registered
     IN tasks' = Returned(dropped) /\ pend' = Cleared(dropped) /\ orphans' = orphans \ dropped
  /\ cancelled' = TRUE
  /\ bodyWakeCh' \in {bodyWakeCh, IF bodyWakeCh = <<>> THEN <<FALSE>> ELSE bodyWakeCh}
  /\ headerProcCh' \in {headerProcCh, IF headerProcCh = <<>> THEN <<0>> ELSE headerProcCh}
  /\ Return("fetchHeaders", "badPeer")
  /\ UNCHANGED <<env, lacks, joins, cache, done, offset, limit, closed, from, batch, scheduled,
                 finished, fetch, content, contentVars, quit>>

\* The skeleton could not be filled.
SkeletonInvalid ==
  /\ "headers" \in env.faults /\ Running("fetchHeaders") /\ from <= Max(env.batches)
  /\ Return("fetchHeaders", "invalidChain")
  /\ UNCHANGED <<env, peerVars, queueVars, closed, headerVars, fetchVars, content, contentVars, cancelled, quit>>

\* processHeaders takes a batch, or nil, from the channel.
TakeHeaders ==
  /\ Running("processHeaders") /\ batch = None /\ headerProcCh # <<>>
  /\ batch' = Head(headerProcCh) /\ headerProcCh' = <<>>
  /\ UNCHANGED <<env, peerVars, queueVars, closed, from, scheduled, fetchVars, content, contentVars,
                 cancelled, quit, spawnVars>>

\* Schedule for a chunk of the batch, when few enough tasks are queued; after
\* the last chunk fetchBodies is woken, unless a wake-up is already there.
Schedule ==
  /\ Running("processHeaders") /\ batch # None /\ batch # 0
  /\ ~cancelled /\ Cardinality(tasks) < MaxQueued
  /\ scheduled' = Min({batch, scheduled + MaxHeaders})
  /\ tasks' = tasks \union (scheduled + 1)..scheduled'
  /\ batch' = IF scheduled' = batch THEN None ELSE batch
  /\ bodyWakeCh' = IF scheduled' = batch /\ bodyWakeCh = <<>> THEN <<TRUE>> ELSE bodyWakeCh
  /\ UNCHANGED <<env, peerVars, pend, orphans, cache, done, offset, limit, closed, from, headerProcCh,
                 finished, fetch, content, contentVars, cancelled, quit, spawnVars>>

\* A header of the chunk does not continue the chain: Schedule stops there.
HeadersStale ==
  /\ "headers" \in env.faults /\ Running("processHeaders") /\ batch # None /\ batch # 0
  /\ ~cancelled /\ Cardinality(tasks) < MaxQueued
  /\ scheduled' \in scheduled..(Min({batch, scheduled + MaxHeaders}) - 1)
  /\ tasks' = tasks \union (scheduled + 1)..scheduled'
  /\ Return("processHeaders", "badPeer")
  /\ UNCHANGED <<env, peerVars, pend, orphans, cache, done, offset, limit, closed, from, headerProcCh, batch,
                 fetchVars, content, contentVars, cancelled, quit>>

\* nil: fetchBodies is told, the send blocks while the channel is full.  A
\* master that gave no header at all is stalling, unless its units have been
\* imported by other means.
HeadersProcessed ==
  /\ Running("processHeaders") /\ batch = 0
  /\ \/ bodyWakeCh = <<>> /\ bodyWakeCh' = <<FALSE>>
     \/ cancelled /\ UNCHANGED bodyWakeCh
  /\ \/ Return("processHeaders", "nil")
     \/ scheduled = 0 /\ Return("processHeaders", "stallingPeer")
  /\ UNCHANGED <<env, peerVars, queueVars, closed, headerVars, finished, fetch, content, contentVars,
                 cancelled, quit>>

\* Every select of the two goroutines has the cancellation as an alternative.
CancelHeaders(g) ==
  /\ g \in {"fetchHeaders", "processHeaders"} /\ Running(g) /\ cancelled
  /\ g = "processHeaders" => batch # 0
  /\ Return(g, "cancelled")
  /\ UNCHANGED <<env, peerVars, queueVars, closed, headerVars, fetchVars, content, contentVars, cancelled, quit>>
-----------------------------------------------------------------------------
(* Bodies: fetchParts *)

\* Mutant: the slots of units that are being fetched count as free.
ResultSlotsUnfetched ==
  LET filled == {n \in offset..(offset + limit - 1) : offset..n \subseteq cache}
  IN  limit - Cardinality(filled \intersect done)

\* resultSlots: the part of the cache that fits into memory, less the slots
\* that are finished and those that are being fetched.
ResultSlots ==
  LET window == offset..(offset + limit - 1)
      filled == {n \in window : offset..n \subseteq cache}
  IN  limit - Cardinality(filled \intersect done)
            - Cardinality({n \in Requested : n < offset + limit})

\* Mutant: a peer that delivered nothing stays busy.
SetIdleIfUseful(p, sent) ==
  /\ idle' = IF sent = {} THEN idle ELSE idle \union {p}
  /\ quick' = IF sent = {} THEN quick \ {p} ELSE quick \union {p}

\* setIdle: after a delivery of nothing the throughput is the minimum.
SetIdle(p, sent) ==
  /\ idle' = idle \union {p}
  /\ quick' = IF sent = {} THEN quick \ {p} ELSE quick \union {p}

\* deliver: items from p are put to the first units that p is now asked for.
Deliver(p, sent) ==
  LET request == pend[p]
      accepted == {u \in sent : {k \in sent : Priority(k) <= Priority(u)} \subseteq cache}
  IN /\ Running("fetchBodies") /\ fetch.pc = "select" /\ p \in registered
     /\ sent \subseteq request /\ InFront(sent, request)
     /\ sent = {} => request = {} \/ "empty" \in env.faults
     /\ pend' = Cleared({p}) /\ orphans' = orphans \ {p}
     /\ lacks' = IF sent = {} /\ p \notin orphans
                 THEN [lacks EXCEPT ![p] = @ \union request] ELSE lacks
     /\ done' = done \union accepted
     /\ tasks' = tasks \union (request \ accepted)
     /\ content' = IF accepted # {} THEN Woken ELSE content
     /\ IF accepted = sent
        THEN SetIdle(p, sent) /\ UNCHANGED spawnVars
        ELSE Return("fetchBodies", "invalidChain") /\ UNCHANGED <<idle, quick>>
     /\ UNCHANGED <<env, registered, joins, cache, offset, limit, closed, headerVars, fetchVars,
                    contentVars, cancelled, quit>>

\* Mutant: the false that says there are no more headers is lost.
WakeGoesOn ==
  /\ Running("fetchBodies") /\ fetch.pc = "select" /\ bodyWakeCh # <<>>
  /\ bodyWakeCh' = <<>>
  /\ UNCHANGED <<env, peerVars, queueVars, closed, headerVars, finished, fetch, content, contentVars,
                 cancelled, quit, spawnVars>>

\* processHeaders says that there are new tasks, or with false that there will
\* be no more.
Wake ==
  /\ Running("fetchBodies") /\ fetch.pc = "select" /\ bodyWakeCh # <<>>
  /\ finished' = (finished \/ ~Head(bodyWakeCh)) /\ bodyWakeCh' = <<>>
  /\ UNCHANGED <<env, peerVars, queueVars, closed, headerVars, fetch, content, contentVars,
                 cancelled, quit, spawnVars>>

CancelBodies ==
  /\ Running("fetchBodies") /\ fetch.pc = "select" /\ cancelled
  /\ Return("fetchBodies", "cancelled")
  /\ UNCHANGED <<env, peerVars, queueVars, closed, headerVars, fetchVars, content, contentVars, cancelled, quit>>

\* The ticker: a pass begins by expiring the requests of the peers in late.
\* A peer that was asked for more than two units is only slowed down.
BeginPass(late) ==
  LET dropped == {p \in late \intersect registered : Cardinality(pend[p]) <= 2}
  IN /\ Running("fetchBodies") /\ fetch.pc = "select" /\ registered # {}
     /\ late \subseteq {p \in Peers : pend[p] # {}}
     /\ tasks' = Returned(late) /\ pend' = Cleared(late) /\ orphans' = orphans \ late
     /\ registered' = registered \ dropped
     /\ idle' = (idle \union (late \intersect registered)) \ dropped
     /\ quick' = quick \ late
     /\ cancelled' = (cancelled \/ Master \in dropped)
     /\ fetch' = [fetch EXCEPT !.pc = "pending"]
     /\ UNCHANGED <<env, lacks, joins, cache, done, offset, limit, closed, headerVars, bodyWakeCh, finished,
                    content, contentVars, quit, spawnVars>>

NoPeers ==
  /\ Running("fetchBodies") /\ fetch.pc = "select" /\ registered = {}
  /\ Return("fetchBodies", "noPeers")
  /\ UNCHANGED <<env, peerVars, queueVars, closed, headerVars, fetchVars, content, contentVars, cancelled, quit>>

\* pending() and, with tasks, what the rest of the pass starts from.
CheckPending ==
  /\ Running("fetchBodies") /\ fetch.pc = "pending"
  /\ fetch' = IF tasks = {} THEN [fetch EXCEPT !.pc = "inFlight"]
              ELSE [Select EXCEPT !.pc = "assign", !.todo = idle,
                                  !.running = (Requested # {}), !.all = (idle = registered)]
  /\ UNCHANGED <<env, peerVars, queueVars, closed, headerVars, bodyWakeCh, finished, content, contentVars,
                 cancelled, quit, spawnVars>>

\* Mutant: the requests under way are not waited for.
CheckInFlightNot ==
  /\ Running("fetchBodies") /\ fetch.pc = "inFlight"
  /\ fetch' = Select
  /\ IF finished THEN Return("fetchBodies", "nil") ELSE UNCHANGED spawnVars
  /\ UNCHANGED <<env, peerVars, queueVars, closed, headerVars, bodyWakeCh, finished, content, contentVars,
                 cancelled, quit>>

\* inFlight(), asked after pending() has returned zero.
CheckInFlight ==
  /\ Running("fetchBodies") /\ fetch.pc = "inFlight"
  /\ fetch' = Select
  /\ IF Requested = {} /\ finished THEN Return("fetchBodies", "nil") ELSE UNCHANGED spawnVars
  /\ UNCHANGED <<env, peerVars, queueVars, closed, headerVars, bodyWakeCh, finished, content, contentVars,
                 cancelled, quit>>

\* The loop over the idle peers, up to the reservation: throttle() and
\* pending() end it.
NextPeer(p) ==
  /\ Running("fetchBodies") /\ fetch.pc = "assign" /\ p \in fetch.todo
  /\ fetch' = IF ResultSlots <= 0 THEN [fetch EXCEPT !.todo = {}, !.throttled = TRUE]
              ELSE IF tasks = {} THEN [fetch EXCEPT !.todo = {}]
              ELSE [fetch EXCEPT !.pc = "reserve", !.todo = @ \ {p}, !.peer = p]
  /\ UNCHANGED <<env, peerVars, queueVars, closed, headerVars, bodyWakeCh, finished, content, contentVars,
                 cancelled, quit, spawnVars>>

\* BlockCapacity: one more than the throughput, which is at least one.
Capacity(p) == IF p \in quick THEN 2..MaxBlockFetch ELSE {2}

\* reserveHeaders goes on when it has taken the tasks S off the queue: slots are
\* left, of which empty units also use one, and fewer than count are to be sent.
GoesOn(p, count, S) ==
  /\ Cardinality(S) < ResultSlots
  /\ Cardinality(S \ (Empty \union lacks[p])) < count
  /\ S # tasks

\* The sets of tasks it may take off the queue until it ends, or fails at the
\* last of them, which has no place in the cache.
Popped(p, count) ==
  {S \in SUBSET tasks :
     IF S = {} THEN ~GoesOn(p, count, S)
     ELSE /\ InFront(S, tasks)
          /\ \E last \in S :
               /\ InFront(S \ {last}, S) /\ GoesOn(p, count, S \ {last})
               /\ \A n \in S \ {last} : n \in CacheWindow
               /\ last \in CacheWindow => ~GoesOn(p, count, S)}

\* ReserveBodies and FetchBodies.  If p has left meanwhile, the request is
\* entered nevertheless.
Reserve(count, popped) ==
  LET p == fetch.peer
      fits == popped \intersect CacheWindow
      send == popped \ (Empty \union lacks[p])
  IN /\ Running("fetchBodies") /\ fetch.pc = "reserve" /\ count \in Capacity(p)
     /\ IF pend[p] = {} THEN popped \in Popped(p, count) ELSE popped = {}
     /\ cache' = cache \union fits
     /\ done' = done \union (fits \intersect Empty)
     /\ IF fits # popped
        THEN /\ tasks' = tasks \ popped
             /\ Return("fetchBodies", "invalidChain")
             /\ UNCHANGED <<pend, idle, content, fetch>>
        ELSE /\ tasks' = tasks \ (send \union (Empty \intersect popped))
             /\ pend' = IF send = {} THEN pend ELSE [pend EXCEPT ![p] = send]
             /\ idle' = IF send = {} THEN idle ELSE idle \ {p}
             /\ content' = IF popped \intersect Empty # {} THEN Woken ELSE content
             /\ fetch' = [fetch EXCEPT !.pc = "assign", !.peer = None,
                                       !.progressed = @ \/ popped \intersect Empty # {},
                                       !.running = @ \/ send # {}]
             /\ UNCHANGED spawnVars
     /\ UNCHANGED <<env, registered, quick, lacks, joins, orphans, offset, limit, closed, headerVars,
                    bodyWakeCh, finished, contentVars, cancelled, quit>>

\* Mutant: running is not looked at.
EndPassHastily ==
  /\ Running("fetchBodies") /\ fetch.pc = "assign" /\ fetch.todo = {}
  /\ fetch' = Select
  /\ IF ~fetch.progressed /\ ~fetch.throttled /\ tasks # {}
     THEN Return("fetchBodies", "peersUnavailable") ELSE UNCHANGED spawnVars
  /\ UNCHANGED <<env, peerVars, queueVars, closed, headerVars, bodyWakeCh, finished, content, contentVars,
                 cancelled, quit>>

\* All idle peers have been tried.
EndPass ==
  /\ Running("fetchBodies") /\ fetch.pc = "assign" /\ fetch.todo = {}
  /\ fetch' = Select
  /\ IF ~fetch.progressed /\ ~fetch.throttled /\ ~fetch.running /\ fetch.all /\ tasks # {}
     THEN Return("fetchBodies", "peersUnavailable") ELSE UNCHANGED spawnVars
  /\ UNCHANGED <<env, peerVars, queueVars, closed, headerVars, bodyWakeCh, finished, content, contentVars,
                 cancelled, quit>>
-----------------------------------------------------------------------------
(* Results: processFullSyncContent, and processFastSyncContent with a pivot *)

\* Mutant: an item whose body is still to come does not end the count.
ProcessableGaps == {n \in done : offset..n \subseteq cache}

\* countProcessableItems
Processable == {n \in cache : offset..n \subseteq done}

\* Results finds nothing and waits on the condition variable.
Sleep ==
  /\ Running("content") /\ content = "results" /\ Processable = {} /\ ~closed
  /\ content' = "asleep"
  /\ UNCHANGED <<env, peerVars, queueVars, closed, headerVars, fetchVars, contentVars, cancelled, quit, spawnVars>>

\* Results takes the finished units at the front of the cache and moves the
\* window on; their size changes the number of units that fit into memory.
Results ==
  /\ Running("content") /\ content = "results" /\ Processable # {}
  /\ results' = {n \in Processable : n < offset + MaxResults}
  /\ offset' = Max(results') + 1
  /\ cache' = cache \ results' /\ done' = done \ results'
  /\ limit' \in env.limits
  /\ content' = "import"
  /\ UNCHANGED <<env, peerVars, tasks, pend, orphans, closed, headerVars, fetchVars, pivot, committed,
                 imported, cancelled, quit, spawnVars>>

\* The queue is closed and has nothing more.
NoResults ==
  /\ Running("content") /\ content = "results" /\ Processable = {} /\ closed
  /\ Return("content", "nil")
  /\ UNCHANGED <<env, peerVars, queueVars, closed, headerVars, fetchVars, content, contentVars, cancelled, quit>>

\* Until the pivot is committed it follows the last unit of a batch.
MovedPivot == IF ~committed /\ Max(results) > pivot + 2 * MinFullBlocks
              THEN Max(results) - MinFullBlocks ELSE pivot

\* The units of a batch that are given to InsertDag, in their order:
\* commitFastSyncData those before the pivot, commitPivotBlock the pivot, and
\* importBlockResults those after it.  What follows the pivot in its batch
\* becomes oldTail, which is not looked at again because oldPivot is nil.
Inserts == IF MovedPivot \in results THEN {n \in results : n <= MovedPivot} ELSE results

Import ==
  /\ Running("content") /\ content = "import"
  /\ quit => Min(results) = MovedPivot
  /\ imported' = imported \union Inserts
  /\ pivot' = MovedPivot /\ committed' = (committed \/ MovedPivot \in results)
  /\ results' = {} /\ content' = "results"
  /\ UNCHANGED <<env, peerVars, queueVars, closed, headerVars, fetchVars, cancelled, quit, spawnVars>>

\* commitFastSyncData and importBlockResults look at quitCh first.
ImportQuits ==
  /\ Running("content") /\ content = "import"
  /\ quit /\ Min(results) # MovedPivot
  /\ Return("content", "cancelled")
  /\ UNCHANGED <<env, peerVars, queueVars, closed, headerVars, fetchVars, content, contentVars, cancelled, quit>>

\* InsertDag fails for one of the units.
ImportFails ==
  /\ "insert" \in env.faults /\ Running("content") /\ content = "import"
  /\ quit => Min(results) = MovedPivot
  /\ \E n \in Inserts : imported' = imported \union {k \in Inserts : k < n}
  /\ Return("content", "invalidChain")
  /\ UNCHANGED <<env, peerVars, queueVars, closed, headerVars, fetchVars, content, results, pivot, committed,
                 cancelled, quit>>
-----------------------------------------------------------------------------
(* spawnSync, cancellation and shutdown *)

\* spawnSync closes the queue when only one goroutine is left, and on the
\* first error, when it also cancels the others.
CloseQueue ==
  /\ \/ err = "nil" /\ Cardinality({g \in Goroutines : ~Running(g)}) = 3
        /\ ~closed /\ UNCHANGED cancelled
     \/ err # "nil" /\ ~(closed /\ cancelled) /\ cancelled' = TRUE
  /\ closed' = TRUE /\ content' = Woken
  /\ UNCHANGED <<env, peerVars, queueVars, headerVars, fetchVars, contentVars, quit, spawnVars>>

\* Cancel, called when the node stops synchronising.
Cancel ==
  /\ "cancel" \in env.faults /\ ~Finished /\ ~cancelled /\ cancelled' = TRUE
  /\ UNCHANGED <<env, peerVars, queueVars, closed, headerVars, fetchVars, content, contentVars, quit, spawnVars>>

Terminate ==
  /\ "cancel" \in env.faults /\ ~Finished /\ ~quit /\ quit' = TRUE /\ cancelled' = TRUE
  /\ UNCHANGED <<env, peerVars, queueVars, closed, headerVars, fetchVars, content, contentVars, spawnVars>>
-----------------------------------------------------------------------------
HeaderStep == FetchHeaders \/ NoMoreHeaders \/ HeadersTimeout \/ SkeletonInvalid \/ CancelHeaders("fetchHeaders")
ProcessStep == TakeHeaders \/ Schedule \/ HeadersStale \/ HeadersProcessed \/ CancelHeaders("processHeaders")
ContentStep == Sleep \/ Results \/ NoResults \/ Import \/ ImportQuits \/ ImportFails
PassStep == \/ CheckPending \/ CheckInFlight \/ EndPass
            \/ \E p \in Peers : NextPeer(p)
            \/ \E count \in 2..MaxBlockFetch, popped \in SUBSET tasks : Reserve(count, popped)
Expire(p) == \E late \in SUBSET Peers : p \in late /\ BeginPass(late)

Next ==
  \/ \E p \in Peers : Register(p) \/ Unregister(p)
  \/ HeaderStep \/ ProcessStep
  \/ \E p \in Peers : \E sent \in SUBSET pend[p] : Deliver(p, sent)
  \/ \E late \in SUBSET Peers : BeginPass(late)
  \/ Wake \/ CancelBodies \/ NoPeers \/ PassStep
  \/ ContentStep
  \/ CloseQueue \/ Cancel \/ Terminate

Spec == Init /\ [][Next]_vars

\* Every goroutine goes on; the select of fetchParts is not unfair to one of
\* its channels, its ticker goes on, and a request that is not answered is
\* expired by a pass that begins after its TTL.
FairSpec ==
  /\ Spec
  /\ WF_vars(HeaderStep) /\ WF_vars(ProcessStep) /\ WF_vars(ContentStep) /\ WF_vars(CloseQueue)
  /\ WF_vars(PassStep) /\ WF_vars(BeginPass({}) \/ NoPeers)
  /\ SF_vars(Wake) /\ SF_vars(CancelBodies)
  /\ \A p \in Peers : SF_vars(Expire(p))
-----------------------------------------------------------------------------
(* Properties *)

\* Tasks are neither lost nor doubled, whatever the order in which requests
\* are answered, expired and revoked: a scheduled unit is in the task queue,
\* in the request of exactly one peer, or fetched.  Only a reservation that
\* fails loses what it has popped, and ends the download.
TaskPartition ==
  /\ tasks \union Requested \union done \subseteq offset..scheduled
  /\ ended["fetchBodies"] # "invalidChain" => offset..scheduled \subseteq tasks \union Requested \union done
  /\ tasks \intersect Requested = {} /\ (tasks \union Requested) \intersect done = {}
  /\ \A p, q \in Peers : p # q => pend[p] \intersect pend[q] = {}

\* Heights are within what a float32 holds exactly.
HeightsExact == env.ancestor + N <= ExactHeights

\* The download never ends because of its own bookkeeping: no accepted body
\* falls outside the window that Results moves on, and, as long as the heights
\* are exact priorities, no reservation goes beyond the cache.
WindowKept == Requested \subseteq cache /\ (HeightsExact => ended["fetchBodies"] # "invalidChain")

\* fetchParts panics when it asks a peer twice, and never asks a peer again
\* that is left busy without a request.
IdleMatchesRequests ==
  /\ fetch.peer \in registered => fetch.peer \in idle
  /\ \A p \in registered \ idle : pend[p] # {}

\* Results sleeps only while the queue is open and there is nothing to take,
\* except what the reservation found that failed, whose error closes the queue.
NoLostWakeup ==
  content = "asleep" => ~closed /\ (Processable = {} \/ ended["fetchBodies"] = "invalidChain")

\* In FullSync units are imported without a gap in the order of their numbers,
\* and what Results has taken is imported or about to be: the window, which
\* only moves on, is the boundary between what was taken and what was not.
ImportedInOrder ==
  env.pivot = 0 => /\ imported = 1..Cardinality(imported)
                   /\ imported \union results = 1..(offset - 1)

\* A synchronisation that ends without an error has imported every unit whose
\* header was scheduled.
SyncIsComplete == Finished /\ err = "nil" => imported = 1..scheduled

\* The same for FullSync when no connection is lost but those that fetchParts
\* itself drops.
SuccessIsComplete == env.pivot = 0 /\ "leave" \notin env.faults => SyncIsComplete

\* fetchParts gives up for want of peers only when no request is under way and
\* every connected peer is known to lack a first unit of the task queue.  This
\* is so if no peer joins during the pass, and the memory limit does not fall
\* between throttle() and reserve(), which makes a reservation come back empty.
GivesUpForWant ==
  [][Running("fetchBodies") /\ ended'["fetchBodies"] = "peersUnavailable" =>
       /\ Requested = {}
       /\ joins = 0 /\ env.limits = {CacheItems} =>
            \A p \in registered : \E n \in tasks \intersect lacks[p] : InFront({n}, tasks)]_vars

\* Whatever happens to peers and channels, all four goroutines return and
\* synchronise ends.
SyncEnds == <>Finished
=============================================================================
