------------------------------- MODULE Fetcher -------------------------------
(***************************************************************************)
(* The unit fetcher of ptn/fetcher/fetcher.go: announcements are gathered, *)
(* headers and bodies are retrieved, and units are queued for import in    *)
(* the order of their numbers.                                             *)
(*                                                                         *)
(* One goroutine (loop) owns all of the fetcher's state, the record f.     *)
(* Every iteration ends with the clean-up and import pass at the top of    *)
(* the loop, so every action is one select branch followed by that pass.   *)
(* Imports run in goroutines of their own.  Peers may send anything at any *)
(* time, so messages that are lost, late, repeated or unsolicited are all  *)
(* covered.                                                                *)
(***************************************************************************)
EXTENDS Integers, FiniteSets

CONSTANTS
  Peers, None,
  Hashes,       \* the units that exist, by hash
  Number,       \* the height of each unit
  Parents,      \* the parents of each unit, as a set of hashes
  BlockLimit, MaxQueueDist,
  Nets          \* the situations of the node, records with the fields of Net

\* peers are connected, empty are the units without transactions (TxRoot of the
\* empty list), fair says that timers and goroutines are known to run.  The last
\* two are bounds: how far below zero an announce counter may drift, and how
\* often a peer repeats an announcement.
Net == [peers : SUBSET Peers, empty : SUBSET Hashes, fair : BOOLEAN, hashLimit : Nat \ {0},
        maxUncleDist : Nat, maxDrift : Nat, maxCopies : Nat]

ASSUME FetcherAssumption ==
  /\ IsFiniteSet(Hashes) /\ IsFiniteSet(Peers) /\ None \notin Peers
  /\ Number \in [Hashes -> Nat \ {0}]
  /\ Parents \in [Hashes -> SUBSET Hashes]
  /\ BlockLimit \in Nat \ {0} /\ MaxQueueDist \in Nat \ {0}
  /\ \A n \in Nets : n \in Net

VARIABLES
  f,            \* the Fetcher: its maps, its queue and its two timers
  importing,    \* units whose insert goroutine is running
  finished,     \* units whose insert goroutine is sending on f.done
  known,        \* units in the chain database (getBlock)
  height,       \* the number of the current unit (chainHeight)
  stopped,      \* f.quit is closed and the loop has returned
  net           \* the situation, one of Nets

vars == <<f, importing, finished, known, height, stopped, net>>
restVars == <<known, height, net>>

\* The hashes that one of the maps announced, fetching, ... has an entry for.
Announced(g) == {h \in Hashes : \E p \in Peers : g.announced[h][p] > 0}
Entries(map) == {h \in Hashes : map[h] # None}

\* A map from hashes to the peer of the entry.
Map == [Hashes -> Peers \union {None}]

(* The maps are partial functions from hashes to the announcing peer, the   *)
(* counters are per peer.                                                   *)
TypeOK ==
  /\ f \in [announces : [Peers -> Int], announced : [Hashes -> [Peers -> Nat]],
            fetching : Map, fetched : Map, completing : Map,
            queue : SUBSET Hashes, queues : [Peers -> Nat], queued : Map,
            fetchTimer : BOOLEAN, completeTimer : BOOLEAN]
  /\ importing \subseteq Hashes
  /\ finished \subseteq Hashes
  /\ known \subseteq Hashes
  /\ height \in Nat
  /\ stopped \in BOOLEAN
  /\ net \in Nets

\* New, and the two timers that loop creates with duration zero.
Init ==
  /\ f = [announces |-> [p \in Peers |-> 0],
          announced |-> [h \in Hashes |-> [p \in Peers |-> 0]],
          fetching |-> [h \in Hashes |-> None], fetched |-> [h \in Hashes |-> None],
          completing |-> [h \in Hashes |-> None],
          queue |-> {}, queues |-> [p \in Peers |-> 0],
          queued |-> [h \in Hashes |-> None],
          fetchTimer |-> TRUE, completeTimer |-> TRUE]
  /\ importing = {}
  /\ finished = {}
  /\ known = {}
  /\ height = 0
  /\ stopped = FALSE
  /\ net \in Nets

-----------------------------------------------------------------------------
(* The helpers of the loop *)

Without(map, S) == [h \in Hashes |-> IF h \in S THEN None ELSE map[h]]

Of(map, p, S) == {h \in S : map[h] = p}

\* How often forgetHash takes one off the announce counter of p, for the hashes
\* of S: for every announcement of p, and for its entries in the other maps.
Charges(g, S, p) ==
  Cardinality({c \in S \X (1 .. net.maxCopies) : c[2] <= g.announced[c[1]][p]})
    + Cardinality(Of(g.fetching, p, S)) + Cardinality(Of(g.fetched, p, S))
    + Cardinality(Of(g.completing, p, S))

\* forgetHash, for every hash of S.
ForgetHashes(g, S) ==
  [g EXCEPT
     !.announces = [p \in Peers |-> @[p] - Charges(g, S, p)],
     !.announced = [h \in Hashes |->
                      IF h \in S THEN [p \in Peers |-> 0] ELSE @[h]],
     !.fetching = Without(@, S),
     !.fetched = Without(@, S),
     !.completing = Without(@, S)]

\* Mutant: the unit stays recorded as queued.
ForgetBlocksKeeps(g, S) ==
  [g EXCEPT
     !.queues = [p \in Peers |-> @[p] - Cardinality(Of(g.queued, p, S))]]

\* forgetBlock, for every hash of S.
ForgetBlocks(g, S) ==
  [g EXCEPT
     !.queues = [p \in Peers |-> @[p] - Cardinality(Of(g.queued, p, S))],
     !.queued = Without(@, S)]

\* The distance check of announcements and of enqueue.
Near(h) == Number[h] - height \in (0 - net.maxUncleDist) .. MaxQueueDist

\* Mutant: the allowance is not checked.
AcceptableAll(g, p, S) == {{h \in S : Near(h)}}

\* What enqueue may accept of the units S of peer p, which it goes through in
\* an arbitrary order: near ones, up to the peer's allowance.
Acceptable(g, p, S) ==
  LET near == {h \in S : Near(h)} IN
  {A \in SUBSET near :
     Cardinality(A) = IF Cardinality(near) <= BlockLimit - g.queues[p]
                      THEN Cardinality(near) ELSE BlockLimit - g.queues[p]}

\* Mutant: a unit that is being imported may be queued again.
EnqueueAgain(g, p, S, A) ==
  LET new == {h \in A : g.queued[h] = None \/ h \notin g.queue} IN
  [ForgetHashes(g, S \ A) EXCEPT
     !.queues[p] = @ + Cardinality({h \in new : g.queued[h] # p}),
     !.queued = [h \in Hashes |-> IF h \in new THEN p ELSE @[h]],
     !.queue = @ \union new]

\* enqueue for every unit of S, of which it accepts A.
Enqueue(g, p, S, A) ==
  LET new == {h \in A : g.queued[h] = None} IN
  [ForgetHashes(g, S \ A) EXCEPT
     !.queues[p] = @ + Cardinality(new),
     !.queued = [h \in Hashes |-> IF h \in new THEN p ELSE @[h]],
     !.queue = @ \union new]

\* Mutant: the timer is not set again when it fires with hashes left.
RescheduleFetchNever(g) == g

RescheduleFetch(g) ==
  [g EXCEPT !.fetchTimer = @ \/ Announced(g) # {}]

RescheduleComplete(g) ==
  [g EXCEPT !.completeTimer = @ \/ Entries(g.fetched) # {}]

\* The queued units that the pass at the top of the loop takes off the queue.
Ready(g) == {h \in g.queue : Number[h] <= height + 1}
Stale(g) == {h \in Ready(g) : Number[h] + net.maxUncleDist < height \/ h \in known}

\* The end of an iteration whose select branch left the given state: the top of
\* the loop forgets the fetches that timed out, any of them, and starts imports.
Loop(branch) ==
  /\ ~stopped
  /\ \E g \in {branch} :
       /\ importing' = importing \union (Ready(g) \ Stale(g))
       /\ \E expired \in SUBSET Entries(g.fetching) :
            f' = [ForgetBlocks(ForgetHashes(g, expired), Stale(g)) EXCEPT
                    !.queue = @ \ Ready(g)]

-----------------------------------------------------------------------------
(* The select branches *)

\* Mutant: a hash that is waiting for its body may be announced again.
IgnoredFetching(p, h) ==
  \/ f.announces[p] + 1 > net.hashLimit
  \/ f.fetching[h] # None

\* The early exits of the notify branch other than the distance check, which
\* does not apply to an announcement without a number.
Ignored(p, h) ==
  \/ f.announces[p] + 1 > net.hashLimit
  \/ f.fetching[h] # None
  \/ f.completing[h] # None

Announce(p, h) ==
  LET g == [f EXCEPT !.announces[p] = @ + 1, !.announced[h][p] = @ + 1] IN
  IF Cardinality(Announced(g)) = 1 THEN RescheduleFetch(g) ELSE g

\* A peer announces h, truthfully or not.
Notify(p, h) ==
  /\ f.announces[p] >= 0 - net.maxDrift /\ f.announced[h][p] < net.maxCopies
  /\ Loop(IF Ignored(p, h) THEN f ELSE Announce(p, h))
  /\ UNCHANGED <<finished, restVars, stopped>>

\* An announcement that the distance check turns down.
NotifyFar(p, h) ==
  /\ ~Near(h)
  /\ Loop(f)
  /\ UNCHANGED <<finished, restVars, stopped>>

\* A peer propagates the whole unit.
Inject(p, h) ==
  /\ \E A \in Acceptable(f, p, {h}) :
       Loop(Enqueue(f, p, {h}, A))
  /\ UNCHANGED <<finished, restVars, stopped>>

\* The loop receives from f.done.
Done(h) ==
  /\ h \in finished
  /\ finished' = finished \ {h}
  /\ Loop(ForgetBlocks(ForgetHashes(f, {h}), {h}))
  /\ UNCHANGED <<restVars, stopped>>

\* The fetch timer fires; due are the hashes whose first announcement is old
\* enough, from[h] is the announcement picked at random.
FetchTimer(due, from) ==
  LET g == ForgetHashes([f EXCEPT !.fetchTimer = FALSE], due) IN
  /\ f.fetchTimer
  /\ UNCHANGED <<finished, restVars, stopped>>
  /\ due \subseteq Announced(f)
  /\ \A h \in due : f.announced[h][from[h]] > 0
  /\ Loop(RescheduleFetch(
       [g EXCEPT !.fetching = [h \in Hashes |->
                                 IF h \in due \ known THEN from[h] ELSE @[h]]]))

\* The completion timer fires: all bodies are requested.
CompleteTimer ==
  LET due == Entries(f.fetched)
      g == ForgetHashes([f EXCEPT !.completeTimer = FALSE], due) IN
  /\ f.completeTimer
  /\ UNCHANGED <<finished, restVars, stopped>>
  /\ Loop(RescheduleComplete(
       [g EXCEPT !.completing = [h \in Hashes |->
                                   IF h \in due \ known THEN f.fetched[h] ELSE @[h]]]))

\* Is the header of h from peer p one the fetcher waits for?
Requested(p, h) ==
  /\ f.fetching[h] = p
  /\ f.fetched[h] = None /\ f.completing[h] = None /\ f.queued[h] = None

\* A header that is not the fetcher's goes back to the caller.
UnknownHeader(p, h) ==
  /\ ~Requested(p, h)
  /\ Loop(f)
  /\ UNCHANGED <<finished, restVars, stopped>>

\* The header has another number than was announced (the peer is dropped), or
\* the unit arrived by other means: the announcement is forgotten.
UselessHeader(p, h) ==
  /\ Requested(p, h)
  /\ Loop(ForgetHashes(f, {h}))
  /\ UNCHANGED <<finished, restVars, stopped>>

\* A header without transactions is a complete unit.
CompleteHeader(p, h) ==
  /\ Requested(p, h) /\ h \notin known /\ h \in net.empty
  /\ LET g == [f EXCEPT !.completing[h] = p] IN
     \E A \in Acceptable(g, p, {h}) :
       Loop(Enqueue(g, p, {h}, A))
  /\ UNCHANGED <<finished, restVars, stopped>>

\* Any other header waits for the completion timer.
IncompleteHeader(p, h) ==
  /\ Requested(p, h) /\ h \notin known /\ h \notin net.empty
  /\ LET g == [f EXCEPT !.fetched[h] = p] IN
     Loop(IF Cardinality(Entries(g.fetched)) = 1 THEN RescheduleComplete(g) ELSE g)
  /\ UNCHANGED <<finished, restVars, stopped>>

\* Bodies arrive from p.  Each is taken for the body of every unit that p was
\* asked to complete; those that the chain has are forgotten, the others
\* queued.  With several bodies a unit is queued once more, which has no effect
\* unless the allowance is used up: then its hash is forgotten.
Bodies(p, several) ==
  LET matched == {h \in Entries(f.completing) : f.completing[h] = p /\ f.queued[h] = None}
      g == ForgetHashes(f, matched \intersect known) IN
  /\ \E A \in Acceptable(g, p, matched \ known) :
       LET e == Enqueue(g, p, matched \ known, A) IN
       Loop(IF several /\ e.queues[p] = BlockLimit THEN ForgetHashes(e, A) ELSE e)
  /\ UNCHANGED <<finished, restVars, stopped>>

Stop ==
  /\ ~stopped
  /\ stopped' = TRUE
  /\ UNCHANGED <<f, importing, finished, restVars>>

-----------------------------------------------------------------------------
(* The insert goroutines and the rest of the node *)

\* insert succeeds: InsertDag stored the unit and moved the head to it.
Insert(h) ==
  /\ h \in importing /\ h \notin known
  /\ Parents[h] \subseteq known
  /\ known' = known \union {h}
  /\ height' = Number[h]
  /\ importing' = importing \ {h}
  /\ finished' = finished \union {h}
  /\ UNCHANGED <<f, stopped, net>>

\* A parent is missing, the header does not verify, InsertDag fails (as it
\* does for a unit the chain has), or fast synchronisation discards the unit.
InsertFails(h) ==
  /\ h \in importing
  /\ importing' = importing \ {h}
  /\ finished' = finished \union {h}
  /\ UNCHANGED <<f, restVars, stopped>>

\* The downloader or the production loop stores a unit.
ChainGrows(h) ==
  /\ h \notin known
  /\ Parents[h] \subseteq known
  /\ known' = known \union {h}
  /\ height' = Number[h]
  /\ UNCHANGED <<f, importing, finished, stopped, net>>

Next ==
  \/ \E p \in net.peers, h \in Hashes :
       \/ Notify(p, h) \/ NotifyFar(p, h) \/ Inject(p, h)
       \/ UnknownHeader(p, h) \/ UselessHeader(p, h)
       \/ CompleteHeader(p, h) \/ IncompleteHeader(p, h)
  \/ \E p \in net.peers, several \in BOOLEAN : Bodies(p, several)
  \/ \E h \in Hashes : Done(h) \/ Insert(h) \/ InsertFails(h) \/ ChainGrows(h)
  \/ \E due \in SUBSET Announced(f) : \E from \in [due -> net.peers] : FetchTimer(due, from)
  \/ CompleteTimer
  \/ Stop

Spec == Init /\ [][Next]_vars

\* The fetch timer fires for h: h is due, and so may be some of the others.
Fetches(h) ==
  \E due \in SUBSET Announced(f) :
    h \in due /\ \E from \in [due -> net.peers] : FetchTimer(due, from)

\* The timers fire, goroutines run to their end and the loop receives what they
\* send; nothing is assumed of peers.  The time of a hash's first announcement
\* does not change while it waits, so a firing of the timer finds it due, no
\* matter what else has been announced, fetched or announced again before.
FairSpec ==
  /\ Spec
  /\ \A h \in Hashes : WF_vars(net.fair /\ Fetches(h))
  /\ WF_vars(net.fair /\ CompleteTimer)
  /\ \A h \in Hashes : /\ WF_vars(net.fair /\ (Insert(h) \/ InsertFails(h)))
                       /\ WF_vars(net.fair /\ Done(h))

-----------------------------------------------------------------------------
(* Properties *)

(* A peer's queue counter is the number of its units in the fetcher, waiting *)
(* or being imported, through every path that queues and forgets units, and *)
(* it respects the allowance (enqueue, forgetBlock).  The maps and the other *)
(* counters are well typed.                                                  *)
QueueAccounting ==
  /\ TypeOK
  /\ \A p \in Peers : /\ f.queues[p] = Cardinality(Of(f.queued, p, Hashes))
                      /\ f.queues[p] <= BlockLimit

(* A unit that the fetcher has accepted is in exactly one place: the queue,  *)
(* a running import, or an import that has to be acknowledged.  So no unit   *)
(* is imported by two goroutines at once, and none is lost from the queue    *)
(* while its allowance is still charged.                                     *)
ImportedOnce ==
  /\ Entries(f.queued) = f.queue \union importing \union finished
  /\ f.queue \intersect (importing \union finished) = {}
  /\ importing \intersect finished = {}

(* Timers are only set on the first entry and when they fire, and entries    *)
(* are also removed behind a timer's back; still no announcement and no      *)
(* header ever waits with its timer off.                                     *)
NoLostWakeup ==
  /\ Announced(f) # {} => f.fetchTimer
  /\ Entries(f.fetched) # {} => f.completeTimer

(* A hash is announced, or being fetched, or being completed, never two of   *)
(* these (but for units without transactions, which are completing while     *)
(* the fetch is still recorded), and a header waits for its body only while  *)
(* the fetch that brought it is recorded, under the same peer.               *)
OnePhase ==
  \A h \in Hashes :
    /\ h \in Announced(f) => f.fetching[h] = None /\ f.completing[h] = None
    /\ f.fetched[h] # None => f.fetching[h] = f.fetched[h] /\ f.completing[h] = None
    /\ f.fetching[h] # None /\ f.completing[h] # None => h \in net.empty

(* While the fetcher runs, no announcement waits forever, whatever peers do, *)
(* if the timers fire and the loop gets to run.                              *)
AnnouncementsHandled ==
  \A h \in Hashes : net.fair /\ h \in Announced(f) ~> (h \notin Announced(f) \/ stopped)

(* While the fetcher runs, every import gives the peer's allowance back, if  *)
(* the goroutines of the imports end.                                        *)
AllowanceReturned ==
  \A h \in Hashes : net.fair /\ h \in importing ~> (f.queued[h] = None \/ stopped)

=============================================================================
