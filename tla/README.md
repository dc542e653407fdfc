# TLA+ models of go-palletone

This directory holds TLA+ models of the parts of a go-palletone node that run
concurrently, survive crashes or depend on the order of messages: unit
production by the mediators, the unit fetcher, the downloader with its queue,
the distributed key generation and threshold signing of the mediators, the unit
store with its UTXO set, the transaction pool, and the execution of contracts.
Small instances are model-checked with TLC. The safety properties of the passing
runs are also proved with TLAPS, for every value of the constants, and so is the
refinement of the abstract ledger by the store. Liveness is model-checked only.

`PROJECT.json` is the machine-readable side: it maps every definition to the
source lines it models, lists the runs, the mutants (a deliberately wrong
version of a definition that the property of a run must reject), the hazards
found in the code, and the theorems.

    tlc -config UnitProduction.cfg MCUnitProduction     # a run
    tlapm UnitProductionProofs.tla                      # the proofs

## 1. The system

A go-palletone node keeps a chain of *units*. Time is cut into slots of a fixed
interval, and a list of *mediators* is shuffled once a round to say who produces
the unit of each slot. The mediators generate a distributed key with a VSS
protocol and sign every unit with a threshold signature.

| Part | Source | State | Operations | Model |
|---|---|---|---|---|
| Mediator schedule and slots | `dag/modules/mediator_schedule.go`, `global_property.go` | dynamic global property, shuffled mediators | slot arithmetic, schedule look-up, shuffle, update per unit | `MediatorSchedule` |
| Unit production | `consensus/mediatorplugin/mediator_plugin.go`, `dag/unit_production.go`, `dag/mediator_schedule.go` | production flag, property database, database head, running saves | one pass of the loop per second, `ApplyUnit`, `SaveUnit` in a goroutine, crash, restart | `UnitProduction` |
| Unit fetcher | `ptn/fetcher/fetcher.go` | announced, fetching, fetched, completing and queued maps, counters per peer, two timers | the branches of `loop`, insert goroutines, `Stop` | `Fetcher` |
| VSS protocol | `consensus/mediatorplugin/threshold_sign.go`, `ptn/unit_sign.go`, kyber `dkg` and `vss` | DKG state, response channels and loops | deals, responses, counting, certification, timeout | `Vss` |
| Threshold signing | `threshold_sign.go`, `sign_share.go`, kyber `tbls` | channel per local mediator, share buffers | hand-over, signing loop, collecting, recovery | `ThresholdSign` |
| Unit store and UTXO set | `dag/dag.go`, `dag/common`, `dag/storage`, `dag/txspool/utxoviewpoint.go` | tables, indexes, head pointers, UTXO set | `InsertDag`, `SaveUnit` write by write, the UTXO goroutine | `UnitStore`, abstractly `Ledger` |
| Download queue | `ptn/downloader/queue.go` | task, pending and done pools, result cache, memory limit | schedule, reserve, deliver, expire, revoke, results, close | `BodySync` |
| Downloader | `ptn/downloader/downloader.go`, `peer.go` | one synchronisation, its four goroutines, channels, peers | fetch and process headers, fetch bodies, import, cancel, peers leave and join | `BodySync` |
| Transaction pool | `dag/txspool/txpool.go`, `txlist.go`, `txjournal.go` | all, pending, outpoints, priority heap, journal | add, promote, remove, sorted transactions, rotate, restart | `TxPool` |
| Contract execution | `contracts/core/handler.go`, `chaincode_support.go`, `contracts/shim/handler.go`, `chaincode.go` | transaction contexts, requests, two streams, the shim's channels | `Execute`, the two loops, request goroutines, timeout, end of the stream | `ContractStream` |
| Protocol manager | `ptn/handler.go`, `message.go`, `peer.go`, `sync.go` | peers, channels | handshake, message handlers, broadcasts | not modelled |
| Node life cycle | `core/node/node.go` | services, running server | start, stop, restart, wait | not modelled |
| Memory DAG, validation, voting, state synchronisation, events, accounts, p2p, RPC, token engine, trie, command line | see `PROJECT.json` | | | not modelled; reasons in `PROJECT.json` |

How the parts interact:

* Production generates a unit on top of the database head, applies it to the
  property database, starts a goroutine that saves it, and hands it to the
  signers and to the network.
* Units of peers come in through the fetcher (announced or propagated) or the
  downloader. Both call `InsertDag`, which calls the same `SaveUnit`. Nothing
  locks the store, so that own and foreign saves interleave.
* `SaveUnit` writes the unit and starts a goroutine that updates the UTXO set.
* The downloader fetches headers from one peer and bodies from all of them; what
  it imports goes through `InsertDag` as well.
* `CreateUnit` takes the transactions of a unit from the pool with
  `GetSortedTxs`. The saving of a unit changes the UTXO set that the pool checks
  new transactions against.
* A transaction that calls a contract is run by `Execute`, which sends it over a
  stream to the contract's container; the contract's requests for state come
  back over the same stream while `Execute` waits.
* Signing starts for a mediator when its VSS protocol is complete. Units handed
  over before wait in bounded channels.

What makes it hard: the loop judges itself by a property database that is
written in several steps and that only its own units update; saves run after
the fact and may fail; timers in the fetcher are only set on the first entry;
response channels are deleted while other goroutines may still send to them;
share buffers are looked up outside the lock; the UTXO goroutine of a unit
races the saving of its child; the download queue is asked several questions in
a row by one goroutine while others change it; and a contract's stream is
matched with calls by a transaction id that may be used twice.

## 2. Modules

All modules abstract data to what the properties tell apart. A unit is a model
value or a record of height, time and author. A signature is whether it
verifies. Hashes name units. Logging, metrics and test hooks are left out.

**MediatorSchedule** has the slot functions as operators on the dynamic global
property, and the shuffle as a recursive function over its iterations. The
64-bit scrambling of the random number is a constant function `Draw` of head
time and iteration, so that results hold for every generator. Times and slots
are natural numbers; the 64-bit wrap is out of reach of real time stamps.

**UnitProduction** is one node. The clock may move to any time, which covers
late wake-ups and adjustments either way. Each return of `MaybeProduceUnit` is
an action. `Produce` applies the unit and starts its save. `CrashProducing`
stops inside `ApplyUnit` after a prefix of its writes; all the `TotalMissed`
writes count as one. Writes to the property database do not fail: their errors
are dropped (`dag/mediator_schedule.go:64`, `73`, `166`), so that a failing one
would leave the old value, and this is left out. Saves go through the stages check, write, head. `Restart`
rebuilds the memory DAG from the highest stored unit. That the loop may block
when it hands a unit to the signers is in `ThresholdSign`.

**Fetcher** keeps the state of `loop` in one record `f`. Every action is one
select branch followed by the pass at the top of the loop, as in the code. Ages
are abstracted: any set of announced hashes may be due, any fetch may have
expired. Peers may send anything at any time. A delivery of headers is one
header; a batch that repeats a header would append its announcement twice
(`fetcher.go:506`), which only the announce counter notices. That counter of a
peer can drift below zero in the code, and no property reads it. A behaviour starts in one of the `Nets`, which
say which peers there are, which units have no transactions, what the limits
are, how far the counter may drift and whether timers are assumed to fire.

**Vss** is one node's local mediators. Responses to a deal wait in a channel per
mediator and dealer; a loop counts them, errors included, and the last loop to
end looks whether the DKG is certified. `Nodes` are the situations a behaviour
may be in: which mediators are local, whose deals do not verify, the threshold
and whether the time may run out. Deals that cannot be decrypted, the quit
channel and a restart in the middle of the protocol are left out.

**ThresholdSign** counts the goroutines at every point where they interleave: on
their way to a share buffer, holding one, about to recover, waiting for its
lock. `tbls.Recover` is modelled by what it checks: it takes shares that verify
in the order they came in and does not see that two are equal. Shares for a unit
the node does not have, which the code answers with a nil dereference
(`threshold_sign.go:370`), are left out.

**UnitStore** takes `SaveUnit` write by write, for any number of callers. A
write may fail and the process may crash between any two writes. The UTXO
goroutine saves the outputs it fetched when it started. Transactions carry
payments only. A behaviour starts with the genesis unit that
`SaveUnit4GenesisInit` has stored. `Plans` say who inserts which batches and how many faults happen.

**Ledger** is the abstract specification of the store: units become visible one
at a time and stay, and the head and the number index name visible units.
`UnitStore!ImplementsLedger` is the refinement: a unit is visible when
`DagDb.GetUnit` finds it.

**BodySync** is one synchronisation from `spawnSync` to its end: `fetchHeaders`,
`processHeaders`, `fetchBodies` and the importer, and the peers that leave, join,
answer late, with nothing or not at all. A pass of `fetchParts` is taken
question by question (`pending`, `inFlight`, `throttle`, `reserve`), because
every question takes the queue's lock by itself and peers may leave in between.
A packet of bodies is a number of items that goes to whatever request its peer
has pending: the code does not match packets with requests, and the comparison
with `TxRoot` is commented out (`queue.go:781-784`). Units are numbered from the
ancestor, whose height is part of the environment, because the priority of a
task is its height converted to a float32 (`queue.go:336`, `548`, `595`, `610`,
`669`, `852`). `Float32` is that conversion. Up to 2^24 (`ExactHeights`) it is
exact and tasks are popped in the order of their heights. Above, neighbours tie
and the heap may pop either: `Popped` is the set of all the sets of tasks that a
reservation may pop, and one that meets a height beyond the cache fails with
`errInvalidChain` (`queue.go:509`) and does not return what it has popped. The
memory limit at the start is that of an empty cache, or of the sizes that an
earlier synchronisation has measured, since `Reset` keeps `resultSize`. The
search for the ancestor, the filling of the header skeleton and
the throughput figures are left out, and so is the downloader of the copydb
command, which has no `dropPeer` (`downloader.go:1098`); a reconnecting peer registers after the
pass that saw its old connection, and peers change only while `fetchBodies`
runs. The importer hands a batch to `InsertDag` as a whole. `Environments` say
how long the chain is, which units are empty, which memory limits occur, where
the pivot is, and which kinds of faults may happen.

**TxPool** keeps the fields of the pool in a record; the operators that change
it are named after the methods. `GetSortedTxs` holds no lock: each round of its
loop is a step, between which transactions are added, units saved and the pool
is restarted. Priorities are different; in the code transactions with the same
fee per size tie and the heap takes either, which no property depends on. What
the node never calls is left out and named in the module.

**ContractStream** has the calls of `Execute`, the loop of the contract's stream
on the node, a goroutine per request, the shim's loop and the runs of the
contract. Every message is sent by a goroutine of its own, so that messages
overtake each other. A message names the run it belongs to for the properties;
guards use the transaction id alone, as the code does. Launching and
registering, keep-alive messages and what a request reads or writes are left
out. Every transaction has a channel: the special case of a system contract that
is invoked without one (`core/handler.go:1559-1572`) is left out. So is a `Send`
of the shim that fails (`shim/handler.go:151-156`); a contract whose stream is
gone ends with its container.

The modules whose names end in **Proofs** hold the proofs (section 5). The `MC`
modules give the constants for TLC.

## 3. Runs

| Run | Configuration | Checks | Distinct states |
|---|---|---|---|
| `production` | `UnitProduction.cfg` | `TypeOK`, `SlotAfterHead`, `OneUnitPerSlot`, `FairRound`, `SlotsAccounted`, `HeadAdvances`, `TimelySlotCount`, `TimelyNeverStarves` | 540,918 |
| `push_unwound` | `PushUnwound.cfg` | `PushUnwound`, violated | |
| `fetcher` | `Fetcher.cfg` | `QueueAccounting`, `ImportedOnce`, `NoLostWakeup`, `OnePhase`, `AnnouncementsHandled`, `AllowanceReturned` | 228,518 |
| `signing` | `ThresholdSign.cfg` | `TypeOK`, `RecoveredOnce`, `GroupSigned` | 230,056 |
| `group_sig` | `GroupSig.cfg` | `GroupSigsVerify`, violated | |
| `vss` | `Vss.cfg` | `FinishedIsComplete`, `NoSenderLost`, `AllSign` | 332,050 |
| `store` | `UnitStore.cfg` | `VisibleIsComplete`, `InsertedPrefix`, `UnspentKept`, `ImplementsLedger` | 467,552 |
| `utxo_spent` | `UtxoSpent.cfg` | `SpentDestroyed`, violated | |
| `body_sync` | `BodySync.cfg` | `TypeOK`, `TaskPartition`, `WindowKept`, `IdleMatchesRequests`, `NoLostWakeup`, `ImportedInOrder`, `SuccessIsComplete`, `GivesUpForWant`, `SyncEnds` | 217,392 |
| `sync_race` | `SyncRace.cfg` | `SyncIsComplete`, violated | |
| `contracts` | `ContractStream.cfg` | `ContextOwned`, `AnswerIsMine`, `NoRequestDropped`, `SendChannelReceived`, `OutcomeReported`, `ExecuteReturns`, `CallAnswered` | 107,265 |
| `pool` | `TxPool.cfg` | `ProposalSpendsOnce`, violated | |

`QueueAccounting`, `FinishedIsComplete`, `VisibleIsComplete` and `ContextOwned`
contain the type invariants of their modules.

Bounds, and why they are enough for what is asked:

* **production**: three mediators, two of them local; an interval of two
  seconds, so that there are times at, before and after a slot. A node to which
  anything may happen has genesis at the first slot and three slots after it
  (`Horizon`), which is one round and hence a new shuffle; a crash; two saves at
  a time; one foreign unit of height two. A node that keeps time (`timely`) goes
  on for nine slots, three rounds.
* **fetcher**: two peers and two units, the second a child of the first; limits
  of one, so that every limit is met; the first unit has no transactions, which
  takes the short cut past the completion. In the other situation one peer
  announces two units with bodies, so that several bodies come in one delivery,
  announcements are repeated, and the distance check and a drifting counter
  occur; the liveness properties speak of this one.
* **signing**: two of three mediators are local. Their unit is handed over twice
  and a peer's invalid unit once, which is one more than the channels hold. A
  remote share fails to verify. The threshold is two.
* **vss**: three mediators. `GetCurThreshold` gives three for three (four for
  five, fifteen for twenty-one); the situation with the timeout uses two of
  three, the smallest with a threshold below the number of mediators. Responses
  arrive once (`MaxCopies`).
* **store**: two callers insert sibling units, alone or as a batch, with one
  crash or failed write; or one caller inserts a chain of two units in which one
  payment spends an output of the parent and another one an output of its own
  unit.
* **body_sync**: two peers, a cache of three for chains of up to four units, so
  that the window has to move and a request may not fit; results are taken two
  at a time; the memory limit falls to one in one situation. Each kind of fault
  has a situation of its own with a chain of two: combinations of faults are left
  out, except for a failing insert with a cancellation. In one situation the
  ancestor is at 2^24 + 1, so that the last three of the four heights have the
  same float and a reservation can fail. With two peers one can
  hold a request while the other comes and goes. The pivot is reached and
  committed; its move needs longer chains and does not occur.
* **contracts**: two calls with two requests each, of two transactions, or of
  one that is retried while its first run goes on, with a container that dies, a
  nested call that fails, and a deployment. Each of the four situations has two
  types of requests; together they have one of every kind of handler.
* **pool**: a payment with two inputs, a rival for the first of them, a payment
  of its own, a transaction without inputs, and a pool of three.

Deadlock is checked for production and the store. The other models may stop:
a fetcher after `Stop`, a protocol or a synchronisation that is complete, signers
without work, and calls that have returned.

Fairness:

* A node that keeps time (`TimelySpec`): the loop starts its successor before it ends, whatever it
  returned, and goroutines run. Weak fairness of the whole step.
* `Fetcher!FairSpec`: timers fire, insert goroutines end and the loop receives
  what they send. Nothing is assumed of peers. Firing of the fetch timer is fair
  to each hash (`Fetches(h)`): the age of a hash's first announcement only grows,
  so a firing finds it due, whatever other hashes come in or are fetched before.
* `Vss!FairSpec`: goroutines run and every message of the peers arrives once.
* `ThresholdSign!FairSpec`: goroutines run, a channel with a running signing
  loop is drained, and the VSS protocol completes for the local mediators. A
  sender only moves when its channel has room.
* `BodySync!FairSpec`: goroutines run and the ticker of `fetchParts` goes on. Go's
  `select` takes a ready case at random, so that one which is ready again and
  again is taken: strong fairness of the wake-up and of the cancellation. A pass
  that begins after a request's deadline expires it: strong fairness of expiry.
  Peers need not answer.
* `ContractStream!FairSpec`: goroutines run, the loops take what waits for them,
  and `time.After` fires. Contracts need not end and need not make requests.

Every property of a passing run has a mutant that it rejects.

## 4. What the runs show

*Production.* The panic in `MaybeProduceUnit` is unreachable. The slot functions
are inverse to each other on every reachable property. A node never releases two
units for one slot, whatever its clock does and wherever it crashes, because the
property database is written before the unit is released. Every round has every
mediator once. Until the first crash every slot is accounted for.

*Fetcher.* The queue counters equal the queued units on every path and respect
the allowance; a unit is in exactly one place; no entry waits with its timer
off; a hash is in one phase.

*VSS and signing.* A response loop ends only when all responses are recorded,
and without the timeout all local mediators get their keys. One group signature
is sent per unit, and it is sent unless a share that does not verify came in.

*Store.* A visible unit is complete, the heads are visible, and what `InsertDag`
counts as inserted is stored. No unspent output is lost when nothing fails.

*Downloader.* A scheduled unit is a task, in one request or finished, whatever the
order of answers, timeouts and lost connections. No body falls outside the
window, and up to a height of 2^24 no reservation does; above, a reservation may,
and then the synchronisation ends with `errInvalidChain`. The panic of `fetchParts` is unreachable, the importer is
always woken, and units are imported in order. A full synchronisation that
succeeds is complete if no peer leaves by itself. Every synchronisation ends.

*Contracts.* A transaction id belongs to one call at a time. Without a retried
deployment a contract receives the answer to the request it is waiting for, no
request is dropped as a duplicate, and the shim never blocks on a contract that
has its answer. Without retries and faults `Execute` returns the outcome of its
own run, and every request that has a handler is answered.

Disagreements with what the repository says, each with a run:

* `push_unwound`: the comment of `PushUnit` says that a push that fails is
  unwound. `SaveUnit` runs after `ApplyUnit` in a goroutine whose error nobody
  reads.
* `group_sig`: a produced unit is handed to the signers in `MaybeProduceUnit`
  and again by `BroadcastUnit`. Two equal shares then enter the recovery and the
  group signature does not verify.
* `utxo_spent`: the UTXO goroutine saves all outputs of its unit as unspent,
  also those that have been spent in the meantime.
* `sync_race`: `fetchParts` ends when no task waits and no request is under way.
  It asks the two questions one after the other. A peer that leaves in between
  moves its tasks from the second place to the first, and the synchronisation
  ends without an error and without these units.
* `pool`: `add` makes the map of spent outpoints anew for every input, so that a
  double spend is noticed against the last input of the last transaction alone,
  and both transactions are handed to unit production.

Further observations made while modelling, without a run of their own:

* `CurrentASlot` is height plus lost slots, as the comment at
  `global_property.go:55` says, only when saves are prompt and no foreign units
  come in (`TimelySlotCount`).
* `MaybeProduceUnit` stays disabled when recent units of peers arrive, although
  the log message says that production waits for one: it looks at the dynamic
  property, which only own units update.
* The announce counter of the fetcher is decremented twice for a hash that is
  fetched, so `hashLimit` does not bound the hashes of a peer.
* A body is taken for every unit the peer was asked to complete, because the
  comparison of the `TxRoot` is commented out (fetcher and download queue).
* An insert goroutine of the fetcher that ends after `Stop` blocks forever.
* The production loop itself sends to the signers' channels. It blocks when a
  local mediator never gets its key and its channel is full.
* `areCertified` is true as soon as one local mediator is certified.
* The timeout may certify a DKG when no response loop looks at it any more.
* `InsertDag` refuses a unit and its child in one batch: the comparison of the
  numbers is inverted. Today's callers insert single units.
* Nothing times a completion request of the fetcher out: if the bodies never
  come, later announcements of the hash are ignored.
* `addToTBLSRecoverBuf` dereferences a nil unit when a share comes in for a unit
  the node does not have (`threshold_sign.go:370`), and `toTBLSRecoverBuf` and
  `respBuf` are maps that several goroutines use without a lock.
* In a fast synchronisation the results behind the pivot are dropped when the
  pivot is not ready: `oldPivot` is set to nil, so that `oldTail` is not used
  (`downloader.go:1475-1480`).
* Above a height of 2^24 the float32 priorities of the download queue tie, and a
  reservation may fail on a chain that is valid (`queue.go:548`, `509`). A chain
  with a unit every two seconds, the default interval, gets there in a year.
* When the memory limit falls between `throttle()` and `reserve()`, `fetchParts`
  gives up for want of peers although peers have the units.
* A second outcome for one transaction id, after a retry or a failed nested call,
  finds the notifier full: `notify` then blocks with the handler's lock held and
  `Execute` of every caller blocks in `deleteTxContext`. A retried call may also
  get the late outcome of the first run, and a failed Init of a retried
  deployment goes to another run's channel.
* A stream that ends after `Execute` has found it leaves `Execute` blocked on
  `nextState`.
* `filterError` asserts pointer types while the state machine returns values, so
  that it never reports an error (`core/handler.go:2145`, `shim/handler.go:971`).
* `GET_STATE_BY_RANGE`, `GET_QUERY_RESULT` and `GET_HISTORY_FOR_KEY` are never
  answered; a contract that sends one waits until its container is stopped.
* The pool exceeds its capacity when the heap is empty, which happens after
  `GetSortedTxs` has emptied it. `Discard` drops the highest priority first,
  transactions that do not fit into a unit are taken off the heap and not put
  back, stale entries are listed for the unit, and the journal is emptied when
  it is loaded.

## 5. Proofs

| Module | Theorems |
|---|---|
| `UnitProductionProofs` | `ShuffleIsOrder`: the shuffle yields every active mediator once. `SlotAtTimeIsGreatest`: `GetSlotAtTime` is the greatest slot not after its argument. `ScheduledOncePerRound`. `Invariance`, and from it `TypeCorrect`, `PanicUnreachable`, `SlotIsGreatestAlways`, `AbsoluteSlotAlways`, `NoDoubleProduction`, `FairRoundAlways`, `HeadAdvancesAlways`; with further invariants `SlotsAccountedAlways`, `TimelySlotCountAlways` |
| `FetcherProofs` | `FetcherInvariant`, and from it `QueueAccountingHolds`, `ImportedOnceHolds`, `NoLostWakeupHolds`, `OnePhaseHolds` |
| `VssProofs` | `VssInvariant`, and from it `FinishedIsCompleteAlways`, `NoSenderLostAlways` |
| `BodySyncHeaderProofs` | lemmas: types, and the steps of the two goroutines for headers |
| `BodySyncProofs` | `QueueInvariant`, and from it `SyncTypeCorrect`, `TasksPartitioned`, `WindowAlwaysKept`; with further invariants `ConsumerIsWoken`, `IdlePeersMatch`, `ImportsInOrder`, `SuccessIsCompleteAlways`, `GivesUpForWantOnly` |
| `ThresholdSignProofs` | `SignTypeCorrect`, `RecoveredOnceAlways` |
| `UnitStoreProofs` | `StoreInvariant`, and from it `VisibleAlwaysComplete`, `InsertedAlwaysPrefix` and the refinement `StoreImplementsLedger`; `UtxoInv`, and from it `UnspentAlwaysKept` |
| `ContractStreamProofs` | `StreamInvariant`, and from it `ContextAlwaysOwned`; `AnswerInvariant`, and from it `AnswerAlwaysMine`, `RequestNeverDropped`, `SendChannelAlwaysReceived`, `OutcomeAlwaysReported` |

**Production.** The theorems hold for every number of mediators, interval, genesis
time, sequence of random numbers, set of foreign units and bound. Assumptions
(`ScheduleAssumption`, `ProductionAssumption`): the active mediators are
different, there is at least one, the interval is positive, and genesis is at a
multiple of the interval, which `InitialTimestamp` (`core/gen/genesis.go`) rounds
to and `validateGenesis` (`cmd/gptn/genesis_check.go`) checks.

The inductive invariant `IInv` is type correctness, that the stored schedule is
an order of the active mediators, `AbsoluteSlot`, that no released unit is later
than the head (`ReleasedByHead`), and `OneUnitPerSlot`. `OneUnitPerSlot` alone is
not inductive: a new unit could have the time of an old one. `ReleasedByHead`
excludes it, since a due slot is after the head. That argument needs the slot
functions to be exact, which needs the head to be at a multiple of the interval;
`AbsoluteSlot` gives that. `FairRound` follows from the order of the schedule.
For the shuffle the loop is unrolled as a recursive function, which is shown to
exist and to keep a permutation by induction on the iteration.

`SlotsAccounted` counts. The released units gain one element with each unit,
since `ReleasedByHead` makes it a new one. The charges of all mediators are
counted as a set of pairs (`MissedEntries`: the k-th charge of mediator m), which
gains one pair per charged mediator; a unit skips at least as many slots as
there are mediators charged for it. `TimelySlotCount` holds for `TimelySpec`
alone; `TimelyInv` adds that at most one save runs, that it is of the head unit
of the property database, and that without one the database head has caught up.
The theorem names `SlotCount`, of which the run's property is the part for the
node that keeps time.

**Fetcher.** For every finite set of units and peers, every limit and set of
situations (`FetcherAssumption`). The invariant is stated for a fetcher `g` in
the middle of an iteration (`Good`), since every branch of the select is a chain
of `forgetHash`, `forgetBlock`, `enqueue` and the two reschedules, followed by
the pass that starts imports: each of them is shown to keep `Good` once, and the
branches are put together from these lemmas. `Good` has the type of the record,
the counters (`Accounted`), the place of each accepted unit (`Placed`), the timers
(`Awake`) and the phases (`Phased`). Nothing is said of the announce counters,
which drift in the code.

**VSS.** For every finite set of more than two mediators and every set of
situations (`VssAssumption`): any of them local, any deals bad, any threshold,
with or without the timeout. The hypothesis of the theorems is `MaxCopies = 1`,
a response arrives once; a loop counts whatever it takes from its channel, so
that a second copy would end it too early. `VssInv` follows a response on its
way to each local mediator (`TokenInv`): it is not sent yet, with an
`addToResponseBuf` goroutine, in the channel, or recorded, and never in two of
these. What a loop has counted is therefore what is recorded (`LoopInv`:
`respCount` plus one, plus two between the two halves of the loop's body), or the
timeout has recorded everything (`Closed`). A goroutine that still has a response
in its hands thus shows that the loop it sends to has not ended, and that the
mediator is not certified.

**Downloader.** The theorems hold for every finite set of peers, chain, cache,
limit and set of environments (`SyncAssumption`: the bounds are positive, and
`MaxBlockFetch`, 128 in the code, is at least two). The inductive invariant
`QueueInv` joins type correctness, `TaskPartition`, `WindowKept`, that the cache
is filled from its beginning on without gaps as long as heights are exact
(`CachePrefix`), that headers run ahead of the queue (`HeadersAhead`), and what
the local variables of a pass may be (`LocalsSet`). The parts need each other.
That a reservation fits into the window is a counting argument
(`PoppedInWindow`): if it went beyond, all units of the window would be finished,
under way or just popped, and `resultSlots` leaves too few slots for that; to
count them one needs the partition, and that nothing is popped before what is in
front of it. This last point is what `HeightsExact` (every height is at most
2^24) gives and ties destroy. `WindowKept` therefore promises for every height
that requested units have their entry in the cache, so that deliveries fit, and
for exact heights that no reservation fails. A reservation that fails ends
`fetchBodies` for good, so the half of `TaskPartition` that says that nothing is
lost, and the wake-up of the consumer, are shown for states without one
(`Intact`). The other theorems about the downloader hold at every height, except
for `GivesUpForWantOnly`, which assumes `HeightsExact`.
`IdleMatchesRequests` needs that what a pass still has to try is idle
(`PassPeers`), `ImportedInOrder` that what `Results` handed out follows what is
imported (`ImportInv`).

`SuccessIsComplete` follows the ends of the goroutines (`SuccessInv`): the word
that there are no more headers comes only behind `processHeaders`, `fetchBodies`
returns nil only with no task and no request left, the queue is closed behind
both, and the consumer returns nil from a closed queue whose cache it has
emptied. Its hypothesis, that no peer leaves by itself, is needed where a pass
has asked for tasks and has yet to ask for requests; `sync_race` shows what
happens without. `GivesUpForWant` is about a pass that has found no peer for
anything (`Hopeless`): with nothing under way and no throttling there is a task in
the window (`SlotsForTasks`), so that a peer that was tried and got no request
lacks the first one (`WantInv`).

**Signing.** For any mediators, units, number of hand-overs, threshold and set of
shares that do not verify (`SignAssumption`). `SignInv` adds to `RecoveredOnce`
that a share buffer exists only for a unit that was handed over: the first
hand-over makes the buffer, the recovery removes it, and no later step makes it
again.

**Store.** For every set of units, transactions, callers and plans of batches,
failed writes and crashes (`StoreAssumption`: a unit has at least one
transaction, a batch at least one unit). `StoreInv` says how far the write in
progress of every call has got (`CallsWritten`: the parts before its position are
in the tables), that what the number index names is complete (`Complete`), and
that what calls returned is stored (`Returned`). `VisibleIsComplete` alone is not
inductive, because a unit becomes visible by its last write and everything
before it must be known to be there. The refinement maps a unit that `GetUnit`
finds to a visible one; a crash forgets calls and goroutines and no table, hence
is a stutter of the ledger. `UtxoInv` adds for the UTXO set that the
goroutine of a unit starts with the outputs of that unit (`Begun`), and that an
output of a stored unit is unspent, in the hands of a goroutine, or spent by a
unit whose saving has begun (`Kept`).

**Contracts.** For any calls, transaction ids, requests and environments
(`StreamAssumption`). `StreamInv` has the types, that a context belongs to the one
call inside (`Owned`), that a contract is started once (`Started`), that a
channel belongs to the run that waits on it (`Channelled`), and that an entry of
`txidMap` has a request in progress (`Marked`). `AnswerInvariant` adds `Tokens`:
the one request a run waits for is in one of five places (on the way to the
node, served, answered, blocked in `notify`, with the shim) and nothing else of
that run is anywhere. Given that, the answer that arrives is the current one, a
second request of a transaction cannot meet the entry of the first, and the
shim's send meets a waiting contract. It holds unless a deployment shares its
id with another call; then the `ERROR` of a failed Init reaches a foreign
channel, which is why the properties have that hypothesis. `Reported` follows
the outcome from the end of a contract to `Execute`; its heart is that without
faults `enterBusyState` fails a request only after `Execute` has returned
(`BusyFailsLate`), when there is no context its `ERROR` could get into.

Every invariant was also checked with TLC on the instances of the runs.

Only model-checked:

* all liveness properties, which are out of the prover's reach
  (`AnnouncementsHandled`, `AllowanceReturned`, `AllSign`, `GroupSigned`, `SyncEnds`,
  `ExecuteReturns`, `CallAnswered`, `TimelyNeverStarves`);
* that the properties of the violated runs fail, which one behaviour shows.

## 6. Not modelled

* The **protocol manager** (`ptn/handler.go`, `message.go`, `sync.go`) decodes
  messages and calls the parts above. The calls are the environment of their
  models. What it adds, the set of peers and the start of a synchronisation, is
  in `BodySync` as far as it touches the downloader. A composition of all the
  parts is beyond what TLC can explore; they meet in `Ledger`, which the store
  implements.
* **State synchronisation** fetches a state trie that the units hardly use.
* The **node's life cycle** is sequential under one lock.
* The **memory DAG** has no callers that matter: `Save` is in an unreachable
  branch and `Prune` is not called. Its rebuild is in `UnitProduction!Restart`.
* **Validation, voting, the token engine, encodings and the trie** are sequential
  computations on data the models abstract from; which units, transactions,
  deals and shares are valid is a constant of the models.
* **Peer-to-peer, RPC, events, accounts, the command line**: infrastructure, taken
  as messages that may be late, lost or reordered.
* In modelled parts: the header skeleton and the search for the ancestor of the
  downloader; launching and registering contracts; the parts of the transaction
  pool that nothing calls. Where two goroutines use a map without a lock, the
  models take each access as one step and leave out that the runtime may abort.
