# A TLA+ model of the EigenDA monitor

The program (`src/eigenda`) is one Go process, `cmd/prober`. It watches an EigenDA
network from outside: it collects the blobs the network lists, asks relays and
operators for them, disperses blobs of its own, indexes ejections of operators from
Ethereum, and writes what it sees to PostgreSQL (schema `eigenda`), which dashboards and
a small API read. Each activity is a *worker*, a goroutine with a ticker or an endless
loop. The workers hardly call each other; they meet in the database, in the shared
operator set (`Discovery`) and in the relay registry. What is hard in the program is
therefore not one algorithm but the order of independent steps: statements that fail one
by one, feeds and chains that change between two reads, retries, deadlines, and a
process that may be killed anywhere and keeps part of its progress in memory.

The repository has no tests, and this commit does not build as it stands:
`internal/chainstate`, `DB.GetUnretrievedSelfBlob` and `DB.InsertOperatorRetrieval` (with
the table `operator_retrievals`) are used but missing. They are modelled from their use.

Paths below are relative to `src/eigenda/internal/` unless they start with `cmd/`, `docs/`
or `README.md` (under `src/eigenda/`).

## 1. Inventory

| Component | State | Operations | Interacts with |
|---|---|---|---|
| EjectionIndexer (`worker/ejection_indexer.go`) | cursor and rows in the database; the locals of `poll` | `poll`: cursor, block number, logs, one insert per log, cursor | Ethereum node, database |
| OperatorVerifier, measurement (`worker/operator_verifier.go`: `probeAndRetrieve`, `probeSet`) | tallies of a call, semaphore, deadline | rounds of parallel probes, verdict, insert | Discovery (set, failure counters), operators, database |
| OperatorVerifier, schedule (`Run`) | the counter `cycle` | which blob to measure next | database |
| Discovery (`operator/discovery.go`) | cached operator list with a ttl, `failCount` | `GetOperators`, `ReportResult`, `IsBlacklisted` | contracts; OperatorVerifier, StakeIndexer and OperatorStatusWorker call it concurrently |
| BlobCollector (`worker/collector.go`) | `lastSeenTimestamp` in memory | read the newest 100 blobs, upsert | DataAPI, database |
| WriteProber (`worker/write_prober.go`) | the locals of `disperse` | POST to the proxy, find the blob in the feed, upsert | proxy, DataAPI, database |
| RelayVerifier (`worker/relay_verifier.go`) | a batch of goroutines behind a semaphore | select 20 unprobed blobs; certificate, relays, attestation for each | DataAPI, relay registry and client, KZG verifier, database |
| Reverifier (`worker/reverifier.go`) | none | one aged blob after the other, all its relays | as above |
| StakeIndexer (`worker/stake_indexer.go`) | rows in the database | a snapshot of stakes per quorum, HHI | contracts, Discovery, database |
| OperatorStatusWorker (`worker/operator_status_worker.go`, `eigenexplorer/client.go`) | rows in the database | a status per operator from its failure counter, its name from its latest metadata document | Discovery, Ethereum node, the operators' web servers, database |
| HealthRecorder (`worker/health_recorder.go`) | none | runtime figures on a ticker | database |
| Relay registry (`registry/relay_registry.go`) | cache of URLs by key, with a ttl | `NewFromDirectory`, `GetRelayURL` | contracts; RelayVerifier and Reverifier call it concurrently |
| Relay client (`relay/client.go`), DataAPI client (`dataapi/client.go`), KZG verifier (`kzg/verify.go`) | connections | one request each (the DataAPI client retries on 429) | network |
| Database (`db/db.go`) | the tables | migrations, inserts, upserts, selections | all workers |
| Process lifecycle (`cmd/prober/main.go`, `worker/manager.go`) | context, wait group, open resources | start conditions, signal handler, shutdown | all |
| API server (`api/server.go`) | the `http.Server`, open requests | start, shutdown, read-only queries | database, lifecycle |
| Configuration (`config/config.go`), dashboards, generated protobuf | none | read-only | database |

What is hard, and what makes each component correct:

- **EjectionIndexer.** Three reads of different nodes, a chain that reorganises between
  them, statements that fail one by one, a kill between inserting and saving the cursor.
  Correct: only final blocks are declared settled; a row agrees with the final chain; an
  event has one row; no event falls between two polls.
- **Measurement.** Up to 32 goroutines of several rounds, a deadline over all of them,
  operators that drop chunks meanwhile, retries that report failures to a shared counter. Correct: no
  operator is counted twice; RECOVERABLE is true of when the call began; AT_RISK means that data is lost; no verdict from a measurement that was
  cut off; one blob does not declare an operator dead; every call ends.
- **Schedule.** Three kinds of work share one loop by a counter. Correct: none starves.
- **Discovery.** The set is read index by index while the contract moves operators between
  indices. Correct: no duplicates, no unexplained omissions.
- **Collector and WriteProber.** The watermark is in memory, the feed is a page of the
  newest, blobs are listed late, both workers write the same rows. Correct: no listed blob is
  skipped without a reason; neither writer undoes the other; a latency belongs to its blob.
- **RelayVerifier and Reverifier.** The table of results is also the queue. Correct: no
  blob and relay probed twice by the verifier, no blob half probed, no blob starved.
- **StakeIndexer.** The stakes of a quorum are read by one call per operator while they
  change. Correct: a row is made of nothing but stakes of its quorum; every quorum is read.
- **OperatorStatusWorker.** A verdict is read, then up to six requests that may fail are made,
  then a row is written; the counters do not survive a restart. Correct: a row is about its own
  operator, as of its turn in the loop; a lasting verdict is reported in the end.
- **Relay registry.** Callers overlap around a contract call that is made without a lock.
  Correct: no answer is staler than the ttl and a call; the contract in use is explained.
- **Lifecycle.** A signal at any moment, resources that fail to open, requests that stay open.
  Correct: nobody uses what is closed or was never opened; a signal ends the process.

`PROJECT.json` lists the hazards with the line where each bites and the properties that
cover it; the ones that no property covers say why.

## 2. Modules

Every module keeps the names of the source where TLA+ allows it. Actions are named for the
function or the branch they stand for. A definition under the comment `Faulty variant` is not
part of any specification: it is a plausible bug, used to see that a property can fail.

| Module | What it is |
|---|---|
| `EjectionIndex` | abstract specification: a table of final events and a cursor that moves over settled events only |
| `EjectionIndexer` | the worker, the node, the chain and the table; implements `EjectionIndex` |
| `EjectionIndexerProofs` | the theorems about it |
| `OperatorRetrieval` | one measurement with all its rounds, the operators, `Discovery.failCount`, repeated while the blob ages |
| `BlobMeasurement` | abstract specification: the latest verdict about a blob is made of one sample of each operator, what it held when it answered; implemented by `OperatorRetrieval` |
| `OperatorSchedule` | the loop of `OperatorVerifier.Run` |
| `OperatorDiscovery` | `GetOperators` and its cache against a changing contract |
| `ObservedBlobs` | feed, collector, write prober and `UpsertBlob` together |
| `RelayProbing` | RelayVerifier and Reverifier over the tables they read and write |
| `RelayResults` | abstract specification: the relay verifier is done with a blob once, and what it has recorded by then never changes; implemented by `RelayProbing` |
| `StakeSnapshots` | the StakeIndexer's snapshot of one quorum after the other |
| `RelayRegistry` | the search for the registry contract, and `GetRelayURL` under concurrent callers |
| `OperatorStatus` | the OperatorStatusWorker, the failure counters, the metadata client and the table |
| `ProberLifecycle` | `main`, the manager, the workers as loops, the API server and the signal handler |
| `OperatorRetrievalProofs`, `ObservedBlobsProofs`, `RelayProbingProofs`, `RelayRegistryProofs`, `OperatorStatusProofs`, `ProberLifecycleProofs` | the theorems about the module each is named for (the first also those about `OperatorSchedule`) |
| `OperatorSetProofs` | the theorems about `OperatorDiscovery` and `StakeSnapshots`: how the set of operators is collected, and what is summed over it |

The modules are instantiated by the `.cfg` files directly: every constant is a set of
model values or a number, and no module needs definitions for TLC alone. They are composed
where components share state that both change (collector + prober + table, verifier +
reverifier + table, measurement + failure counters). Elsewhere one side is left open: the
measurement is given *any* non-empty set of operators, because `OperatorDiscovery` shows
which sets can come, and the schedule only says whose turn it is, because
`OperatorRetrieval` covers what a turn does.

### EjectionIndexer

| Code (`worker/ejection_indexer.go`) | Model |
|---|---|
| `indexer_cursors.last_block`, 0 if there is no row | `cursor` |
| `ejection_events`, unique on (tx hash, log index), `ON CONFLICT DO NOTHING` | `rows`, `InsertEjectionEvent` |
| `safeHead`, the early return, the cut of the range | `Poll(h)`, `RangeEnd` |
| `FilterLogs` on the range | `FilterLogs(n)`, answered by a node at height `n` |
| the loop: time of the block or now, insert, `continue` on errors | `IndexLog`, `SkipLog` |
| `UpdateIndexerCursor` and its error | `AdvanceCursor`, `AdvanceCursorFails` |
| kill and restart | `Crash` (memory lost, table kept) |

`Mine` and `Reorg` are the chain: only blocks deeper than `FinalityBlocks` stay. Both reads may
be answered by any node at most `MaxLag` behind. `LagAssumption` (`MaxLag <= FinalityBlocks`)
is what the indexer relies on: a node lagging by more than the finality distance could
answer without the logs of a range the other node calls final. `lost` is a history variable:
events whose latest attempt ended in a failed insert or a log without an operator id, the
code's `continue`.

### OperatorRetrieval

`ProbeAndRetrieve(S)` begins a call with the set `GetOperators` returned; `StartProbe` is the loop
of `probeSet` with its semaphore; `Answers` and `DoesNotAnswer` are the goroutine up to its end
with `ReportResult`, the ignored insert of an operator probe, and the tally under the mutex;
`EndRound` is `wg.Wait` with the two breaks of the loop; `Drop`, `Record` and `RecordFails` are the
verdict. `Deadline` is the context of 120 s, after which no probe succeeds and no statement on
that context either. `Collect(op)` is the operators' garbage collection, the reason the blob is
measured again. It is possible at any moment, also during a call: `decodeAgeGroups` measures at
336 h, right where operators begin to drop their chunks, and a call lasts up to 120 s. `given`
is a history, what each operator gave in this call. The row of a verdict carries three facts the table does
not have (`decodable`, `untried`, `cutShort`), only for the properties. `MeasurementSpec` maps the
module to `BlobMeasurement`: `given` is the `sample`, the `LatestVerdict` is the row without these
three; rounds, retries, goroutines, the deadline and kills are steps that do not show.

### OperatorSchedule

One action per branch of the loop. A query that fails takes the same way as one without a
result, hence the Boolean parameters. `cycle` is kept modulo `NumGroups * SelfPeriod`, all the
loop tells apart. That `GetAgedBlobKeys` may draw a blob of the prober's own, or one without a
probe, is in `ProbeAged`.

### OperatorDiscovery

`StartFetch`, `ReadTotal`, `ReadIndex`, `SkipIndex`, `EndQuorum` and `EndFetch` are the calls of
`fetchOperators` and the loop over quorums, so that `Register` and `Deregister` (which moves the last
operator to the freed index, as the registry contract does) fall between the read of the total and
of each index. `ReadIndex` has both calls of `getOperatorAtIndex`, the operator at the index and its
socket, as one step: the socket is asked for by the operator's id, so that a change of indices in
between does not matter, and which operators have one (`Socketless`) is fixed. `owed` is a history: the operators a call has no excuse for missing. Not
modelled: the sort by failures, which changes the order only.

### ObservedBlobs

`FetchPage` takes a page in the feed's order; `CollectBlob` and `CollectFails` are one turn of
the loop, newest first up to the watermark; `AdvanceWatermark` ends `collectBlobs`.
`Disperse`, `ProxyConfirms`/`ProxyFails`, `FindSelfBlob`/`FindsNothing` and
`RecordDispersal`/`RecordDispersalFails` are `disperse`. `UpsertBlob` is the statement with its
conflict clause. Blobs are listed (`List`) any time after they were requested, in any order.
The histories `failed`, `overflowed` and `late` name the three reasons for which a blob may
be passed over.

### RelayProbing

`Select` is a batch: the newest `Limit` blobs without a row, a goroutine for each, and the next
selection only after `wg.Wait`. `Acquire` is the semaphore, then `FetchCertificate` or
`CertificateFails` (a row with relay key -1), `ProbeRelay` for each relay, and
`FetchAttestation`, which also runs for a blob without a certificate (stage "uncertified") and
whose rows have no unique key, so that `attested` counts them. The Reverifier is
`Reprobe` and `ReprobeRelay`; which blobs an age group holds is left open. What the relay answered
is not in the row: every outcome is a row. `ResultsSpec` maps the module to `RelayResults`: a blob is `DoneWith` once the verifier has a row of it and no
goroutine for it any more, and `RecordedOf` counts what it has recorded; selections, slots and
the rows of the Reverifier do not show.

### StakeSnapshots

`Snapshot(S)` begins with the set `GetOperators` returned; `ReadStake` and `SkipOperator` are the
loop over it, one call per step; `EmptyQuorum` is the `continue` of a quorum without stake,
`InsertStakeSnapshot` the row with its sum, number and concentration (the HHI is
10000 * `squares` / `total`^2), and `InsertStakeSnapshotOperators` the rows of the operators, an
insert that fails every time (`snapshot_time` is NOT NULL, has no default and is not given), so
that the table it should fill is no variable. Stakes of the quorum being read change at any
time (`ChangeStake`); those of another quorum are others (`BeginQuorum`).

### RelayRegistry

`GetAllNames`, `GetAddress`, `SearchListed` and `NotFound` are `NewFromDirectory`; a name is a
number, its place in the list it is asked from. `Hit` and `Miss` are the read lock, `CallContract`
the moment at which the node evaluates `relayKeyToUrl`, `Store` the write lock and `CallFails`
every error in between. A URL is the number of changes of the relay so far, 0 the empty string of
an unknown key. `Tick` is time, in the unit of `Ttl`; a call lasts at most `MaxCall` of them.
`settled` says how long ago the contract changed.

### OperatorStatus

`Snapshot(S)` is `GetOperators`, `NextOperator` the verdict, `ResolveOperatorAddress` the call for
the address with the block number, `FilterLogs` and `NarrowRange` the loop over the block ranges,
`FetchMetadataJSON` the document, `UpsertOperatorStatus` and `UpsertFails` the row. A URI is the
number of those the operator has published. All ranges end at the same block, hence `seen`: the
latest event in any range that has one. `ReportResult` is the OperatorVerifier's; `changed` and
`updated` are histories, the excuses a row has for being out of date. `HandleOperatorStatus` is
the query of the API.

### ProberLifecycle

`stage` walks through `main`; `enabled` and `configured` are the configuration, chosen once.
`OpenOrDie` stands for a resource without which `log.Fatalf` ends the process, `OpenOrWarn` for one
without which main goes on. `Register` has the nil checks, `Needs(w)`. A worker is what all have in
common: `Begin`, rounds, and leaving once the context is cancelled, which the polling loops notice
before each round and the others when `select` picks it. The API server is created and listens in
its own goroutine; `TakeSignal` and `CancelAfterShutdown` are the goroutine of the handler, and
`RunDeferred` the deferred calls.

## 3. What the runs check

| Run | Checks | States |
|---|---|---|
| `ejection_indexer` | `CursorIsFinal`, `RecordedIsCanonical`, `AtMostOneRow`, `NoEventSkipped`, refinement `IndexSpec`, liveness `EveryFinalEventPassed` | 27 000 |
| `operator_retrieval` | `TalliesAreExact`, `VerdictIsMeasured`, `OneCallNeverBlacklists`, refinement `MeasurementSpec`, liveness `CallEnds` | 1 280 000 |
| `observed_blobs` | `SkipsAreExplained`, `RowNeverDegrades`, liveness `EventuallyAccounted` | 623 000 |
| `relay_probing` | `ProbesAreWhole`, refinement `ResultsSpec`, liveness `CertifiedEventuallyProbed` | 8 600 |
| `operator_discovery` | `NoDuplicates`, `OmissionsAreExplained` | 530 000 |
| `operator_schedule` | liveness `EveryAgeMeasured`, `OwnBlobsGetTurns` | 2 600 |
| `stake_snapshots` | `SnapshotIsExplained`, liveness `EveryQuorumRead` | 36 000 |
| `relay_registry` | `ResolutionIsExplained`, action property `AnswersAreRecent` | 52 000 |
| `operator_status` | `StatusIsCurrent`, `NameIsLatest`, liveness `StatusCatchesUp` | 167 000 |
| `prober_lifecycle` | `NobodyIsCutOff`, liveness `StopsOnSignal` | 70 000 |

and a type invariant in each. What they show:

- **ejection_indexer.** Polls, mining, reorganisations, lagging nodes, failing statements and
  kills in every order leave a canonical table without duplicates; what the cursor has
  passed is recorded or known to have failed. In terms of `EjectionIndex`: replays, partial
  polls and reorganisations do not show in the table at all.
- **operator_retrieval.** The tallies count each operator once over all the rounds, because a
  retry takes exactly the operators that gave nothing; a verdict is never written after the
  deadline, because the insert uses the context of the call; the threshold of 5 is out of
  reach of the 3 rounds of a call. In terms of `BlobMeasurement`: although a call takes up to two
  minutes and as many as three rounds, in which operators go on dropping chunks, its row is made of
  one sample of each operator, what it held when it answered; RECOVERABLE says that the samples have
  enough chunks, and AT_RISK that those who answered gave few chunks each, or that nobody
  answered. The samples are of different moments: when a RECOVERABLE row is written the operators may
  hold fewer chunks than needed, as TLC finds; what is true of it is that they held enough
  when the call began (`RecoverableIsSound`, section 6).
- **observed_blobs.** A listed blob is passed over for one of three reasons only: a page
  that overflowed, a blob listed after a newer one was read, a failed upsert. None of the
  three is repaired later (except by the restart, which reads a whole page again). A row keeps the
  columns its first writer gave it, and its flag. Its latency is *not* kept: the upsert
  (`db/db.go:321`) replaces it whenever a later dispersal is taken for this blob, and
  `RowNeverDegrades` says only that it is not lost, and that what replaces it is the latency of a
  dispersal requested no earlier.
- **relay_probing.** The batch and its `wg.Wait` make "no row yet" a sound queue: the
  verifier never repeats a blob and relay, and what it has recorded of a blob it is done with stays
  as it is (`ResultsSpec`), however often it selects. Without errors and kills a blob is
  probed as a whole and its attestation recorded once, however often it was selected before
  it had a certificate; but an attestation that is not signed yet when the relays have been
  asked is never asked for again. With fewer hopeless blobs than a selection holds nobody starves.
- **operator_discovery.** A registry that changes under the reader neither doubles an operator
  nor hides one, but for those that leave or are moved, failed calls and empty sockets.
- **operator_schedule.** No age group starves. The own blobs get turns as long as one age group,
  whichever, is empty; this rests on 16 and 3 being coprime (`CoprimeAssumption`).
- **stake_snapshots.** Sum, number and concentration of a row are of the same stakes, each
  held by an operator of the set while the quorum was read; whoever is missing had a failed
  call or no stake. The sum need not be what the quorum held at any one moment. A quorum
  without stake, or whose calls all fail, does not keep the next from its turn.
- **relay_registry.** A caller may replace a newer URL by an older one, and a "" of a relay
  that was not registered yet is cached like any other; both heal within the ttl and the length
  of one call, and the ttl alone would not be a bound. The contract is that of a name
  which answered with an address, a candidate or one that contains "relay", and of the first such:
  one failed call makes another name win for the life of the process.
- **operator_status.** Neither the loop's shared variables nor the fallback to narrower ranges
  mixes up operators or documents. Reporting does not depend on the metadata: a
  verdict that lasts is the one the API returns in the end. A failed lookup does write an empty
  name over a known one (`NameIsLatest` says so).
- **prober_lifecycle.** The wait group and the order of the deferred calls keep every resource
  open for the workers, and the nil checks keep those out whose resource is not. A signal
  ends the process at every moment, by the default action before `signal.Notify`, by a nil
  pointer if the API server is not created yet (`s.server` is set by its goroutine), else by
  cancelling the workers; unless a request stays open, for which `Shutdown` waits
  with a context that only the next statement would cancel.

Two runs show a disagreement between the code and what it says of itself:

| Run | Statement | What happens |
|---|---|---|
| `at_risk_means_lost` | "a NOT-recoverable verdict must mean the DA lost the data" (`worker/operator_verifier.go:142`) | nobody answers the first round (the prober's own outage); the loop ends at once, 0 chunks per answer is below 4.0, AT_RISK is recorded of a blob that is intact |
| `latency_belongs_to_blob` | "Find the actual blob from DataAPI by matching our account" (`worker/write_prober.go:101`) | the new blob is not listed yet; the newest of the account is the one before, and it gets the latency |

Met while modelling, without a run of their own:

- The collector loses blobs when more than 100 arrive between two reads, where
  `docs/eigenda-data-collection.md:15` speaks of collecting all (a named reason of
  `SkipsAreExplained`).
- AT_RISK may be recorded when the retries run out although the last round still found chunks,
  where `worker/operator_verifier.go:211-213` asks for a full round without any.
- A transient error of the certificate request leaves a row that takes the blob out of the
  queue for good (an exception named in `ProbesAreWhole`).
- If 20 newer blobs without a certificate are listed they are selected for ever, and an older
  certified blob is never probed, where `docs/eigenda-data-collection.md:25` speaks of every
  collected blob; `CertifiedEventuallyProbed` holds because its instance has fewer.
- A blob the prober upserts first never gets its commitment, as the collector's upsert of an
  existing row does not add it (`db/db.go:319`), where `docs/eigenda-monitor-spec.md:120` sends own
  blobs through the same verification; `complete` in `ObservedBlobs` shows it.
- Once every age group has blobs the branch "Every 3rd cycle, check for self-dispersed blobs"
  (`worker/operator_verifier.go:108`) is never reached; `OwnBlobsGetTurns` needs an empty group.
- A set of operators cut short by one failed call is cached for an hour
  (`operator/discovery.go:154`).
- The rows of the operators in a stake snapshot are never written (`db/db.go:455`), so that
  `docs/eigenda-data-collection.md:92` describes a table that stays empty.
- The status worker writes "dead"; `GetDeadOperators` (`db/db.go:528`) and the comment on the API's
  filter (`api/server.go:347`) ask for "inactive", which no row has.
- `VerifyBlob` compares nothing: with data and a commitment at hand it answers true, where
  `kzg/verify.go:38` says it "validates that the relay returned non-corrupted data".
- With OPERATOR_STATUS_ENABLED alone the status worker is not started, and nothing is logged.

## 4. Bounds

Each bound is chosen so that the case it limits happens on both sides of it.

- **EjectionIndexer**: 3 events, one of them malformed; chain of 5, finality 2, ranges of 2
  blocks (`MaxBlockRange` 1), lag up to 2. So the cursor moves twice, a range is cut once, a
  block is empty in between, two events share a block, a reorganisation happens before,
  during and after a poll. The proofs hold for all values.
- **OperatorRetrieval**: 3 operators with 0 to 2 chunks, 3 needed, 2 goroutines at once, one
  retry, threshold 3, `GcChunksPerOpMax` 2. All verdicts occur, in the first and in the second
  round; one operator is not enough, two may be; the semaphore is full with one waiting.
  An operator drops a chunk at any moment of a call or between calls; nothing but its chunks bounds
  how often. `MaxFails` caps the counters where they are no longer told apart. The code's values are 1024, 32,
  2, 5 and 4.0: their relations, not their size, enter the properties (`BlacklistAssumption`).
- **ObservedBlobs**: 3 blobs, two of them ours, a page of 2 for the collector and 1 for the prober,
  a clock of 2. Pages overflow, two blobs share a time, a blob is listed late, both writers meet
  in one row, two dispersals are confused and the latency of one replaces that of the other.
- **RelayProbing**: 2 blobs, one of which never has a certificate, 2 relays, selections and
  semaphore of 2.
- **OperatorDiscovery**: 3 operators, one without a socket, 2 quorums, one caller. The
  callers meet in the cache alone, which one replaces as a whole; a second
  caller adds interleavings that the invariants, which speak of each call by itself, cannot tell
  apart. `Callers` is a set, so that the module covers more.
- **StakeSnapshots**: 2 operators with a stake of 0, 1 or 2 each, the code's 3 quorums, one kill.
  A quorum is empty, has one operator or two, of equal and of unequal stakes; a kill leaves the
  worker's state at its beginning, so that a second one adds nothing.
- **OperatorSchedule**: 4 groups instead of 16, period 3; coprime, as the code's.
- **RelayRegistry**: 2 candidates and 4 listed names, one of them in both lists, one without
  "relay" and one without an address; 1 relay that changes twice, 2 callers, a ttl of 2 and
  calls of up to 1. That a call has a limit (`MaxCall`) is an assumption: the context `GetRelayURL`
  is given has no time-out of its own. A newer URL is stored, replaced by an older one, served, and expires.
- **OperatorStatus**: 2 operators, one of which publishes up to 2 URIs, 2 ranges instead of 4, a
  threshold of 2, one restart. Every way out of the lookup occurs for the first and the
  second operator of a snapshot.
- **ProberLifecycle**: 5 workers, at least one of each kind: polling and ticking, starting at once
  and not, returning at once, with and without each resource; 1 open request.

## 5. Fairness

The endless loops and tickers of the workers justify that a step which stays possible is
taken (WF). Steps that can be pre-empted by an error or by a kill get strong
fairness on their success: a query, a statement or a request that is tried for ever
does not fail every single time. Nothing is assumed of the environment: no block need
be mined, no blob listed, no operator answer. `CallEnds` needs no success at all: the goroutine
of the call goes on (first WF), and those of a round end after their 8 s, with or without an answer
(second WF). `ObservedBlobs` has weak fairness for the poll and for the move of the watermark, and
strong fairness for each blob of a page: the loop over a page is cut short by a kill only, and no
process is killed for ever each time before the same turn. `CallEnds` and `EventuallyAccounted`
are stated as `[]<>`: the call is over, or the blob accounted for, again and again, however often
it begins anew. Two exceptions are
named in the modules: `RelayProbing` lets EigenDA certify the blobs that do not fail, and the
Reverifier, which draws at random, owes nothing. `StakeSnapshots` bounds the kills
(`MaxKills`) and needs weak fairness only: a snapshot that is cut short every time may
never reach the last quorum. Runs about safety alone use `Spec`.

`OperatorStatus` asks that the set of operators is read completely now and then
and that not every insert about an operator fails; of the lookups only that they end. The request of
the document has a time-out of 15 s; the three calls of the Ethereum node (`eigenexplorer/client.go:102`,
124 and 152) have no deadline of their own, so that this rests on the RPC library, or the connection
under it, giving up. `ProberLifecycle` assumes that goroutines go on, that a round ends *once its
context is cancelled*, and strong fairness of the cancelled branch of `select`, which picks at
random among those that are ready; it assumes nothing of requests.

Deadlock is checked everywhere. The processes are never finished, except for
`ProberLifecycle` and a `RelayRegistry` that was not found, which have a step `Ended`.

## 6. Proofs

Ten modules are proved about, in eight modules of theorems. A theorem holds for every value of the
constants that the named assumptions admit. Where a theorem counts steps or goroutines the set it
counts over is assumed finite: relay keys (32 bits) by `RelayAssumption`, operators (addresses of
20 bytes) by `OperatorsAssumption` of `OperatorStatus` and `StakeAssumption`, and by the theorem itself
in `FetchesAreBounded`.

| Module | Theorems (the property each states) | Inductive invariant |
|---|---|---|
| `EjectionIndexerProofs` | `TypeCorrect`, `OnlyFinalBlocks` (`CursorIsFinal`), `TableIsCanonical` (`RecordedIsCanonical`), `RowsAreUnique` (`AtMostOneRow`), `NothingSlipsThrough` (`NoEventSkipped`), `CursorNeverMovesBack`, `Refinement` (`IndexSpec`), `QueriesFit`, `PollsAdvance`, `LoopGoesOn` | `IndInv` (`InductiveInvariant`) |
| `OperatorRetrievalProofs` | `TypeCorrect`, `CountedOnce` (`TalliesAreExact`), `RecoverableIsSound`, `MeasuredWhole` (`VerdictIsMeasured`), `RetriesNeverBlacklist` (`OneCallNeverBlacklists`), `Refinement` (`MeasurementSpec`), `CallsAreBounded` | `CallInv`, with `BeganInv` for `RecoverableIsSound` |
| the same, about `OperatorSchedule` | `ScheduleTyped` (its `TypeOK`), `OwnTurnIsNear` | `TypeOK` |
| `ObservedBlobsProofs` | `TypeCorrect`, `NothingElseIsSkipped` (`SkipsAreExplained`), `RowsNeverDegrade` (`RowNeverDegrades`), `PagesAccount`, `PagesAreBounded`, `LatencyIsNeverEarlier` | `FeedInv`, `LatencyInv` |
| `RelayProbingProofs` | `TypeCorrect`, `ProbedOnce` (`FirstProbeOnce`), `ProbedAsAWhole` (`ProbesAreWhole`), `Refinement` (`ResultsSpec`), `LoadIsBounded`, `NeverAllWaiting`, `BatchesAdvance`, `BatchesAreBounded` | `QueueInv`, with `CertifiedOnly` (`TableInv`) for the refinement; `LoadInv` |
| `OperatorSetProofs`, about `OperatorDiscovery` | `TypeCorrect`, `SetsHaveNoDuplicates` (`NoDuplicates`), `OmissionsExplained` (`OmissionsAreExplained`), `FetchesAreBounded` | `TypeInv`, `OwedInv`, `FetchInv` |
| the same, about `StakeSnapshots` | `StakesTyped` (its `TypeOK`), `SnapshotsExplained` (`SnapshotIsExplained`), `SnapshotsAreBounded` | `SnapshotInv` |
| `RelayRegistryProofs` | `TypeCorrect`, `SearchExplained` (`ResolutionIsExplained`), `AnswersBounded` (`AnswersAreRecent`) | `SearchInv`, `StalenessInv` |
| `OperatorStatusProofs` | `TypeCorrect`, `RowsAreCurrent` (`StatusIsCurrent`), `NamesAreLatest` (`NameIsLatest`), `RoundsAdvance`, `RoundsAreBounded` | `StatusInv`, `RoundInv` |
| `ProberLifecycleProofs` | `TypeCorrect`, `CleanShutdown` (`NobodyIsCutOff`), `ShutdownOnlyGoesOn` | `LifeInv`, with `Retired` for the second |

`OperatorSchedule` and `StakeSnapshots` are instantiated by the modules that prove about them, which
extend another component of the same workers; their assumptions are therefore hypotheses of these
theorems (`SettingsOfSchedule` and `Coprime`, `StakeAssumption`).

Each proof has the same outline: the properties are strengthened to an invariant that every
step keeps, with one lemma or step per action and under it one step per conjunct the action can
disturb; the theorem follows from the initial states, the step and the implication. Why the
properties are not inductive as they stand, and what the strengthening adds:

- **EjectionIndexer** (`EventsAssumption`, `ParametersAssumption`, `LagAssumption`). That a row is
  canonical needs that the *log in hand* is: it was read at some earlier step, and the chain has
  moved since. `IndInv` adds `LogsInRange` (the logs in hand are of blocks in the range being
  read, which is final by `CursorIsFinal`, and still stand where they were read), `RangeCovered`
  (while the loop runs, an event of the range is recorded, lost, or still in hand, which becomes
  `NoEventSkipped` when the cursor takes over the range), `BlocksOnChain` (no event lies above
  the head, so that a new block is above everything final) and, for the refinement,
  `LostHasNoRow`. `Reorg` is the interesting environment step: it disturbs only events that
  are not final, and everything `IndInv` speaks of is final. `FilterLogs` is where
  `LagAssumption` is used: the node that answers has all blocks up to `head - MaxLag`, hence the
  whole range. `AtMostOneRow` makes the `CHOOSE` of `RecordedBlock` unique, so that the mapped
  `index` is well defined. Beyond the checked properties: `QueriesFit` (a range has one to
  `MaxBlockRange` + 1 blocks, whatever the gap), `LoopGoesOn` (the order of the chain gives exactly
  one log in hand the next turn, by a least counterexample on block and index) and `PollsAdvance`
  (a poll that gets through passes at least one block and no event of its range without a row or a
  failed insert).
- **OperatorRetrieval** (`OperatorsAssumption`, `SettingsAssumption`, `BlacklistAssumption`). That
  a row tells what was answered needs exact tallies, and these need `CallShape`: an operator is to be
  probed, being probed, or done with, in no more than one of `pending`, `inflight` and `failed`.
  `GivenShape` says that those counted as having answered are the ones that gave something. The lemmas on `Chunks` say how chunks are counted when an
  operator is added. `FailuresCounted` bounds a counter by the rounds; `BlacklistAssumption` (the
  threshold exceeds them, 5 against 3 in the code) is all `RetriesNeverBlacklist` needs. Cutting a call
  short at any point, killing it, giving it any set of operators, or dropping chunks under it does
  not matter: in `Refinement` an answer is the one sample of an operator, whatever it holds
  later. `RecoverableIsSound` says what RECOVERABLE is worth all the same. It is about `Spec` with a
  history variable, `began`: what the operators held when the call began. Nobody gives, or has, more
  than that (`BeganInv`), so that enough chunks collected means that enough existed then; they need
  not any more, which is why the theorem does not speak of the moment of the row. `CallsAreBounded`
  is the half of `CallEnds` that needs no fairness: `StepsLeft` is a natural number, at most
  (`MaxProbeRetries` + 2)(2n + 2) for n operators, that every step of a call lowers, whatever
  answers, fails or is retried, but for an operator that drops a chunk meanwhile, which leaves
  the call as it is (`CollectMeanwhile`).
- **OperatorSchedule** (`SettingsOfSchedule`; `Coprime` for the second). `OwnTurnIsNear` is the
  arithmetic under `OwnBlobsGetTurns`: from any state, less than `Period` cycles ahead, the turn of
  any given age group falls on a turn of the own blobs. It is the Chinese remainder theorem
  (`Chinese`), from the least positive combination of two numbers (`LeastDivides`, `Bezout`).
- **ObservedBlobs** (`BlobsAssumption`, `PagesAssumption`). `PageCovered` says the same as
  `SkipsAreExplained` of the watermark to come: while a page is being read, the blobs up to its
  first are left, observed or explained. `Requested` keeps the time 0 for "never", so that the
  watermark of a restarted collector passes nothing. `PagesAccount` says what
  a turn of the collector does: reading a page leaves every listed blob in the page, observed or
  explained, each turn of the loop takes a blob off with a row or a failed upsert, and the watermark
  moves only when the page is through. `LatencyInv` (a blob dispersed later was requested no
  earlier) bounds what `latency_belongs_to_blob` finds: a wrong latency is that of a
  dispersal requested at the same time as the blob's own or later, never earlier, and no blob of
  others ever has one. `RowsNeverDegrade` rests on it too: that a latency gives way only to that of a
  dispersal requested no earlier depends on which blobs the prober may find while it disperses one,
  not on the statement of the upsert alone.
- **RelayProbing** (`RelayAssumption`). That "no row yet" is a sound queue needs an invariant of
  each blob at every stage of its goroutine, `BlobInv`: the relays still to be asked have no
  row; unless the blob was cut, the others of its certificate have one, and the attestation
  comes last. Neither the limit nor the size of the semaphore matters. `ResultsSpec` needs
  `CertifiedOnly` besides: unless the blob was cut, no other relay has a row. Each step is
  then shown to conclude a set of blobs: one when a goroutine ends, several when a kill cuts them
  short, none otherwise (`DoneIsSettled`, `RecordedWhole`, `StepConcludes`). `LoadIsBounded` says that the limit and the semaphore hold at
  every moment, `NeverAllWaiting` that the semaphore never has all of them wait. `BatchesAdvance`
  measures a batch by the set of tokens its goroutines still have to turn in (slot, certificate,
  each relay, attestation): a goroutine's step takes some away, nobody adds any, and the next
  batch begins with none left; at most `Limit` * (relays + 3), by `BatchesAreBounded`.
- **OperatorDiscovery** (`OperatorsAssumption`, `QuorumsAssumption`). The
  merge of the quorums is a fold over sequences, so `SetsHaveNoDuplicates` first proves what it
  computes: a sequence without duplicates whose range is the union. `OwedInv` follows each operator a
  call has no excuse for missing: it is in what was found, at an index still to be read of this
  quorum, or registered in a later one. The registry's move of the last operator to the freed index
  is the step that takes an operator off the list. `FetchesAreBounded` (for finitely many operators)
  is about the length of a call, which reads a total and then that many indices of a list that
  changes meanwhile: the contract lists nobody twice in a quorum (`ListedOnce`), so that a total never
  exceeds the number of operators, and every step of a call lowers `FetchLeft`.
- **StakeSnapshots** (`StakeAssumption`). `Total` sums over a set in an order `CHOOSE` picks;
  the lemmas on it show that the order does not matter and that a stake read once is added
  once. `SumInv` says what is summed (stakes seen while the quorum was read, nothing of who failed
  or is still to come), `RowInv` that a row in hand is of exactly that. `SnapshotsAreBounded`: every
  step of a snapshot lowers `SnapshotLeft`, but for stakes that change, the half of `EveryQuorumRead`
  that needs no fairness.
- **RelayRegistry** (`NamesAssumption`, `TimesAssumption`). `ResolutionIsExplained` says nothing
  of the turns passed before one is found; `PassedTurns` does. `CacheIsBounded` and
  `InHandIsBounded` bound the staleness of an entry and of an answer under way by their age.
- **OperatorStatus** (`OperatorsAssumption`, `BoundsAssumption`). `VerdictInHand` and
  `NameInHand` say of what the loop carries what the properties say of rows; `Nameless` covers
  operators that never publish, which no step marks. `RoundsAdvance` and `RoundsAreBounded`: every
  step of a round lowers `StepsLeft`, from at most `Ranges` + 4 for each operator, to 0 when the
  worker is idle, whichever calls fail.
- **ProberLifecycle** (`RequestsAssumption`). `WorkersInTime` confines the workers to the stages
  between registration and `wg.Wait`; `LeavesAfterRequests` that a worker leaves only after the
  API server has answered its last request. `ShutdownOnlyGoesOn` says that no step leads back:
  main only comes closer to its end, a context stays cancelled, a server that shuts down
  accepts no request, nobody who left runs again, and a polling worker whose context is cancelled
  comes closer to leaving with every step of its own.

The two folds need an induction over the data. The induction theorems of the library take an
operator as a parameter, which no installed prover instantiates, so the proofs take a smallest
counterexample instead: `MinimalSet` (a family of finite sets has a member with no proper
subset in it) and `LeastNumber`, both from well-founded orders on sets, applied to the set of
counterexamples.

Only model-checked is liveness, in every module: the prover handles neither `ENABLED` nor fairness.
What needs neither is proved, for the properties in this table: that the steps fairness makes
happen lead on, which leaves to TLC only that they do happen.

| Liveness property | The half that is proved |
|---|---|
| `CallEnds` | `CallsAreBounded`: every step of a call lowers a number |
| `EveryQuorumRead` | `SnapshotsAreBounded`: every step of a snapshot lowers a number |
| `OwnBlobsGetTurns` | `OwnTurnIsNear`: the arithmetic of the two counters |
| `CertifiedEventuallyProbed` | `NeverAllWaiting`, `BatchesAdvance`, `BatchesAreBounded`: a batch can go on, and ends |
| `EveryFinalEventPassed` | `LoopGoesOn`, `PollsAdvance`: the loop has a next log, and a poll passes a block |
| `EventuallyAccounted` | `PagesAreBounded`, `PagesAccount`: a page takes in all that is listed, and only shrinks |
| `StatusCatchesUp` | `RoundsAdvance`, `RoundsAreBounded`: a round ends |
| `StopsOnSignal` | `ShutdownOnlyGoesOn`: no step of the shutdown leads back |

`FetchesAreBounded` says the same of `GetOperators`, of which no run checks a liveness property.

## 7. What is not modelled, and the plan

Left out for good: the read-only queries of the API server except the one about operator
status, dashboards and generated code, the cryptography of the KZG check, formats and
wording everywhere, and the parsing of the environment. The retries of the DataAPI client on 429
change how long an outcome takes, not which ones there are. Workers that
can disturb one another only through a table are kept apart when the table's columns they
write are disjoint.

Done, in the order of importance: the ejection indexer with its abstract specification; the
measurement and the relay queue with theirs; the two writers of `observed_blobs`; the
operator set; the schedule; the stake snapshots; the relay registry; the operator status; the lifecycle of the process. All of them with proofs.

Next, as models: the KZG verdict of a row; an abstract specification of the operator set (what a
caller may assume of it) that `OperatorDiscovery` implements and the measurement starts from.

Next, as proofs: the step of that abstract specification to the measurement; the length of a
search for the registry contract.
