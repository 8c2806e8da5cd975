# A TLA+ verification project for evms-indexer

evms-indexer copies gateway events of EVM chains, and blocks and vault
transactions of Bitcoin, into a PostgreSQL database. What makes it correct is
that nothing it should have copied is missing or mixed up, across goroutines,
full channels, failing calls and restarts. These modules model that, TLC checks
them on small instances, and TLAPS proves the central facts for every instance.
`PROJECT.json` maps each definition to the source lines it stands for.

## Inventory

| component | state | operations | interacts with |
|---|---|---|---|
| EVM log fetcher (`pkg/evm/client.go`, `fetcher.go`) | two goroutines' windows, one shared `FilterQuery`, the checkpoint row | `LoopFetchLogs`, `recoverLogs`, `fetchRealtimeLogs`, `FetchRangeLogs` | node (`eth_blockNumber`, `eth_getLogs`), `logsChan`, checkpoint table |
| EVM log processor (`processing.go`, `parser.go`, `parser/`) | the batch in progress | `ProcessLogsFromFetcher`, `SaveRecords`, `SaveBatchRecords` | `logsChan`, `blockHeightsChan`, event tables |
| EVM block fetcher (`fetcher.go`) | ordered queue, one block per worker | dispatcher and workers of `fetchBlocks` | `blockHeightsChan`, node, header table |
| Ordered queue (`pkg/types/queue.go`) | a sorted slice under a mutex | `Push`, `Pop`, `Clear`, readers | block fetcher |
| BTC node indexer (`pkg/btc/btcnode.go`, `db.go`) | next height, three channels, two pools, the block being indexed | `orchestrateFetching`, `fetchBlockHashes`, `fetchBlockData`, `indexBlock` | node, header and vault tables |
| BTC reorg handler (`pkg/btc/reorg.go`, `pkg/db/block.go`) | the stored rows | `DetectAndHandleReorg`, `findForkPoint`, `DeleteBlockAndTxsFromHeight` | called by `indexBlock` |
| Database adapter (`pkg/db/adapter.go`, `block.go`, `manipulation.go`) | one adapter for the process, the tables | open once, inserts that ignore conflicts, checkpoint upsert, resume height | all clients |
| Relayer queries (`pkg/db/token.go`, `contractcall.go`, `command.go`) | `token_sents` and the contract call tables | inserts, status updates, removal of duplicates, finders | a relayer's sessions, beside the indexer |
| Electrum client (`pkg/btc/electrum.go`) | connection, RW mutex, reconnect channel, `lastHeight` | connect, ping, reconnect, RPC, catch-up and live indexing, stop | Electrum server, BTC tables; the service does not start it |
| Vault parser (`pkg/btc/parser.go`), Merkle proof (`merkle.go`) | none | accept and read a transaction; path, root, verification | BTC indexer, Electrum client |
| Chain info codec (`pkg/types/chain_info.go`) | type and id | bytes and strings, both ways | vault parser, EVM converters |
| EVM event parser (`pkg/evm/parser`, `utils.go`) | none | event to record, command decoders | log processor |
| Event subscription (`SubscribeWithRetry`) | retry interval | subscribe, retry | nothing calls it |
| Service, command, configuration | the clients, the files | read, build, start, stop | everything |

What is hard: two fetchers on one unprotected query; a checkpoint written
before what it vouches for; a process that stops without draining its channels
(the context is never cancelled and `Stop` only logs); errors that become
values (a head of 0, a range of 0); worker pools that reorder blocks while a
restart assumes order; a realtime loop whose timer may stop it for ever; an
Electrum connection that seven goroutines share without matching replies to
requests, under a mutex that one of them locks twice; one database adapter for
clients that were configured with several. The
list with lines is `hazards` in `PROJECT.json`. What correctness means for each
component is the list of properties under "Runs".

## Modules

    MinSet <== OrderedQueue <- EvmBlocks ---\
                                             \
    EvmState <- EvmFetcher ------------------- EvmIndexer <- MCEvmIndexer
             <- EvmProcessor ----------------/       ^
                                              EvmIndexerProofs
    BtcReorg <- BtcIndexer <- MCBtcIndexer, BtcIndexerProofs
    Electrum <- MCElectrum -------------------\
    RelayerStore <- MCStore, Service <- MCService \
    ChainInfo <- VaultParser,                      } <- MCLibrary
      OrderedQueue, MerkleProof, Backoff ---------/
    VaultParser, EventRecords <- MCCodec

    Backoff, MerkleProof <- NumberProofs
    NumberProofs, VaultParser <- CodecProofs

    (OrderedQueueProofs, ElectrumProofs, RelayerStoreProofs and ServiceProofs
     extend the module they are named after)

`<==` is refinement, `<-` is EXTENDS or INSTANCE.

**OrderedQueue / MinSet.** The slice of `queue.go` with its scan and its shift;
each method holds the mutex, so it is one step. `MinSet` is the abstract
specification: a set from which the minimum is taken.

**EvmState** holds what the goroutines of one `EvmClient` share: the chain's
head, the two channels, the database. A log is a number with a block, a topic
and a kind: what `parseEventLog` and the insert make of it (a record, an error,
the typed nil of a converter, which makes its whole chunk fail, or an index out
of range, which ends the process). `dropped`,
`lost` and `missed` are history variables: what was given up on a logged error,
and what was in memory when the process ended.

**EvmFetcher.** `recover` and `realtime` both run `FetchRangeLogs` on `qfrom`
and `qto`, the two words of the shared query. Since nothing synchronises them,
each write and each read of a word is a step. `BlockNumber` may fail (0) or
come from a node that is behind. `RangeEnd` keeps the uint64 wrap of
`fromBlock + range - 1`. `due` is the fetch interval having elapsed since
`lastExecutionTime`, which only moves when a fetch starts. With
`Overlap = FALSE` realtime starts fetching only when recovery has returned:
the timing under which the backlog takes less than the first interval.
`Overlap = TRUE` allows every interleaving.

**EvmProcessor** takes a batch, hands over its block numbers, then saves event
by event and chunk by chunk. **EvmBlocks** is the dispatcher, the queue and the
workers; a block without a beacon root panics the process.

**EvmIndexer** composes them and adds `Stop` and `Panic` (of a header worker or
of the parser): memory is emptied, the database stays, everything starts again.

**BtcReorg** is the index of rows by height with the reorg handler. A block is
the path from the genesis block, which is what its hash identifies. A hash
covers the time stamp and the bits of its header; the header that is stored is
rebuilt with the time of indexing and with bits read in base 10, so
`StoredHash` is never a `Hash`.

**BtcIndexer** is the pipeline of `StartBtcIndexer`: orchestrator, hash
workers, data workers, indexer, three bounded channels, a node whose best chain
grows and reorganises, faults and restarts. A block that cannot be read is
skipped; the vault transactions of a block are stored together, or some are
missing (`partial`) because one did not parse or the insert met a conflict. The
schema is in another repository; the model takes (chain, tx_hash) to be unique,
as the clause of `StoreVaultTransactions` presumes.

**Electrum** is a `BtcClient` run by `StartElectrumIndexer`. `conn`,
`isConnected`, `reconnectChan` and `lastHeight` are the fields of the struct. A
section under `mu.Lock` is one step, because its owner always leaves it; the
read lock that `isConnectionAlive` keeps across its ping is the state
`readers`, and `waiting` is a blocked `Lock`, which keeps new readers out as
Go's mutex does. `wire` holds the replies the connection will deliver, in
order: a `Read` takes the first, several at once, or the head of one that does
not fit the buffer. `callRPCMethod` is `CallCheck`, `CallWrite` and `CallRead`
with the lock free between them, for each of its callers. `crossed`, `suspect`
and `logged` are history variables.

**RelayerStore** is the tables of the relayer at READ COMMITTED: a method that
is one statement is one step, the two that open a transaction
(`SaveTokenSentsAndRemoveDupplicates`, `UpdateBatchContractCallStatus`) and the
read-then-update of `UpdateTokenSentsStatus` take one step per statement, and
rows changed by an open transaction are locked. The schema is in another
repository; whether `event_id` is the primary key decides what gorm's `Save`
does, so both cases are explored.

**Service** is the process: configuration files that may be missing, the list
of clients being built one by one with calls that fail, the one adapter, header
inserts of several EVM and Bitcoin chains, panics, stops and new starts. A
client is reduced to the order of its inserts; its inside is `EvmIndexer` and
`BtcIndexer`.

**ChainInfo, VaultParser, MerkleProof, EventRecords, Backoff** are algorithms:
their operators are translated from the code and compared with a reference
definition (`Node` is Bitcoin's Merkle tree; the fields of a vault output
written one after the other are its script). Widths are constants, so that TLC
can go through all values of a small word: `ByteBase` stands for 256,
`ChainInfoBytesSize` for 8, `DurationBits` for 64.

Definitions named `Mut...` are deliberate deviations from the code. No
specification uses them; substituting one for the definition after it must
break the property it is listed with, which shows the property can fail.

External parts, modelled from how the code uses them: the chains and the
answers of their nodes, the TCP connection, Go's mutex, PostgreSQL's locks and
transactions, the ABI library, and calls that fail.

## Runs

| run | result | what it shows |
|---|---|---|
| `components` | holds | one part per behaviour (`unit`): see below |
| `evm_pipeline` | holds | `CheckpointSound`, `NoGap`, `SavedHasHeader`, `CheckpointForward` and the inductive invariant `PipelineInv`, with a failing call and a stop, when the fetchers do not overlap |
| `evm_race` | holds | with the fetchers overlapping, a panicking block and a panicking event: the checkpoint stays within the chain; a rejected event costs at most its own topic, and without a stop records are lost only with a panic that a block or an event explains (`PoisonContained`) |
| `evm_live` | holds | without faults recovery ends, its logs reach their tables, their blocks get headers |
| `btc_pipeline` | holds | no height or vault transaction disappears unaccounted for, the two tables agree, no row is deleted; every height comes to its row or to a logged error (`HeightsSettled`), every row to its vault transactions likewise (`VaultsSettled`); with a fault, a reorganisation and a stop |
| `evm_race_recovery` | violated | overlapping fetchers: recovery ends with logs never asked for |
| `evm_stop` | violated | a stop after the checkpoint and before the insert loses events for good: recovery resumes behind their block and the realtime loop starts at a head above it |
| `evm_quiet` | violated | after an interval without a new block the realtime loop never reads the head again |
| `btc_reorg` | violated | after a reorganisation rows of two branches stay in the index |
| `db_isolation` | violated | two Bitcoin chains with a database each share the first one's, and the second chain's headers are missing |
| `token_race` | violated | `UpdateTokenSentsStatus` takes back a success written between its read and its update |
| `electrum_ping` | violated | once the monitor has pinged, a lost connection is never replaced |

Each violated run states a sentence of the repository's README, of its docs or
of a comment; `findings` quotes it.

`components`: the queue (`StrictlySorted`, and the refinement
`ImplementsMinSet`, over eight block numbers); the relayer tables
(`OnlyPendingRemoved`, `FoundRowsStay`, `BatchesNotMixed`); the codec
(`ChainInfoSurvives`: only the top byte of an id is lost); the vault parser
(`StakingReadBack`: which transactions are stored, and that the stored quorum,
destination, token and recipient written one after the other are the script
behind the service tag); the Merkle proof (`ProofVerifies`: it verifies the
transaction at its position and no other); the delays (`ReconnectBacksOff`: as
long as the shifted delay fits the word it is the base delay doubled per failed
attempt, up to the cap); the service (`ServiceTypeOK`; `FailureContained`: a
failing call costs one chain; `EvmChainsSeparate`: EVM headers carry their chain
in the key and survive the sharing that breaks the Bitcoin ones).

The Electrum client in the same run: `ConnConsistent` (the two fields that
describe the connection agree on every path), `BlockedOnlyByPing` (unless
a ping holds the lock, each goroutine that has not ended and does not wait for a
tick, a token or a call of `Stop` can take its next step itself), `DiesOfFaultsOnly` (the read from a nil connection needs
a failed dial or a stop), `NoCrossing` (a reply goes to the wrong height only
when calls overlapped, or left something behind, on that connection),
`IndexFaithful` (no height at or below `lastHeight` was skipped without a log
entry, and vault transactions carry the height of their block).

### Further configurations

Each of these refutes one more sentence of the repository; `tlc -config X.cfg M`
shows the trace. They ask of the same models what the runs above leave out:
what becomes of a failed call, and of what was in memory, afterwards.

| configuration | module | refuted | the code, and what it is held against |
|---|---|---|---|
| `MCEvmPanic.cfg` | `MCEvmIndexer` | `NothingMissing` | `payload.go:50` and `:115` read beyond an empty payload or a PSBT with one output: the process dies, and good events that were checkpointed and in memory are not fetched again. README: "Automatic recovery of missing events and blocks" |
| `MCEvmFaultRecovery.cfg` | `MCEvmIndexer` | `RecoveryFinishes` | `fetcher.go:34`: an error that names no range sets the range to 0, and recovery asks for an empty window for ever. `client.go:270`: "Get missing logs from config startBlock to current block at starting time" |
| `MCEvmFaultHeaders.cfg` | `MCEvmIndexer` | `HeadersArrive` | `fetcher.go:138`: a block whose fetch or insert fails was popped already. README, as above |
| `MCBtcStop.cfg` | `MCBtcIndexer` | `BlocksNotMissing` | `btcnode.go:69`: a start resumes after the greatest stored height; a lower one in flight at the stop is lost. README, as above |
| `MCBtcStopVault.cfg` | `MCBtcIndexer` | `VaultsNotMissing` | `btcnode.go:246`: a stop between header and vault transactions. README, as above |
| `MCBtcFault.cfg` | `MCBtcIndexer` | `HeightsIndexed` | `btcnode.go:293`, `:179`: a height whose call fails is not asked for again. README, as above |
| `MCBtcVaults.cfg` | `MCBtcIndexer` | `VaultsStored` | `db.go:58`: gorm takes the expression for a WHERE condition, which an INSERT has not, and one conflict fails the chunk. `db.go:57`: "Use Clauses to add conflict resolution" |
| `MCReconnect.cfg` | `Backoff` | `ReconnectWaits` | `electrum.go:71`: the shifted delay wraps, down to no wait at all. `electrum.go:58`: "with exponential backoff" |
| `MCRetryCap.cfg` | `Backoff` | `RetryIntervalCapped` | `electrum.go:141`, `evm/client.go:356`: an interval below the cap is doubled past it (5 s to 160 s). "Exponential backoff with cap", "Maximum retry interval", "Maximum 2 minutes" (`btc/client.go:91`) |
| `MCSharedDb.cfg` | `MCService` | `SharedByDefault` | `evm/client.go:82`: an EVM chain without a URL gets no adapter and panics at its first insert; `DATABASE_URL` is read nowhere. README: "Shared Database (Default)" |
| `MCVaultTest.cfg` | `MCCodec` | `DestinationAsTested` | `parser.go:237` reads eight bytes of destination, type included. `parser_test.go:40`: "dest_chain (9)"; its line 84 expects the id the code cuts a byte off |
| `MCSender.cfg` | `MCCodec` | `SenderInLowerCase` | `converter.go:93` normalises the sender for the destination's type, bitcoin, for which `NormalizeAddress` changes nothing. `converter.go:90`: "need to convert to lower case" |

### Met while modelling

These follow from the models and have no run of their own:

- `client.go:342`: `SubscribeWithRetry` subscribes again after a success.
- `parser.go:62`: every redeem output is refused, since only staking outputs
  set a destination chain. `parser.go:100` stores the tag that opens the output
  as the service tag, and nothing stores the service tag behind the flags (the
  whole script is stored, so it is not lost).
- `chain_info.go:184`: `Unmarshal` copies into a fresh slice and leaves its
  receiver unchanged.
- `utils.go`: malformed execute data panic, and `DecodeStartedSwitchPhase` always
  does; only tests call these decoders. `RedeemTokenEvent2Model` does not look at
  the type of the chain. `parser/parser.go` ignores errors of indexed arguments.
- `token.go:55`: `Save` onto the row of the same event also takes a success back,
  if `event_id` is the key.
- `btc/config.go:58`: a bad duration in an entry of `btcs.json` that is disabled
  still ends the process.

### Bounds

- EVM: blocks 0..3, two logs in block 1 (one topic, two chunks) and one in
  block 3 (another topic); windows of 2 that the node cuts to 1, so that
  recovery takes several windows and the shrink path runs; channels of capacity
  1, so that every send can block; one fault and one stop, placed anywhere by
  TLC. `evm_race` uses blocks 0..2 and three logs of different topics in two
  blocks, one of which is a typed nil and one a panic, a block without a beacon
  root, and no fault but repeated panics. One header worker: workers share nothing
  but the queue, whose order a second worker does not change for the
  properties here.
- BTC: heights 1..3, two workers in the second pool so that blocks overtake each
  other, capacity 1, one fault, one reorganisation of any depth, one stop.
  `FinalConfirmations` is 2 instead of 12, so that both sides of that test occur.
  `EndHeight` is 0, for none. The proofs are for any end height and any number
  of workers in either pool, and `MCBtcStop.cfg`
  has two in both, as a symmetry set.
- `MaxUint64` is 255: only the wrap to a value above every block matters.
- Electrum: heights 0..2, of which the last has a vault transaction and a block
  larger than the buffer; the table is empty, or lacks one or two heights; two
  replies on the wire, so that a write can find it full; one fault or a stop,
  placed anywhere by TLC (and with two missing heights none: the loops overlap
  long enough there).
- Relayer: two events, both of one transaction, so that a duplicate exists; two sessions, batches over both
  events in either order. Service: two EVM and two Bitcoin chains, two
  databases, every subset of the files readable, one failing call per start,
  two starts, two heights. With three of anything no new pair of actors meets.
- Codec: base 5 and three bytes, one value more than there are chain types, so
  that invalid types and ids too large for their place exist. Vault: right and wrong bytes at
  each place that is looked at, one byte beyond the end, every prefix. Merkle:
  blocks of 1 to 9 transactions, so that odd levels occur at every height.
  Delays: words of 10 bits and 11 attempts, past the point where the shift
  leaves the word.

`components`, `electrum_ping`, `token_race` and `db_isolation` do not check for
deadlock: an algorithm ends, a service may have ended, and the Electrum client
blocks for good on its ping (`BlockedOnlyByPing` says that nothing else does).

In the other runs the chain bounds mean that a behaviour ends in a state where only stuttering
ticks remain; the loops of the program never end, so deadlock is checked.

### Fairness

`FairSpec` and `FairBtcSpec` assume weak fairness of each goroutine: the Go
scheduler runs every goroutine that is not blocked, RPC and database calls
return, and sleeps end. Nothing is assumed of the chain (it need not grow), of
faults or of stops. No strong fairness is needed: each channel has a receiver
that keeps receiving.

`MCElectrumSpec`, which `electrum_ping` uses, assumes the same of the Electrum client's goroutines
(`Scheduled`), whose calls under the lock have deadlines. Of the monitor it
assumes only that its ticker fires while there is no connection: a ping may be
as late as `PingInterval` allows.

## Proofs

For every value of the constants that satisfies the `ASSUME`s of the modules.
TLC has checked each inductive invariant below on a small instance as well (of
`MerkleInv`, which quantifies over all functions, the same statement with `Node`
and `VerifyMerkleProof` at every level); the proof modules have one lemma per
action and part of the invariant.

**OrderedQueueProofs.** `QueueSorted`, and `QueueImplementsMinSet`, the
refinement. Strict order is the inductive invariant of both: without it `Pop`'s
first element is not the minimum and the scan of `Push` could miss a duplicate.

**EvmIndexerProofs.** `TypeCorrect`; and, if the fetchers do not overlap
(`~Overlap`), whatever the faults and stops, `PipelineInvariant`,
`FetchingIsComplete` (`CheckpointSound` and `RecoveryComplete`) and
`NoGapBetweenFetchers`. The last three are not inductive: `PipelineInv` adds
that each window in progress starts at the end of an accounted-for prefix
(`WindowSound`), that the query still holds the window its goroutine wrote, that
only one goroutine fetches, and that realtime starts no later than recovery
ends. A lemma per goroutine shows that a log never leaves `Accounted`. Without
`~Overlap` the theorem is false: `evm_race_recovery`.

The second half of the module is what holds with and without overlap:
`HeadersFollowEvents` (`SavedHasHeader`; `HandOver` says that the blocks of a batch being saved were
handed to `fetchBlocks` first), `CheckpointInChain` (`CheckpointWithinChain`;
`WithinChain` also bounds the head each goroutine has read and the end in the
shared query, which is what gets stored), `PoisonStaysInTopic` (`PoisonContained`; `OneTopic`:
the records of one save are of one topic; `PanicLoses`: a panic finds its cause
in the memory it empties). `CheckpointNeverMovesBack`
(`CheckpointForward`) needs `~Overlap` and `WindowAhead`: recovery's
window starts after the checkpoint and the end in the query is not before it. With overlap it is false, even if no
call fails: recovery may store an end that is older than the checkpoint the
realtime loop has written.

**BtcIndexerProofs.** `IndexIsAppendOnly` rests on `NoForkPoint` (no stored hash
is a hash of the chain) and shows at once that good rows are never lost and that
no reorganisation is ever rolled back. `BtcTypeCorrect`. `FlightInvariant`: the
eight places of the pipeline share no height, those heights are below the
orchestrator's, and the accounted ones have no hole, which is what a restart
from the greatest stored height relies on. From it `NoHeightVanishes`
(`HeightsAccounted`), `NoVaultVanishes` (`VaultsAccounted`) and, while no call
fails, `VaultsMatchHeaders` (`VaultsUnderHeader`): a height in flight has no row
yet unless its block is the one between header and vault transactions.

**ElectrumProofs.** `ElectrumInvariant` is the types with the facts about the
lock that the rest needs: without a connection the wire is empty, readers hold
the lock only while `isConnected` is set, and the ping that waits for its own
lock never writes. From it `ElectrumTypeCorrect`, `ConnectionFlagTrue`
(`ConnConsistent`), `DiesOnlyOfFaults` (`DiesOfFaultsOnly`; `LiveLink`: without
a fault or stop a call past its check has its connection),
`CrossedOnlyWhenSuspect` (`NoCrossing`; `ReplyOwned`: on a connection that is
not suspect the wire holds at most the reply to the one call that is waiting)
and `NothingSkipped` (`IndexFaithful`; `IndexCovered`: what lies between the
table, `lastHeight` and the positions of the two loops).

**ServiceProofs**, for any configuration files: `ServiceTypeCorrect` (the
adapter is never replaced; while there is none, the only clients are EVM ones
without a URL), `EvmChainsDoNotHide` (`EvmChainsSeparate`), and, for files that list no chain twice
(`DistinctChains`), `FailuresStayContained` (`FailureContained`; `Progress` says
which entries the loops have been through, `FaultsPaid` counts). With a name
listed twice a chain can be both running and rejected.

**RelayerStoreProofs**, for any events, transactions and sessions.
`DeletesOnlyPending`, `SuccessLostOnlyByRace` and `FoundTokensStay` follow from
`TokenInv`: rows deleted by an open transaction stay pending, belong to one
session, and are replaced by an event of their transaction; a picked row that
has become success is in `raced`. `SuccessLostOnlyByRace` delimits what
`token_race` shows: a success is taken back by that race, or by `Save` onto the
same event, and by no third interleaving. `BatchesStayWhole` and `FoundCallsStay` are
about any set of batches and rest on `RowLocksExclusive`: two open batches never
hold the same row. Tokens and calls are two specifications (`TokenSpec`,
`CallSpec`), since their tables have no lock in common.

**NumberProofs.** Induction and division of natural numbers, and the two parts
that count in powers of two.

- `DelaysStayBounded` (`ReconnectBacksOff`), for any word width, delays and number
  of attempts.
- `ProofsVerify` (`ProofVerifies`), for a block of any size. `MerkleInv` carries
  what holds after each round of the loop: the hashes are a level of the tree
  (`IsLevel`), rounds done and hashes left are together no more than the
  transactions (so the powers of two needed are bounded), the index is the place
  of the transaction's ancestor, and the path so far leads from the
  transaction to that ancestor and from no other transaction (`LeadsTo`); the
  property says the last only of the finished proof, which is not inductive.
  `LevelAbove` and `LeadsFurther` are the step: halving a level rounds up as the
  width of the tree does (`WidthHalves`), and bit `i` of the position says on
  which side the sibling of round `i` stands (`ParentAbove`).

**CodecProofs.** The conversions.

- `ChainsSurvive` (`ChainInfoSurvives`), for every byte base and every size of
  the encoding. `SumsOfId`: reading byte after byte gives the digits of the id
  seen so far, without the first one, whose place the type takes.
- `StakingIsReadBack` (`StakingReadBack`), for any field sizes, tag, version and
  scripts. `StakingParsed`, `OutputParsed` and `TxParsed` say when the three
  nested parsers accept, `BytesReadBack` and `FieldsReadBack` that the stored
  fields written one after the other are the script behind the service tag.

What a recursive definition computes is proved in two ways. Where the recursion
follows steps of the specification, as in the Merkle proof, the inductive
invariant carries the induction. Elsewhere the proofs use `SetInduction`: a set
of natural numbers that holds 0 and with each number its successor is `Nat`.
The induction theorems of the library take a predicate, which the provers do not
instantiate; a set they do. That such a recursive function exists (`SumsExist`,
`TreeHigher`, `LeadsFurther`) is part of the proof: a function defined by
`CHOOSE` meets its equation only if some function does.

The provers have no rule for exponents. That powers are the result of
multiplying is an `ASSUME` of the modules that use them (`PowersOfTwo`,
`LevelPowers`, `PowersOfByteBase`); it is true of every value of the constants,
and TLC evaluates it for those of the run. `VaultAssumption` says that the flags
of the two redeem outputs differ (`parser.go`: `0b01000001` and `0b10000001`):
without that the order of the tests in `ParseVaultReturnTxOutput` would decide.

Model-checked only: all liveness properties (`RecoveryFinishes`,
`RecoveredArrive`, `HeadersArrive`, `HeightsSettled`, `VaultsSettled`: TLAPS does
not reason about fairness), and `BlockedOnlyByPing`,
which uses `ENABLED`. Every other property of a passing run is stated by a
theorem.

## Not modelled

- ABI decoding (a library), the generated bindings, hex formatting, SQL of the
  migrations, logging.
- Contents of records that are copied field by field: one converter stands for
  those that do nothing else.
- Reorganisations of EVM chains: the code has no step that notices one.
- Inserts into tables nothing in the repository reads (deployed tokens, executed
  commands, phases, redeems).
- Code that nothing calls and that has no state: `defineChunks`, `GetBlockTime`.
- The Electrum client as part of the service: `Service` starts
  `StartBtcIndexer` only.

## Plan

Every safety property of a passing run but `BlockedOnlyByPing` is proved. What is
left is the hazards that no property of a run covers; `PROJECT.json` says of each
why, and which further configuration shows it where one does.
