------------------------------ MODULE EvmState ------------------------------
(***************************************************************************)
(* The state the goroutines of one EvmClient (pkg/evm) share: the chain as *)
(* its RPC node shows it, the two Go channels made by EvmClient.Start, and *)
(* the rows of the database.  EvmFetcher, EvmProcessor and EvmBlocks add   *)
(* the goroutines; EvmIndexer composes them.                               *)
(*                                                                         *)
(* A log is a number whose order is the order in the chain; only what the  *)
(* indexer tells apart is kept of it: its block, its event topic, and what *)
(* becomes of it in parseEventLog and SaveRecords.                         *)
(***************************************************************************)
EXTENDS Naturals, Sequences, FiniteSets

CONSTANTS
    MaxHead,      \* bound on the height of the chain
    Logs,         \* the gateway's logs in blocks 1..MaxHead
    BlockOf,      \* BlockOf[l]: the block that holds log l
    TopicOf,      \* TopicOf[l]: its topic, that is, its event
    KindOf,       \* KindOf[l]: what parseEventLog makes of it, see EvmProcessor
    ChanCap,      \* capacity of both channels (1024 in the code)
    MaxFaults     \* bound on the faults of the node and of the database

Blocks == 0..MaxHead
Topics == {TopicOf[l] : l \in Logs}

ASSUME MaxHeadAssumption == MaxHead \in Nat
ASSUME LogsAssumption ==
    /\ Logs \subseteq Nat
    /\ BlockOf \in [Logs -> 1..MaxHead]
    /\ DOMAIN TopicOf = Logs
    /\ KindOf \in [Logs -> {"ok", "bad", "nil", "panic"}]
ASSUME ChanCapAssumption == ChanCap \in Nat \ {0}
ASSUME MaxFaultsAssumption == MaxFaults \in Nat

VARIABLES
    head,         \* the newest block of the chain
    faults,       \* how many calls have failed so far
    logsChan,     \* chan []types.Log, each message a set of logs
    heightsChan,  \* blockHeightsChan, chan map[uint64]uint8
    ckpt,         \* LogEventCheckPoint.LastBlock, 0 when there is no row
    saved,        \* the logs whose record is in its event table
    headers,      \* the blocks whose BlockHeader row exists
    dropped,      \* history: logs given up on a parse or a save error
    lost          \* history: logs in memory when the process stopped

chainVars == <<head, faults>>
dbVars == <<ckpt, saved, headers>>
historyVars == <<dropped, lost>>

InBlocks(a, b) == {l \in Logs : a <= BlockOf[l] /\ BlockOf[l] <= b}

(* The logs and the heights waiting in a channel.                          *)
Queued(chan) == UNION {chan[i] : i \in 1..Len(chan)}

(* A call to the node or to the database that goes wrong.                  *)
Fault == faults < MaxFaults /\ faults' = faults + 1
NoFault == faults' = faults

(* External: the chain grows by one block at a time and never reorganises. *)
NewBlock ==
    /\ head < MaxHead
    /\ head' = head + 1

-----------------------------------------------------------------------------
(* The database calls.  GetLatestFetchedBlock gives 0 when there is no row *)
(* and when the query fails; UpdateLatestFetchedBlock is an upsert that    *)
(* drops its error; the inserts ignore the rows that are already there.    *)
GetLatestFetchedBlock(last) ==
    (last = ckpt /\ NoFault) \/ (last = 0 /\ Fault)

UpdateLatestFetchedBlock(b) ==
    (ckpt' = b /\ NoFault) \/ (ckpt' = ckpt /\ Fault)

CreateBlockHeaders(bs) == headers' = headers \cup bs

InsertRecords(chunk) == saved' = saved \cup chunk

-----------------------------------------------------------------------------
StateTypeOK ==
    /\ head \in Blocks /\ faults \in 0..MaxFaults
    /\ logsChan \in Seq(SUBSET Logs) /\ Len(logsChan) <= ChanCap
    /\ heightsChan \in Seq(SUBSET Blocks) /\ Len(heightsChan) <= ChanCap
    /\ ckpt \in Blocks
    /\ saved \subseteq Logs /\ headers \subseteq Blocks
    /\ dropped \subseteq Logs /\ lost \subseteq Logs

StateInit ==
    /\ head \in Blocks
    /\ faults = 0
    /\ logsChan = << >>
    /\ heightsChan = << >>
    /\ ckpt = 0
    /\ saved = {}
    /\ headers = {}
    /\ dropped = {}
    /\ lost = {}
=============================================================================
