------------------------------ MODULE EvmBlocks ------------------------------
(***************************************************************************)
(* fetchBlocks (pkg/evm/fetcher.go): a dispatcher moves the block numbers  *)
(* of blockHeightsChan into an OrderedQueue; FetchThread workers pop them, *)
(* fetch the block and insert its header.  A block that cannot be fetched  *)
(* or stored is not queued again.                                          *)
(***************************************************************************)
EXTENDS EvmState

CONSTANTS
    Workers,     \* the FetchThread worker goroutines
    NoBeacon     \* blocks without a beacon root

ASSUME WorkersAssumption == Workers # {} /\ IsFiniteSet(Workers)
ASSUME NoBeaconAssumption == NoBeacon \subseteq Blocks

VARIABLES
    queue,       \* blockQueue
    pushing,     \* the received block numbers not pushed yet
    working,     \* working[w]: the block worker w holds, as a set
    missed       \* history: blocks given up, or in memory at a stop

blocksVars == <<queue, pushing, working>>

INSTANCE OrderedQueue WITH Items <- Blocks

Idle == [w \in Workers |-> {}]

BlocksTypeOK ==
    /\ queue \in Seq(Blocks) /\ pushing \subseteq Blocks
    /\ working \in [Workers -> SUBSET Blocks]
    /\ missed \subseteq Blocks

BlocksInit ==
    /\ queue = << >>
    /\ pushing = {}
    /\ working = Idle
    /\ missed = {}

-----------------------------------------------------------------------------
ReceiveHeights ==
    /\ pushing = {}
    /\ heightsChan # << >>
    /\ pushing' = Head(heightsChan)
    /\ heightsChan' = Tail(heightsChan)
    /\ UNCHANGED <<queue, working, missed, headers, faults>>

(* range blockHeights: in any order.                                       *)
PushHeight(b) ==
    /\ b \in pushing
    /\ Push(b)
    /\ pushing' = pushing \ {b}
    /\ UNCHANGED <<working, missed, heightsChan, headers, faults>>

PopBlock(w, b) ==
    /\ working[w] = {}
    /\ Pop(b)
    /\ working' = [working EXCEPT ![w] = {b}]
    /\ UNCHANGED <<pushing, missed, heightsChan, headers, faults>>

(* Deviation used to test the properties: the block is fetched and its     *)
(* header is not inserted.                                                 *)
MutStoreHeader(w) ==
    /\ working[w] # {}
    /\ working[w] \cap NoBeacon = {}
    /\ working' = [working EXCEPT ![w] = {}]
    /\ UNCHANGED <<queue, pushing, missed, heightsChan, headers, faults>>

(* The block is fetched and its header inserted.                           *)
StoreHeader(w) ==
    /\ working[w] # {}
    /\ working[w] \cap NoBeacon = {}
    /\ CreateBlockHeaders(working[w])
    /\ working' = [working EXCEPT ![w] = {}]
    /\ UNCHANGED <<queue, pushing, missed, heightsChan, faults>>

(* BlockByNumber or the insert fails: logged, and the block is forgotten.  *)
SkipBlock(w) ==
    /\ working[w] # {}
    /\ Fault
    /\ missed' = missed \cup working[w]
    /\ working' = [working EXCEPT ![w] = {}]
    /\ UNCHANGED <<queue, pushing, heightsChan, headers>>

(* block.BeaconRoot().Bytes() dereferences nil: the whole process dies,    *)
(* see EvmIndexer.                                                         *)
Panics(w) == working[w] \cap NoBeacon # {}

DispatcherStep == ReceiveHeights \/ \E b \in Blocks : PushHeight(b)

WorkerStep(w) ==
    StoreHeader(w) \/ SkipBlock(w) \/ \E b \in Blocks : PopBlock(w, b)

(* The blocks between the channel and the table.                           *)
BlocksInMemory ==
    Queued(heightsChan) \cup pushing \cup {queue[i] : i \in 1..Len(queue)}
        \cup UNION {working[w] : w \in Workers}
=============================================================================
