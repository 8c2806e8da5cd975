----------------------------- MODULE BtcIndexer -----------------------------
(***************************************************************************)
(* One BtcClient run by StartBtcIndexer (pkg/btc/btcnode.go): the          *)
(* orchestrator pushes heights; one pool of workers turns heights into     *)
(* hashes, a second pool turns hashes into blocks; a single goroutine      *)
(* indexes the blocks in the order in which they come out of the pools.    *)
(* Three channels connect them.  A call that fails is logged and its       *)
(* height dropped.  The process may stop at any moment; a restart resumes  *)
(* after the greatest height in the table.                                 *)
(***************************************************************************)
EXTENDS BtcReorg

CONSTANTS
    StartHeight,         \* BtcConfig.StartHeight
    EndHeight,           \* BtcConfig.EndHeight, 0 for none
    FinalConfirmations,  \* FINAL_CONFIRMATIONS, 12
    ChanCap,             \* capacity of the channels (1024 in the code)
    HashWorkers,         \* the goroutines of fetchBlockHashes
    DataWorkers,         \* the goroutines of fetchBlockData
    WithVault,           \* heights whose blocks hold vault transactions
    MaxFaults, MaxReorgs, MaxStops   \* bounds on what goes wrong

ASSUME BtcConfigAssumption ==
    /\ StartHeight \in Nat /\ EndHeight \in Nat
    /\ FinalConfirmations \in Nat /\ ChanCap \in Nat \ {0}
ASSUME BtcWorkersAssumption ==
    IsFiniteSet(HashWorkers) /\ IsFiniteSet(DataWorkers)
ASSUME BtcBoundsAssumption ==
    MaxFaults \in Nat /\ MaxReorgs \in Nat /\ MaxStops \in Nat

VARIABLES
    best,        \* the best block of the node
    reorgs, faults, stops,
    opc,         \* where the orchestrator is
    next,        \* startHeight, then the height pushed next
    end,         \* endHeight
    tip,         \* lastBlockHeight, an atomic word
    heightChan, hashesChan, blockChan,
    asking,      \* asking[w]: the height hash worker w asks for, as a set
    hashed,      \* hashed[w]: the hash it is about to send
    fetching,    \* fetching[w]: the hash data worker w asks for
    fetched,     \* fetched[w]: the block it is about to send
    ipc,         \* where indexBlock is
    block,       \* the block it is indexing
    given,       \* history: heights given up on an error
    lost         \* history: heights in memory when the process stopped

nodeVars == <<best, reorgs>>
pushVars == <<opc, next, end, tip, heightChan>>
poolVars == <<asking, hashed, hashesChan, fetching, fetched>>
btcVars == <<nodeVars, faults, stops, pushVars, poolVars, blockChan,
             ipc, block, given, lost, indexVars>>

Fault == faults < MaxFaults /\ faults' = faults + 1
NoFault == faults' = faults

Empty(workers) == [w \in workers |-> {}]
NoBlock == << >>

BtcInit ==
    /\ IndexInit
    /\ best \in {<<Chain>> \o [i \in 1..h |-> 0] : h \in 0..MaxHeight}
    /\ reorgs = 0 /\ faults = 0 /\ stops = 0
    /\ opc = "start" /\ next = 0 /\ end = 0 /\ tip = 0
    /\ heightChan = << >> /\ hashesChan = << >> /\ blockChan = << >>
    /\ asking = Empty(HashWorkers) /\ hashed = Empty(HashWorkers)
    /\ fetching = Empty(DataWorkers) /\ fetched = Empty(DataWorkers)
    /\ ipc = "receive" /\ block = NoBlock
    /\ given = {} /\ lost = {}

-----------------------------------------------------------------------------
(* External: the node's best chain grows, or a longer branch replaces the  *)
(* blocks above height k.                                                  *)
Mine ==
    /\ HeightOf(best) < MaxHeight
    /\ best' = Append(best, reorgs)
    /\ UNCHANGED reorgs

Reorganise ==
    /\ reorgs < MaxReorgs
    /\ HeightOf(best) < MaxHeight
    /\ reorgs' = reorgs + 1
    /\ \E k \in 0..(HeightOf(best) - 1) :
        best' = SubSeq(best, 1, k + 1)
                    \o [i \in 1..(HeightOf(best) + 1 - k) |-> reorgs + 1]

NodeStep ==
    /\ Mine \/ Reorganise
    /\ UNCHANGED <<faults, stops, pushVars, poolVars, blockChan, ipc, block,
                   given, lost, indexVars>>

-----------------------------------------------------------------------------
(* Deviation used to test the properties: the last indexed height is       *)
(* fetched again.                                                          *)
MutFirstHeight(last) == IF StartHeight < last THEN last ELSE StartHeight

FirstHeight(last) == IF StartHeight < last + 1 THEN last + 1 ELSE StartHeight

(* orchestrateFetching: where to start; an error reads as height 0.        *)
StartFetching ==
    /\ opc = "start"
    /\ \E last \in 0..MaxHeight :
        /\ (LatestIndexed(last) /\ NoFault) \/ (last = 0 /\ Fault)
        /\ next' = FirstHeight(last)
    /\ opc' = "tick"
    /\ UNCHANGED <<end, tip, heightChan>>

(* Deviation used to test the properties: off by one.                      *)
MutLastToFetch(height) == height + 1

LastToFetch(height) ==
    IF height > EndHeight /\ EndHeight > 0 THEN EndHeight ELSE height

(* One tick: read the best height; push the new heights, if any.           *)
Tick ==
    /\ opc = "tick"
    /\ NoFault
    /\ tip' = HeightOf(best)
    /\ end' = LastToFetch(HeightOf(best))
    /\ opc' = IF next > LastToFetch(HeightOf(best)) THEN "tick" ELSE "push"
    /\ UNCHANGED <<next, heightChan>>

TickFails ==
    /\ opc = "tick"
    /\ Fault
    /\ UNCHANGED pushVars

(* Deviation used to test the properties: the last height of a round is    *)
(* left out.                                                               *)
MutPushHeight ==
    /\ opc = "push"
    /\ Len(heightChan) < ChanCap
    /\ heightChan' = IF next < end THEN Append(heightChan, next) ELSE heightChan
    /\ next' = next + 1
    /\ opc' = IF next + 1 > end THEN "tick" ELSE "push"
    /\ NoFault
    /\ UNCHANGED <<end, tip>>

(* blockHeightChan <- height                                               *)
PushHeight ==
    /\ opc = "push"
    /\ Len(heightChan) < ChanCap
    /\ heightChan' = Append(heightChan, next)
    /\ next' = next + 1
    /\ opc' = IF next + 1 > end THEN "tick" ELSE "push"
    /\ NoFault
    /\ UNCHANGED <<end, tip>>

Orchestrate ==
    /\ StartFetching \/ Tick \/ TickFails \/ PushHeight
    /\ UNCHANGED <<nodeVars, stops, poolVars, blockChan, ipc, block,
                   given, lost, indexVars>>

-----------------------------------------------------------------------------
(* A worker of fetchBlockHashes.                                           *)
TakeHeight(w) ==
    /\ asking[w] = {} /\ hashed[w] = {}
    /\ heightChan # << >>
    /\ asking' = [asking EXCEPT ![w] = {Head(heightChan)}]
    /\ heightChan' = Tail(heightChan)
    /\ UNCHANGED <<hashed, hashesChan, faults, given>>

GetBlockHash(w) ==
    /\ \E h \in asking[w] :
        /\ h <= HeightOf(best)
        /\ hashed' = [hashed EXCEPT ![w] = {SubSeq(best, 1, h + 1)}]
    /\ asking' = [asking EXCEPT ![w] = {}]
    /\ UNCHANGED <<heightChan, hashesChan, faults, given>>

GetBlockHashFails(w) ==
    /\ asking[w] # {}
    /\ Fault
    /\ given' = given \cup asking[w]
    /\ asking' = [asking EXCEPT ![w] = {}]
    /\ UNCHANGED <<heightChan, hashed, hashesChan>>

(* blockHashesChan <- hash                                                 *)
SendHash(w) ==
    /\ Len(hashesChan) < ChanCap
    /\ \E b \in hashed[w] : hashesChan' = Append(hashesChan, b)
    /\ hashed' = [hashed EXCEPT ![w] = {}]
    /\ UNCHANGED <<heightChan, asking, faults, given>>

FetchHash(w) ==
    /\ TakeHeight(w) \/ GetBlockHash(w) \/ GetBlockHashFails(w) \/ SendHash(w)
    /\ UNCHANGED <<nodeVars, stops, opc, next, end, tip, fetching, fetched,
                   blockChan, ipc, block, lost, indexVars>>

-----------------------------------------------------------------------------
(* A worker of fetchBlockData.                                             *)
TakeHash(w) ==
    /\ fetching[w] = {} /\ fetched[w] = {}
    /\ hashesChan # << >>
    /\ fetching' = [fetching EXCEPT ![w] = {Head(hashesChan)}]
    /\ hashesChan' = Tail(hashesChan)
    /\ UNCHANGED <<fetched, blockChan, faults, given>>

(* A node also serves blocks that are no longer on its best chain.         *)
GetBlock(w) ==
    /\ fetching[w] # {}
    /\ fetched' = [fetched EXCEPT ![w] = fetching[w]]
    /\ fetching' = [fetching EXCEPT ![w] = {}]
    /\ UNCHANGED <<hashesChan, blockChan, faults, given>>

GetBlockFails(w) ==
    /\ fetching[w] # {}
    /\ Fault
    /\ given' = given \cup {HeightOf(b) : b \in fetching[w]}
    /\ fetching' = [fetching EXCEPT ![w] = {}]
    /\ UNCHANGED <<hashesChan, fetched, blockChan>>

(* Deviation used to test the properties: a full channel drops the block.  *)
MutSendBlock(w) ==
    /\ \E b \in fetched[w] :
        blockChan' = IF Len(blockChan) < ChanCap
                     THEN Append(blockChan, b) ELSE blockChan
    /\ fetched' = [fetched EXCEPT ![w] = {}]
    /\ UNCHANGED <<hashesChan, fetching, faults, given>>

(* blockChan <- block                                                      *)
SendBlock(w) ==
    /\ Len(blockChan) < ChanCap
    /\ \E b \in fetched[w] : blockChan' = Append(blockChan, b)
    /\ fetched' = [fetched EXCEPT ![w] = {}]
    /\ UNCHANGED <<hashesChan, fetching, faults, given>>

FetchBlock(w) ==
    /\ TakeHash(w) \/ GetBlock(w) \/ GetBlockFails(w) \/ SendBlock(w)
    /\ UNCHANGED <<nodeVars, stops, pushVars, asking, hashed, ipc, block,
                   lost, indexVars>>

-----------------------------------------------------------------------------
(* indexBlock.  A block within FinalConfirmations of the last height read  *)
(* by the orchestrator is checked for a reorganisation first.              *)
ReceiveBlock ==
    /\ ipc = "receive"
    /\ blockChan # << >>
    /\ block' = Head(blockChan)
    /\ blockChan' = Tail(blockChan)
    /\ ipc' = IF HeightOf(Head(blockChan)) > tip - FinalConfirmations
              THEN "check" ELSE "header"
    /\ UNCHANGED <<faults, given, indexVars>>

(* extractBlockHeader, or NewHashFromStr before the check, fails on what   *)
(* the node sent: logged, and the block is skipped.                        *)
ReceiveBlockFails ==
    /\ ipc = "receive"
    /\ blockChan # << >>
    /\ Fault
    /\ given' = given \cup {HeightOf(Head(blockChan))}
    /\ blockChan' = Tail(blockChan)
    /\ UNCHANGED <<ipc, block, indexVars>>

CheckReorg ==
    /\ ipc = "check"
    /\ DetectAndHandleReorg(block)
    /\ ipc' = "header"
    /\ UNCHANGED <<block, blockChan, faults, given>>

Done ==
    /\ ipc' = "receive"
    /\ block' = NoBlock

(* StoreBlockHeader; its error is not looked at.                           *)
StoreBlockHeader ==
    /\ ipc = "header"
    /\ \/ CreateBtcBlockHeader(block) /\ NoFault /\ UNCHANGED given
       \/ Fault /\ given' = given \cup {HeightOf(block)} /\ UNCHANGED rows
    /\ IF HeightOf(block) \in WithVault
       THEN ipc' = "vaults" /\ UNCHANGED block ELSE Done
    /\ UNCHANGED <<blockChan, vaults, partial>>

(* Deviation used to test the properties: the block is skipped.            *)
MutStoreVaults ==
    /\ ipc = "vaults"
    /\ NoFault
    /\ Done
    /\ UNCHANGED <<blockChan, indexVars, given>>

(* One of the vault transactions of b may be in the table already: from an *)
(* earlier attempt at b, or from a block of another branch, which held it  *)
(* before it was mined again.                                              *)
OneChain(b, c) == \A i \in (1..Len(b)) \cap (1..Len(c)) : b[i] = c[i]

MayRepeat(b) == \E c \in vaults \cup partial : c = b \/ ~OneChain(b, c)

(* ParseVaultTxRawResult of each transaction and StoreVaultTransactions:   *)
(* the block is stored with all of its vault transactions ...              *)
StoreVaultTransactions ==
    /\ ipc = "vaults"
    /\ block \notin vaults
    /\ vaults' = vaults \cup {block}
    /\ NoFault
    /\ Done
    /\ UNCHANGED <<blockChan, rows, partial, given>>

(* ... or a transaction does not parse (the call for the output it spends  *)
(* fails) and is skipped, or the insert fails.  gorm takes the ON CONFLICT *)
(* expression for a condition, of which an INSERT has none: a transaction  *)
(* that is there already fails its whole chunk.                            *)
StoreVaultsFails ==
    /\ ipc = "vaults"
    /\ Fault \/ (MayRepeat(block) /\ NoFault)
    /\ partial' = partial \cup {block}
    /\ Done
    /\ UNCHANGED <<blockChan, rows, vaults, given>>

IndexBlock ==
    /\ \/ ReceiveBlock \/ ReceiveBlockFails \/ CheckReorg
       \/ StoreBlockHeader \/ StoreVaultTransactions \/ StoreVaultsFails
    /\ UNCHANGED <<nodeVars, stops, pushVars, poolVars, lost>>

-----------------------------------------------------------------------------
Elements(chan) == {chan[i] : i \in 1..Len(chan)}

(* The blocks and the heights between the orchestrator and the table.      *)
BlocksInFlight ==
    (UNION {hashed[w] : w \in HashWorkers}) \cup Elements(hashesChan)
        \cup (UNION {fetching[w] \cup fetched[w] : w \in DataWorkers})
        \cup Elements(blockChan) \cup ({block} \ {NoBlock})

InFlight ==
    Elements(heightChan) \cup (UNION {asking[w] : w \in HashWorkers})
        \cup {HeightOf(b) : b \in BlocksInFlight}

(* The process stops, by a signal or a crash, and is started again.        *)
Restart ==
    /\ stops < MaxStops
    /\ stops' = stops + 1
    /\ lost' = lost \cup InFlight
    /\ opc' = "start" /\ next' = 0 /\ end' = 0 /\ tip' = 0
    /\ heightChan' = << >> /\ hashesChan' = << >> /\ blockChan' = << >>
    /\ asking' = Empty(HashWorkers) /\ hashed' = Empty(HashWorkers)
    /\ fetching' = Empty(DataWorkers) /\ fetched' = Empty(DataWorkers)
    /\ ipc' = "receive" /\ block' = NoBlock
    /\ UNCHANGED <<nodeVars, faults, given, indexVars>>

BtcNext ==
    \/ NodeStep \/ Orchestrate
    \/ \E w \in HashWorkers : FetchHash(w)
    \/ \E w \in DataWorkers : FetchBlock(w)
    \/ IndexBlock \/ Restart

BtcSpec == BtcInit /\ [][BtcNext]_btcVars

(* The goroutines run; the node need not mine and the process not stop.    *)
FairBtcSpec ==
    /\ BtcSpec
    /\ WF_btcVars(Orchestrate) /\ WF_btcVars(IndexBlock)
    /\ \A w \in HashWorkers : WF_btcVars(FetchHash(w))
    /\ \A w \in DataWorkers : WF_btcVars(FetchBlock(w))

-----------------------------------------------------------------------------
IsBlock(b) == Len(b) > 1 /\ Head(b) = Chain /\ HeightOf(b) <= MaxHeight

(* Every variable stays in its type, every block in flight has a height    *)
(* that the table can hold, and no channel exceeds its capacity.           *)
BtcTypeOK ==
    /\ opc \in {"start", "tick", "push"}
    /\ ipc \in {"receive", "check", "header", "vaults"}
    /\ next \in 0..(MaxHeight + StartHeight + 1) /\ end \in 0..MaxHeight
    /\ tip \in 0..HeightOf(best)
    /\ Len(heightChan) <= ChanCap /\ Len(hashesChan) <= ChanCap
    /\ Len(blockChan) <= ChanCap
    /\ \A b \in BlocksInFlight : IsBlock(b)
    /\ InFlight \subseteq Heights
    /\ \A h \in Heights : HasRow(h) => IsBlock(rows[h]) /\ HeightOf(rows[h]) = h
    /\ (ipc = "receive") = (block = NoBlock)

(* The heights the orchestrator is past.                                   *)
Passed == {h \in Heights : FirstHeight(0) <= h /\ h < next}

(* No height vanishes between the orchestrator, the two pools and the      *)
(* table, or below the height a restart resumes at, unless an error was    *)
(* logged for it or it was in flight when the process stopped.             *)
HeightsAccounted ==
    \A h \in Passed : HasRow(h) \/ h \in InFlight \cup given \cup lost

(* The same for vault transactions, which are written after the header     *)
(* that keeps a restart from looking at the block again.                   *)
VaultsAccounted ==
    \A h \in WithVault : HasRow(h) =>
        rows[h] \in vaults \cup partial \/ h \in InFlight \cup lost

(* The two tables agree: without a fault, vault transactions are stored    *)
(* only for the block whose header is stored at that height, also after a  *)
(* restart and when the chain was reorganised in between.                  *)
VaultsUnderHeader ==
    faults = 0 => \A b \in vaults : rows[HeightOf(b)] = b

(* A stored row stays.  Since no stored hash equals a hash of the chain,   *)
(* each recent block whose parent is stored looks like a reorganisation to *)
(* DetectAndHandleReorg: only the failure of findForkPoint to find a fork  *)
(* point keeps it from deleting blocks of the best chain.                  *)
IndexNeverWiped ==
    [][\A h \in Heights : HasRow(h) => rows'[h] = rows[h]]_btcVars

(* Every height up to the end of the chain gets its row, out of order or   *)
(* not, with the channels full or not, unless a call failed for it or the  *)
(* process stopped while it was in flight.                                 *)
HeightsSettled ==
    \A h \in Heights :
        (FirstHeight(0) <= h /\ h <= LastToFetch(HeightOf(best)))
            ~> (HasRow(h) \/ h \in given \cup lost)

(* indexBlock goes on from the header to the vault transactions of the     *)
(* block, and stores them or logs why not, unless the process stopped in   *)
(* between.                                                                *)
VaultsSettled ==
    \A h \in WithVault :
        HasRow(h) ~> (rows[h] \in vaults \cup partial \/ h \in lost)

(* db.go: "Use Clauses to add conflict resolution": while no call fails,   *)
(* the vault transactions of a stored block are stored, also when the      *)
(* chain was reorganised and the block repeats one of them.                *)
VaultsStored ==
    \A h \in WithVault : HasRow(h) ~> (rows[h] \in vaults)

-----------------------------------------------------------------------------
(* reorg.go: the handler "checks if the new block connects to the current  *)
(* tip.  If not, it rolls back to the fork point": a stored block whose    *)
(* parent height has a row is a child of that row.                         *)
RowsConnect ==
    \A h \in Heights : HasRow(h) /\ HasRow(h - 1) =>
        rows[h - 1] = PrevBlock(rows[h])

(* README.md: "Automatic recovery of missing events and blocks".  A height *)
(* whose call failed once is asked for again ...                           *)
HeightsIndexed ==
    \A h \in Heights :
        (FirstHeight(0) <= h /\ h <= LastToFetch(HeightOf(best))) ~> HasRow(h)

(* ... a height below the greatest in the table, after which every start   *)
(* resumes, is stored or in flight ...                                     *)
BlocksNotMissing ==
    \A h \in Passed : (\E g \in Heights : g > h /\ HasRow(g)) =>
        HasRow(h) \/ h \in InFlight

(* ... and so are the vault transactions of a block that has its header,   *)
(* to which no start comes back.                                           *)
VaultsNotMissing ==
    \A h \in WithVault : HasRow(h) => rows[h] \in vaults \/ h \in InFlight
=============================================================================
