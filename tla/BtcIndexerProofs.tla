-------------------------- MODULE BtcIndexerProofs --------------------------
(***************************************************************************)
(* Proofs about BtcIndexer, for every height of the chain, number of       *)
(* workers and capacity of the channels.                                   *)
(***************************************************************************)
EXTENDS BtcIndexer, SequenceTheorems, TLAPS

(* The table of rows always is a function on the heights.                  *)
RowsFunction == rows = [h \in Heights |-> rows[h]]

(* Only indexBlock writes the rows, and only in these two steps.           *)
WritesRows == StoreBlockHeader \/ CheckReorg

-----------------------------------------------------------------------------
(* No stored hash is a hash of the chain, so that findForkPoint never      *)
(* finds a fork point.                                                     *)
LEMMA NoForkPoint ==
    ASSUME NEW t, NEW b
    PROVE  ForkPoint(t, Hash(b)) = {}
<1>1. ASSUME NEW h PROVE StoredHash(rows[h]) # Hash(b)
  <2>1. StoredHash(rows[h]).stamp = "indexed" BY DEF StoredHash
  <2>2. Hash(b).stamp = "mined" BY DEF Hash
  <2> QED BY <2>1, <2>2
<1> QED BY <1>1 DEF ForkPoint

(* Hence DetectAndHandleReorg keeps every row.                             *)
LEMMA ReorgKeepsRows ==
    ASSUME NEW b, DetectAndHandleReorg(b)
    PROVE  /\ rows' = [g \in Heights |-> rows'[g]]
           /\ \A h \in Heights : rows'[h] = rows[h]
<1>1. KeptHeight(b) = MaxHeight
  BY NoForkPoint DEF KeptHeight
<1>2. rows' = [g \in Heights |-> IF g >= MaxHeight + 1 THEN NoRow ELSE rows[g]]
  BY <1>1 DEF DetectAndHandleReorg, DeleteBlockAndTxsFromHeight
<1>3. ASSUME NEW h \in Heights PROVE ~(h >= MaxHeight + 1)
  BY MaxHeightAssumption DEF Heights
<1> QED BY <1>2, <1>3

(* An insert keeps every row that is there.                                *)
LEMMA InsertKeepsRows ==
    ASSUME NEW b, RowsFunction, CreateBtcBlockHeader(b)
    PROVE  /\ rows' = [g \in Heights |-> rows'[g]]
           /\ \A h \in Heights : HasRow(h) => rows'[h] = rows[h]
<1>1. CASE HasRow(HeightOf(b))
  BY <1>1 DEF CreateBtcBlockHeader, RowsFunction
<1>2. CASE ~HasRow(HeightOf(b))
  <2>1. rows' = [rows EXCEPT ![HeightOf(b)] = b]
    BY <1>2 DEF CreateBtcBlockHeader
  <2>2. \A h \in Heights : HasRow(h) => h # HeightOf(b)
    BY <1>2
  <2> QED BY <2>1, <2>2 DEF RowsFunction
<1> QED BY <1>1, <1>2

(* Every other step leaves the table alone.                                *)
LEMMA OthersKeepRows ==
    ASSUME [BtcNext]_btcVars
    PROVE  rows' = rows \/ WritesRows
<1>1. CASE NodeStep BY <1>1 DEF NodeStep, indexVars
<1>2. CASE Orchestrate BY <1>2 DEF Orchestrate, indexVars
<1>3. ASSUME NEW w \in HashWorkers, FetchHash(w) PROVE rows' = rows
  BY <1>3 DEF FetchHash, indexVars
<1>4. ASSUME NEW w \in DataWorkers, FetchBlock(w) PROVE rows' = rows
  BY <1>4 DEF FetchBlock, indexVars
<1>5. CASE IndexBlock
  BY <1>5 DEF IndexBlock, ReceiveBlock, ReceiveBlockFails, StoreVaultTransactions,
                StoreVaultsFails, WritesRows, indexVars
<1>6. CASE Restart BY <1>6 DEF Restart, indexVars
<1>7. CASE UNCHANGED btcVars BY <1>7 DEF btcVars, indexVars
<1> QED BY <1>1, <1>2, <1>3, <1>4, <1>5, <1>6, <1>7 DEF BtcNext

(* What a step of the indexer does to a table that is a function.          *)
LEMMA StepKeepsRows ==
    ASSUME RowsFunction, [BtcNext]_btcVars
    PROVE  /\ RowsFunction'
           /\ \A h \in Heights : HasRow(h) => rows'[h] = rows[h]
<1>1. CASE rows' = rows
  BY <1>1 DEF RowsFunction
<1>2. CASE CheckReorg
  <2>1. DetectAndHandleReorg(block) BY <1>2 DEF CheckReorg
  <2> QED BY <2>1, ReorgKeepsRows DEF RowsFunction
<1>3. CASE StoreBlockHeader
  <2>1. CASE CreateBtcBlockHeader(block)
    BY <2>1, InsertKeepsRows DEF RowsFunction
  <2>2. CASE UNCHANGED rows
    BY <2>2 DEF RowsFunction
  <2> QED BY <1>3, <2>1, <2>2 DEF StoreBlockHeader
<1> QED BY <1>1, <1>2, <1>3, OthersKeepRows DEF WritesRows

(* The block index is append-only: whatever the order in which blocks are  *)
(* indexed, and whatever the reorganisations, faults and restarts, no      *)
(* stored header is ever deleted or replaced.                              *)
THEOREM IndexIsAppendOnly == BtcSpec => IndexNeverWiped
<1>1. BtcInit => RowsFunction
  BY DEF BtcInit, IndexInit, RowsFunction
<1>2. RowsFunction /\ [BtcNext]_btcVars => RowsFunction'
  BY StepKeepsRows
<1>3. RowsFunction /\ [BtcNext]_btcVars =>
        [\A h \in Heights : HasRow(h) => rows'[h] = rows[h]]_btcVars
  BY StepKeepsRows
<1> QED BY <1>1, <1>2, <1>3, PTL DEF BtcSpec, IndexNeverWiped

-----------------------------------------------------------------------------
(* Type correctness.  A block in flight is a path from the genesis block,  *)
(* a worker holds one item at most, and the orchestrator pushes heights    *)
(* between its first one and the end it has read, all of which the table   *)
(* can hold.                                                               *)
Parts == {Chain} \cup Nat
BlockSet == {b \in Seq(Parts) : IsBlock(b)}
OneOf(S) == {{}} \cup {{x} : x \in S}

NodeType ==
    /\ best \in Seq(Parts) /\ Len(best) >= 1 /\ best[1] = Chain
    /\ Len(best) <= MaxHeight + 1
    /\ reorgs \in Nat /\ faults \in Nat

PushType ==
    /\ opc \in {"start", "tick", "push"}
    /\ next \in 0..(MaxHeight + StartHeight + 1) /\ end \in 0..MaxHeight
    /\ tip \in 0..(Len(best) - 1)
    /\ heightChan \in Seq(Heights) /\ Len(heightChan) <= ChanCap
    /\ opc = "push" => next <= end
    /\ opc # "start" => next >= FirstHeight(0)

PoolType ==
    /\ asking \in [HashWorkers -> OneOf(Heights)]
    /\ hashed \in [HashWorkers -> OneOf(BlockSet)]
    /\ hashesChan \in Seq(BlockSet) /\ Len(hashesChan) <= ChanCap
    /\ fetching \in [DataWorkers -> OneOf(BlockSet)]
    /\ fetched \in [DataWorkers -> OneOf(BlockSet)]

IndexType ==
    /\ blockChan \in Seq(BlockSet) /\ Len(blockChan) <= ChanCap
    /\ ipc \in {"receive", "check", "header", "vaults"}
    /\ ipc = "receive" => block = NoBlock
    /\ ipc # "receive" => block \in BlockSet
    /\ rows \in [Heights -> BlockSet \cup {NoRow}]
    /\ \A h \in Heights : rows[h] # NoRow => HeightOf(rows[h]) = h
    /\ vaults \subseteq BlockSet

BtcTypeInv == NodeType /\ PushType /\ PoolType /\ IndexType

LEMMA BtcConstants ==
    /\ MaxHeight \in Nat /\ StartHeight \in Nat /\ EndHeight \in Nat
    /\ ChanCap \in Nat /\ ChanCap >= 1
    /\ Heights \subseteq Nat
    /\ FirstHeight(0) \in Nat /\ FirstHeight(0) >= 1
BY MaxHeightAssumption, BtcConfigAssumption DEF Heights, FirstHeight

LEMMA BlockFacts ==
    ASSUME NEW b \in BlockSet
    PROVE  /\ b # << >> /\ Len(b) \in Nat /\ HeightOf(b) = Len(b) - 1
           /\ HeightOf(b) \in Heights
<1>1. b \in Seq(Parts) /\ Len(b) > 1 /\ Len(b) - 1 <= MaxHeight
  BY DEF BlockSet, IsBlock, HeightOf
<1>2. Len(b) \in Nat
  BY <1>1, LenProperties
<1> QED  BY <1>1, <1>2, BtcConstants DEF HeightOf, Heights

(* What the node answers for a height it has.                              *)
LEMMA HashedBlock ==
    ASSUME NodeType, NEW h \in Heights, h <= HeightOf(best)
    PROVE  /\ SubSeq(best, 1, h + 1) \in BlockSet
           /\ HeightOf(SubSeq(best, 1, h + 1)) = h
<1> DEFINE b == SubSeq(best, 1, h + 1)
<1>1. /\ h \in Nat /\ h >= 1 /\ h <= MaxHeight
      /\ Len(best) \in Nat /\ h + 1 <= Len(best)
  BY BtcConstants, LenProperties DEF NodeType, HeightOf, Heights
<1>2. \A i \in 1..(h + 1) : best[i] \in Parts
  BY <1>1, ElementOfSeq DEF NodeType
<1>3. /\ b \in Seq(Parts) /\ Len(b) = h + 1
      /\ \A i \in 1..(h + 1) : b[i] = best[i]
  <2>1. /\ b \in Seq(Parts)
        /\ Len(b) = IF 1 <= h + 1 THEN (h + 1) - 1 + 1 ELSE 0
        /\ \A i \in 1..((h + 1) - 1 + 1) : b[i] = best[1 + i - 1]
    BY <1>1, <1>2, SubSeqProperties
  <2> QED  BY <1>1, <2>1
<1>4. Head(b) = Chain
  <2>1. b[1] = Chain
    BY <1>1, <1>3 DEF NodeType
  <2> QED  BY <1>1, <1>3, <2>1
<1> QED  BY <1>1, <1>3, <1>4 DEF BlockSet, IsBlock, HeightOf

LEMMA NodeStepType ==
    ASSUME BtcTypeInv, NodeStep
    PROVE  BtcTypeInv'
<1> DEFINE n == Len(best)
<1>0. /\ best \in Seq(Parts) /\ n \in Nat /\ n >= 1 /\ best[1] = Chain
      /\ reorgs \in Nat /\ n - 1 <= MaxHeight
  BY LenProperties, BtcConstants DEF BtcTypeInv, NodeType
<1>1. NodeType' /\ Len(best') >= Len(best) /\ Len(best') \in Nat
  <2>1. CASE Mine
    <3>1. /\ best' \in Seq(Parts) /\ Len(best') = n + 1
          /\ \A i \in 1..n : best'[i] = best[i]
      BY <1>0, <2>1, AppendProperties DEF Mine, Parts
    <3>2. best'[1] = Chain
      BY <1>0, <3>1
    <3> QED  BY <1>0, <2>1, <3>1, <3>2, BtcConstants
             DEF BtcTypeInv, NodeType, NodeStep, Mine, HeightOf
  <2>2. CASE Reorganise
    <3>0. PICK k \in 0..(HeightOf(best) - 1) :
              best' = SubSeq(best, 1, k + 1)
                         \o [i \in 1..(HeightOf(best) + 1 - k) |-> reorgs + 1]
      BY <2>2 DEF Reorganise
    <3>1. /\ k \in 0..(n - 2) /\ HeightOf(best) + 1 - k = n - k
          /\ best' = SubSeq(best, 1, k + 1)
                         \o [i \in 1..(n - k) |-> reorgs + 1]
      <4>1. k \in 0..(n - 2) /\ HeightOf(best) + 1 - k = n - k
        BY <1>0 DEF HeightOf
      <4> QED  BY <3>0, <4>1
    <3>2. /\ SubSeq(best, 1, k + 1) \in Seq(Parts)
          /\ Len(SubSeq(best, 1, k + 1)) = k + 1
          /\ \A i \in 1..(k + 1) : SubSeq(best, 1, k + 1)[i] = best[i]
      <4>1. \A i \in 1..(k + 1) : best[i] \in Parts
        BY <1>0, <3>1, ElementOfSeq
      <4>2. /\ SubSeq(best, 1, k + 1) \in Seq(Parts)
            /\ Len(SubSeq(best, 1, k + 1)) =
                  IF 1 <= k + 1 THEN (k + 1) - 1 + 1 ELSE 0
            /\ \A i \in 1..((k + 1) - 1 + 1) :
                  SubSeq(best, 1, k + 1)[i] = best[1 + i - 1]
        BY <1>0, <4>1, SubSeqProperties
      <4> QED  BY <1>0, <4>2
    <3>3. /\ [i \in 1..(n - k) |-> reorgs + 1] \in Seq(Parts)
          /\ Len([i \in 1..(n - k) |-> reorgs + 1]) = n - k
      <4>1. n - k \in Nat /\ reorgs + 1 \in Parts
        BY <1>0, <3>1 DEF Parts
      <4>2. [i \in 1..(n - k) |-> reorgs + 1] \in Seq(Parts)
        BY <4>1, IsASeq
      <4> QED  BY <4>1, <4>2, LenProperties
    <3>4. best' \in Seq(Parts) /\ Len(best') = n + 1 /\ best'[1] = Chain
      <4>1. /\ best' \in Seq(Parts) /\ Len(best') = (k + 1) + (n - k)
            /\ \A i \in 1..((k + 1) + (n - k)) : i <= k + 1 =>
                  best'[i] = SubSeq(best, 1, k + 1)[i]
        BY <3>1, <3>2, <3>3, ConcatProperties
      <4>2. (k + 1) + (n - k) = n + 1 /\ 1 \in 1..(n + 1) /\ 1 \in 1..(k + 1)
            /\ 1 <= k + 1
        BY <1>0
      <4> QED  BY <1>0, <3>2, <4>1, <4>2
    <3> QED  BY <1>0, <2>2, <3>4, BtcConstants
             DEF BtcTypeInv, NodeType, NodeStep, Reorganise, HeightOf
  <2> QED  BY <2>1, <2>2 DEF NodeStep
<1>2. PushType'
  <2>1. UNCHANGED <<opc, next, end, tip, heightChan>>
    BY DEF NodeStep, pushVars
  <2>2. tip' \in 0..(Len(best') - 1)
    BY <1>0, <1>1, <2>1 DEF BtcTypeInv, PushType
  <2> QED  BY <2>1, <2>2 DEF BtcTypeInv, PushType
<1>3. PoolType' /\ IndexType'
  BY DEF NodeStep, BtcTypeInv, PoolType, IndexType, poolVars, indexVars
<1> QED  BY <1>1, <1>2, <1>3 DEF BtcTypeInv

LEMMA OrchestrateType ==
    ASSUME BtcTypeInv, Orchestrate
    PROVE  BtcTypeInv'
<1> USE DEF BtcTypeInv
<1>0. /\ next \in Nat /\ end \in Nat /\ end <= MaxHeight /\ faults \in Nat
      /\ Len(best) \in Nat /\ Len(best) >= 1 /\ Len(best) <= MaxHeight + 1
  BY LenProperties, BtcConstants DEF NodeType, PushType
<1>1. PushType' /\ faults' \in Nat
  <2>1. CASE StartFetching
    <3>1. PICK last \in 0..MaxHeight : next' = FirstHeight(last)
      BY <2>1 DEF StartFetching
    <3>2. /\ next' \in 0..(MaxHeight + StartHeight + 1)
          /\ next' >= FirstHeight(0)
      BY <3>1, BtcConstants DEF FirstHeight
    <3> QED  BY <1>0, <2>1, <3>2
             DEF StartFetching, PushType, Orchestrate, nodeVars, Fault, NoFault
  <2>2. CASE Tick
    <3>1. /\ HeightOf(best) = Len(best) - 1 /\ HeightOf(best) \in 0..MaxHeight
          /\ LastToFetch(HeightOf(best)) \in 0..MaxHeight
      BY <1>0, BtcConstants DEF HeightOf, LastToFetch
    <3> QED  BY <1>0, <2>2, <3>1
             DEF Tick, PushType, Orchestrate, nodeVars, NoFault
  <2>3. CASE TickFails
    BY <1>0, <2>3 DEF TickFails, PushType, Orchestrate, nodeVars, pushVars, Fault
  <2>4. CASE PushHeight
    <3>1. next <= end /\ next >= FirstHeight(0) /\ next \in Heights
      BY <1>0, <2>4, BtcConstants DEF PushHeight, PushType, Heights
    <3>2. /\ heightChan' \in Seq(Heights) /\ Len(heightChan') <= ChanCap
      BY <2>4, <3>1, AppendProperties, LenProperties, BtcConstants
         DEF PushHeight, PushType
    <3>3. /\ next' \in 0..(MaxHeight + StartHeight + 1)
          /\ next' >= FirstHeight(0)
          /\ opc' = "push" => next' <= end
      BY <1>0, <2>4, <3>1, BtcConstants DEF PushHeight, PushType
    <3> QED  BY <1>0, <2>4, <3>2, <3>3
             DEF PushHeight, PushType, Orchestrate, nodeVars, NoFault
  <2> QED  BY <2>1, <2>2, <2>3, <2>4 DEF Orchestrate
<1>2. NodeType' /\ PoolType' /\ IndexType'
  BY <1>1 DEF Orchestrate, NodeType, PoolType, IndexType, nodeVars, poolVars,
              indexVars
<1> QED  BY <1>1, <1>2

LEMMA FetchHashType ==
    ASSUME BtcTypeInv, NEW w \in HashWorkers, FetchHash(w)
    PROVE  BtcTypeInv'
<1> USE DEF BtcTypeInv
<1>1. /\ PoolType' /\ faults' \in Nat
      /\ heightChan' \in Seq(Heights) /\ Len(heightChan') <= ChanCap
  <2> USE DEF PoolType
  <2>0. /\ heightChan \in Seq(Heights) /\ Len(heightChan) <= ChanCap
        /\ faults \in Nat /\ fetching' = fetching /\ fetched' = fetched
    BY DEF FetchHash, NodeType, PushType
  <2>1. CASE TakeHeight(w)
    <3>1. /\ Head(heightChan) \in Heights /\ Tail(heightChan) \in Seq(Heights)
          /\ Len(Tail(heightChan)) = Len(heightChan) - 1
          /\ Len(heightChan) \in Nat
      BY <2>0, <2>1, HeadTailProperties, LenProperties DEF TakeHeight
    <3>2. asking' \in [HashWorkers -> OneOf(Heights)]
      BY <2>1, <3>1 DEF TakeHeight, OneOf
    <3> QED  BY <2>0, <2>1, <3>1, <3>2, BtcConstants DEF TakeHeight
  <2>2. CASE GetBlockHash(w)
    <3>1. PICK h \in asking[w] :
              /\ h <= HeightOf(best)
              /\ hashed' = [hashed EXCEPT ![w] = {SubSeq(best, 1, h + 1)}]
      BY <2>2 DEF GetBlockHash
    <3>2. h \in Heights
      BY <3>1 DEF OneOf
    <3>3. SubSeq(best, 1, h + 1) \in BlockSet
      BY <3>1, <3>2, HashedBlock
    <3>4. hashed' \in [HashWorkers -> OneOf(BlockSet)]
      BY <3>1, <3>3 DEF OneOf
    <3>5. asking' \in [HashWorkers -> OneOf(Heights)]
      BY <2>2 DEF GetBlockHash, OneOf
    <3> QED  BY <2>0, <2>2, <3>4, <3>5 DEF GetBlockHash
  <2>3. CASE GetBlockHashFails(w)
    BY <2>0, <2>3 DEF GetBlockHashFails, OneOf, Fault
  <2>4. CASE SendHash(w)
    <3>1. PICK b \in hashed[w] : hashesChan' = Append(hashesChan, b)
      BY <2>4 DEF SendHash
    <3>2. b \in BlockSet
      BY <3>1 DEF OneOf
    <3>3. hashesChan' \in Seq(BlockSet) /\ Len(hashesChan') <= ChanCap
      BY <2>4, <3>1, <3>2, AppendProperties, LenProperties, BtcConstants
         DEF SendHash
    <3> QED  BY <2>0, <2>4, <3>3 DEF SendHash, OneOf
  <2> QED  BY <2>1, <2>2, <2>3, <2>4 DEF FetchHash
<1>2. NodeType' /\ PushType' /\ IndexType'
  BY <1>1 DEF FetchHash, NodeType, PushType, IndexType, nodeVars, indexVars
<1> QED  BY <1>1, <1>2

LEMMA FetchBlockType ==
    ASSUME BtcTypeInv, NEW w \in DataWorkers, FetchBlock(w)
    PROVE  BtcTypeInv'
<1> USE DEF BtcTypeInv
<1>1. /\ PoolType' /\ faults' \in Nat
      /\ blockChan' \in Seq(BlockSet) /\ Len(blockChan') <= ChanCap
  <2> USE DEF PoolType
  <2>0. /\ blockChan \in Seq(BlockSet) /\ Len(blockChan) <= ChanCap
        /\ faults \in Nat /\ asking' = asking /\ hashed' = hashed
    BY DEF FetchBlock, NodeType, IndexType
  <2>1. CASE TakeHash(w)
    <3>1. /\ Head(hashesChan) \in BlockSet /\ Tail(hashesChan) \in Seq(BlockSet)
          /\ Len(Tail(hashesChan)) = Len(hashesChan) - 1
          /\ Len(hashesChan) \in Nat
      BY <2>0, <2>1, HeadTailProperties, LenProperties DEF TakeHash
    <3>2. fetching' \in [DataWorkers -> OneOf(BlockSet)]
      BY <2>1, <3>1 DEF TakeHash, OneOf
    <3> QED  BY <2>0, <2>1, <3>1, <3>2, BtcConstants DEF TakeHash
  <2>2. CASE GetBlock(w)
    BY <2>0, <2>2 DEF GetBlock, OneOf
  <2>3. CASE GetBlockFails(w)
    BY <2>0, <2>3 DEF GetBlockFails, OneOf, Fault
  <2>4. CASE SendBlock(w)
    <3>1. PICK b \in fetched[w] : blockChan' = Append(blockChan, b)
      BY <2>4 DEF SendBlock
    <3>2. b \in BlockSet
      BY <3>1 DEF OneOf
    <3>3. blockChan' \in Seq(BlockSet) /\ Len(blockChan') <= ChanCap
      BY <2>0, <2>4, <3>1, <3>2, AppendProperties, LenProperties, BtcConstants
         DEF SendBlock
    <3> QED  BY <2>0, <2>4, <3>3 DEF SendBlock, OneOf
  <2> QED  BY <2>1, <2>2, <2>3, <2>4 DEF FetchBlock
<1>2. NodeType' /\ PushType' /\ IndexType'
  BY <1>1 DEF FetchBlock, NodeType, PushType, IndexType, nodeVars, pushVars,
              indexVars
<1> QED  BY <1>1, <1>2

(* The check of a new block leaves both tables as they are.                *)
LEMMA ReorgKeepsIndex ==
    ASSUME IndexType, NEW b, DetectAndHandleReorg(b)
    PROVE  UNCHANGED <<rows, vaults, partial>>
<1>0. partial' = partial
  BY DEF DetectAndHandleReorg, DeleteBlockAndTxsFromHeight
<1>1. rows' = rows
  BY ReorgKeepsRows DEF IndexType
<1>2. vaults' = {v \in vaults : HeightOf(v) < MaxHeight + 1}
  <2>1. KeptHeight(b) = MaxHeight
    BY NoForkPoint DEF KeptHeight
  <2> QED  BY <2>1 DEF DetectAndHandleReorg, DeleteBlockAndTxsFromHeight
<1>3. \A v \in vaults : HeightOf(v) < MaxHeight + 1
  BY BlockFacts, BtcConstants DEF IndexType, Heights
<1> QED  BY <1>0, <1>1, <1>2, <1>3

LEMMA IndexBlockType ==
    ASSUME BtcTypeInv, IndexBlock
    PROVE  BtcTypeInv'
<1> USE DEF BtcTypeInv
<1>0. faults \in Nat
  BY DEF NodeType
<1>1. IndexType' /\ faults' \in Nat
  <2> USE DEF IndexType
  <2>1. CASE ReceiveBlock
    <3>1. /\ Head(blockChan) \in BlockSet /\ Tail(blockChan) \in Seq(BlockSet)
          /\ Len(Tail(blockChan)) = Len(blockChan) - 1
          /\ Len(blockChan) \in Nat
      BY <2>1, HeadTailProperties, LenProperties DEF ReceiveBlock
    <3> QED  BY <1>0, <2>1, <3>1, BtcConstants DEF ReceiveBlock, indexVars
  <2>5. CASE ReceiveBlockFails
    <3>1. /\ Tail(blockChan) \in Seq(BlockSet)
          /\ Len(Tail(blockChan)) = Len(blockChan) - 1
          /\ Len(blockChan) \in Nat
      BY <2>5, HeadTailProperties, LenProperties DEF ReceiveBlockFails
    <3> QED  BY <1>0, <2>5, <3>1, BtcConstants DEF ReceiveBlockFails, indexVars, Fault
  <2>2. CASE CheckReorg
    <3>1. UNCHANGED <<rows, vaults>>
      BY <2>2, ReorgKeepsIndex DEF CheckReorg
    <3> QED  BY <1>0, <2>2, <3>1 DEF CheckReorg
  <2>3. CASE StoreBlockHeader
    <3>0. block \in BlockSet /\ HeightOf(block) \in Heights /\ block # NoRow
      BY <2>3, BlockFacts DEF StoreBlockHeader, NoRow
    <3>1. /\ rows' \in [Heights -> BlockSet \cup {NoRow}]
          /\ \A h \in Heights : rows'[h] # NoRow => HeightOf(rows'[h]) = h
      <4>1. CASE rows' = rows
        BY <4>1
      <4>2. CASE rows' = [rows EXCEPT ![HeightOf(block)] = block]
        BY <3>0, <4>2
      <4> QED  BY <2>3, <4>1, <4>2 DEF StoreBlockHeader, CreateBtcBlockHeader
    <3> QED  BY <1>0, <2>3, <3>0, <3>1
             DEF StoreBlockHeader, Done, Fault, NoFault
  <2>4. CASE StoreVaultTransactions
    BY <1>0, <2>4 DEF StoreVaultTransactions, Done, NoFault
  <2>6. CASE StoreVaultsFails
    BY <1>0, <2>6 DEF StoreVaultsFails, Done, Fault, NoFault
  <2> QED  BY <2>1, <2>2, <2>3, <2>4, <2>5, <2>6 DEF IndexBlock
<1>2. NodeType' /\ PushType' /\ PoolType'
  BY <1>1 DEF IndexBlock, NodeType, PushType, PoolType, nodeVars, pushVars,
              poolVars
<1> QED  BY <1>1, <1>2

LEMMA BtcTypeInductive ==
    ASSUME BtcTypeInv, [BtcNext]_btcVars
    PROVE  BtcTypeInv'
<1>1. CASE Restart
  <2>1. NodeType' /\ IndexType'
    BY <1>1, BtcConstants, EmptySeq DEF Restart, BtcTypeInv, NodeType, IndexType,
       nodeVars, indexVars
  <2>2. PushType'
    <3>1. Len(best) \in Nat /\ Len(best) >= 1 /\ best' = best
      BY <1>1, LenProperties DEF BtcTypeInv, NodeType, Restart, nodeVars
    <3> QED  BY <1>1, <3>1, BtcConstants, EmptySeq DEF Restart, PushType
  <2>3. PoolType'
    BY <1>1, BtcConstants, EmptySeq DEF Restart, PoolType, Empty, OneOf
  <2> QED  BY <2>1, <2>2, <2>3 DEF BtcTypeInv
<1>2. CASE UNCHANGED btcVars
  BY <1>2 DEF btcVars, BtcTypeInv, NodeType, PushType, PoolType, IndexType,
     nodeVars, pushVars, poolVars, indexVars
<1> QED  BY <1>1, <1>2, NodeStepType, OrchestrateType, FetchHashType,
            FetchBlockType, IndexBlockType DEF BtcNext

LEMMA BtcTypeInit == BtcInit => BtcTypeInv
<1> SUFFICES ASSUME BtcInit PROVE BtcTypeInv
  OBVIOUS
<1> USE DEF BtcInit, IndexInit
<1>1. NodeType
  <2>1. PICK h \in 0..MaxHeight : best = <<Chain>> \o [i \in 1..h |-> 0]
    OBVIOUS
  <2>2. h \in Nat /\ h <= MaxHeight
    BY BtcConstants
  <2>3. /\ [i \in 1..h |-> 0] \in Seq(Parts) /\ Len([i \in 1..h |-> 0]) = h
    <3>1. [i \in 1..h |-> 0] \in Seq(Parts)
      BY <2>2, IsASeq DEF Parts
    <3> QED  BY <2>2, <3>1, LenProperties
  <2>4. <<Chain>> \in Seq(Parts) /\ Len(<<Chain>>) = 1 /\ <<Chain>>[1] = Chain
    BY DEF Parts
  <2>5. /\ best \in Seq(Parts) /\ Len(best) = 1 + h
        /\ \A i \in 1..(1 + h) : i <= 1 => best[i] = <<Chain>>[i]
    BY <2>1, <2>3, <2>4, ConcatProperties
  <2>6. best[1] = Chain
    BY <2>2, <2>4, <2>5
  <2> QED  BY <2>2, <2>5, <2>6, BtcConstants DEF NodeType
<1>2. PushType
  <2>1. Len(best) \in Nat /\ Len(best) >= 1
    BY <1>1, LenProperties DEF NodeType
  <2> QED  BY <2>1, BtcConstants, EmptySeq DEF PushType
<1>3. PoolType
  BY BtcConstants, EmptySeq DEF PoolType, Empty, OneOf
<1>4. IndexType
  BY BtcConstants, EmptySeq DEF IndexType
<1> QED  BY <1>1, <1>2, <1>3, <1>4 DEF BtcTypeInv

(* The elements of a channel, and what is in flight, have their types.     *)
LEMMA FlightTypes ==
    ASSUME BtcTypeInv
    PROVE  BlocksInFlight \subseteq BlockSet /\ InFlight \subseteq Heights
<1>1. /\ Elements(hashesChan) \subseteq BlockSet
      /\ Elements(blockChan) \subseteq BlockSet
      /\ Elements(heightChan) \subseteq Heights
  BY ElementOfSeq DEF Elements, BtcTypeInv, PushType, PoolType, IndexType
<1>2. BlocksInFlight \subseteq BlockSet
  <2>1. \A w \in HashWorkers : hashed[w] \subseteq BlockSet
    BY DEF BtcTypeInv, PoolType, OneOf
  <2>2. \A w \in DataWorkers : fetching[w] \cup fetched[w] \subseteq BlockSet
    BY DEF BtcTypeInv, PoolType, OneOf
  <2>3. {block} \ {NoBlock} \subseteq BlockSet
    BY DEF BtcTypeInv, IndexType
  <2> QED  BY <1>1, <2>1, <2>2, <2>3 DEF BlocksInFlight
<1>3. UNION {asking[w] : w \in HashWorkers} \subseteq Heights
  BY DEF BtcTypeInv, PoolType, OneOf
<1>4. {HeightOf(b) : b \in BlocksInFlight} \subseteq Heights
  BY <1>2, BlockFacts
<1> QED  BY <1>1, <1>2, <1>3, <1>4 DEF InFlight

(* Type correctness of the Bitcoin indexer: no channel exceeds its         *)
(* capacity, and every height and block in flight is one the table can     *)
(* hold, through reorganisations, faults and restarts.                     *)
THEOREM BtcTypeCorrect == BtcSpec => []BtcTypeOK
<1>1. BtcTypeInv => BtcTypeOK
  <2> SUFFICES ASSUME BtcTypeInv PROVE BtcTypeOK
    OBVIOUS
  <2>1. \A b \in BlocksInFlight : IsBlock(b)
    BY FlightTypes DEF BlockSet
  <2>2. ASSUME NEW h \in Heights, HasRow(h)
        PROVE  IsBlock(rows[h]) /\ HeightOf(rows[h]) = h
    BY <2>2 DEF HasRow, BtcTypeInv, IndexType, BlockSet
  <2>3. (ipc = "receive") = (block = NoBlock)
    BY BlockFacts DEF BtcTypeInv, IndexType, NoBlock
  <2> QED  BY <2>1, <2>2, <2>3, FlightTypes
           DEF BtcTypeOK, BtcTypeInv, NodeType, PushType, PoolType, IndexType,
               HeightOf
<1>2. BtcTypeInv /\ [BtcNext]_btcVars => BtcTypeInv'
  BY BtcTypeInductive
<1> QED  BY <1>1, <1>2, BtcTypeInit, PTL DEF BtcSpec

-----------------------------------------------------------------------------
(* Where a height in flight is: in one of three channels, with a worker of *)
(* one of the pools, or with indexBlock.                                   *)
HeightsOf(S) == {HeightOf(b) : b \in S}
Held(f, W) == UNION {f[w] : w \in W}
HeldHeights(f, W) == UNION {HeightsOf(f[w]) : w \in W}

InHeightChan == Elements(heightChan)
InAsking == Held(asking, HashWorkers)
InHashed == HeldHeights(hashed, HashWorkers)
InHashesChan == HeightsOf(Elements(hashesChan))
InFetching == HeldHeights(fetching, DataWorkers)
InFetched == HeldHeights(fetched, DataWorkers)
InBlockChan == HeightsOf(Elements(blockChan))
InIndexing == HeightsOf({block} \ {NoBlock})

LEMMA FlightStages ==
    /\ InFlight = InHeightChan \cup InAsking \cup InHashed \cup InHashesChan
          \cup InFetching \cup InFetched \cup InBlockChan \cup InIndexing
    /\ InFlight' = InHeightChan' \cup InAsking' \cup InHashed' \cup InHashesChan'
          \cup InFetching' \cup InFetched' \cup InBlockChan' \cup InIndexing'
BY DEF InFlight, BlocksInFlight, HeightsOf, Held, HeldHeights, InHeightChan,
       InAsking, InHashed, InHashesChan, InFetching, InFetched, InBlockChan,
       InIndexing

(* No two items of a channel, and no two workers, hold the same height.    *)
DistinctItems(chan) ==
    \A i, j \in 1..Len(chan) : i # j => chan[i] # chan[j]
DistinctHeights(chan) ==
    \A i, j \in 1..Len(chan) : i # j => HeightOf(chan[i]) # HeightOf(chan[j])
ApartItems(f, W) == \A v, w \in W : v # w => f[v] \cap f[w] = {}
ApartHeights(f, W) ==
    \A v, w \in W : v # w => HeightsOf(f[v]) \cap HeightsOf(f[w]) = {}

LEMMA AppendDistinctItems ==
    ASSUME NEW S, NEW chan \in Seq(S), NEW e \in S, DistinctItems(chan),
           e \notin Elements(chan)
    PROVE  /\ DistinctItems(Append(chan, e))
           /\ Elements(Append(chan, e)) = Elements(chan) \cup {e}
<1>1. /\ Len(chan) \in Nat
      /\ Len(Append(chan, e)) = Len(chan) + 1
      /\ \A i \in 1..Len(chan) : Append(chan, e)[i] = chan[i]
      /\ Append(chan, e)[Len(chan) + 1] = e
  BY AppendProperties, LenProperties
<1>2. 1..(Len(chan) + 1) = 1..Len(chan) \cup {Len(chan) + 1}
  BY <1>1
<1> QED  BY <1>1, <1>2 DEF DistinctItems, Elements

LEMMA AppendDistinctHeights ==
    ASSUME NEW S, NEW chan \in Seq(S), NEW e \in S, DistinctHeights(chan),
           HeightOf(e) \notin HeightsOf(Elements(chan))
    PROVE  /\ DistinctHeights(Append(chan, e))
           /\ HeightsOf(Elements(Append(chan, e)))
                 = HeightsOf(Elements(chan)) \cup {HeightOf(e)}
<1>1. /\ Len(chan) \in Nat
      /\ Len(Append(chan, e)) = Len(chan) + 1
      /\ \A i \in 1..Len(chan) : Append(chan, e)[i] = chan[i]
      /\ Append(chan, e)[Len(chan) + 1] = e
  BY AppendProperties, LenProperties
<1>2. 1..(Len(chan) + 1) = 1..Len(chan) \cup {Len(chan) + 1}
  BY <1>1
<1> QED  BY <1>1, <1>2 DEF DistinctHeights, HeightsOf, Elements

LEMMA TailFacts ==
    ASSUME NEW S, NEW chan \in Seq(S), chan # << >>
    PROVE  /\ Len(chan) \in Nat /\ Len(chan) >= 1
           /\ Len(Tail(chan)) = Len(chan) - 1
           /\ Head(chan) = chan[1]
           /\ \A i \in 1..(Len(chan) - 1) :
                 (i + 1) \in 1..Len(chan) /\ i + 1 # 1 /\ Tail(chan)[i] = chan[i + 1]
           /\ \A i \in 1..Len(chan) : i = 1 \/
                 \E j \in 1..(Len(chan) - 1) : i = j + 1
<1>1. /\ Len(chan) \in Nat /\ Len(chan) >= 1
      /\ Len(Tail(chan)) = Len(chan) - 1
      /\ Head(chan) = chan[1]
      /\ \A i \in 1..(Len(chan) - 1) : Tail(chan)[i] = chan[i + 1]
  BY HeadTailProperties, LenProperties, EmptySeq
<1>2. ASSUME NEW i \in 1..Len(chan), i # 1
      PROVE  \E j \in 1..(Len(chan) - 1) : i = j + 1
  <2>1. (i - 1) \in 1..(Len(chan) - 1) /\ i = (i - 1) + 1
    BY <1>1, <1>2
  <2> QED  BY <2>1
<1> QED  BY <1>1, <1>2

LEMMA TailDistinctItems ==
    ASSUME NEW S, NEW chan \in Seq(S), chan # << >>, DistinctItems(chan)
    PROVE  /\ DistinctItems(Tail(chan))
           /\ Head(chan) \in Elements(chan)
           /\ Elements(Tail(chan)) = Elements(chan) \ {Head(chan)}
<1>1. DistinctItems(Tail(chan))
  BY TailFacts DEF DistinctItems
<1>2. Head(chan) \in Elements(chan)
  BY TailFacts DEF Elements
<1>3. \A x \in Elements(Tail(chan)) : x \in Elements(chan) /\ x # Head(chan)
  BY TailFacts DEF DistinctItems, Elements
<1>4. \A x \in Elements(chan) : x = Head(chan) \/ x \in Elements(Tail(chan))
  BY TailFacts DEF Elements
<1> QED  BY <1>1, <1>2, <1>3, <1>4

LEMMA TailDistinctHeights ==
    ASSUME NEW S, NEW chan \in Seq(S), chan # << >>, DistinctHeights(chan)
    PROVE  /\ DistinctHeights(Tail(chan))
           /\ HeightOf(Head(chan)) \in HeightsOf(Elements(chan))
           /\ HeightsOf(Elements(Tail(chan)))
                 = HeightsOf(Elements(chan)) \ {HeightOf(Head(chan))}
<1>1. DistinctHeights(Tail(chan))
  BY TailFacts DEF DistinctHeights
<1>2. HeightOf(Head(chan)) \in HeightsOf(Elements(chan))
  BY TailFacts DEF HeightsOf, Elements
<1>3. \A x \in Elements(Tail(chan)) :
          x \in Elements(chan) /\ HeightOf(x) # HeightOf(Head(chan))
  BY TailFacts DEF DistinctHeights, Elements
<1>4. \A x \in Elements(chan) : x = Head(chan) \/ x \in Elements(Tail(chan))
  BY TailFacts DEF Elements
<1> QED  BY <1>1, <1>2, <1>3, <1>4 DEF HeightsOf

LEMMA WorkerDropsItem ==
    ASSUME NEW W, NEW S, NEW f \in [W -> S], NEW w \in W, NEW x, f[w] = {x},
           ApartItems(f, W)
    PROVE  /\ ApartItems([f EXCEPT ![w] = {}], W)
           /\ x \in Held(f, W)
           /\ Held([f EXCEPT ![w] = {}], W) = Held(f, W) \ {x}
BY DEF ApartItems, Held

LEMMA WorkerTakesBlock ==
    ASSUME NEW W, NEW S, NEW f \in [W -> S], NEW w \in W, f[w] = {},
           NEW x, NEW g, g = [f EXCEPT ![w] = {x}],
           ApartHeights(f, W), HeightOf(x) \notin HeldHeights(f, W)
    PROVE  /\ ApartHeights(g, W)
           /\ HeldHeights(g, W) = HeldHeights(f, W) \cup {HeightOf(x)}
<1>1. HeightsOf({x}) = {HeightOf(x)} /\ HeightsOf({}) = {}
  BY DEF HeightsOf
<1> QED  BY <1>1 DEF ApartHeights, HeldHeights

LEMMA WorkerDropsBlock ==
    ASSUME NEW W, NEW S, NEW f \in [W -> S], NEW w \in W, NEW x, f[w] = {x},
           ApartHeights(f, W)
    PROVE  /\ ApartHeights([f EXCEPT ![w] = {}], W)
           /\ HeightOf(x) \in HeldHeights(f, W)
           /\ HeldHeights([f EXCEPT ![w] = {}], W)
                 = HeldHeights(f, W) \ {HeightOf(x)}
<1>1. HeightsOf({x}) = {HeightOf(x)} /\ HeightsOf({}) = {}
  BY DEF HeightsOf
<1> QED  BY <1>1 DEF ApartHeights, HeldHeights

(* The eight places do not share a height, whichever way the pools         *)
(* reorder the work; every height in flight was pushed in this run.        *)
StagesApart ==
    /\ InHeightChan \cap (InAsking \cup InHashed \cup InHashesChan
          \cup InFetching \cup InFetched \cup InBlockChan \cup InIndexing) = {}
    /\ InAsking \cap (InHashed \cup InHashesChan
          \cup InFetching \cup InFetched \cup InBlockChan \cup InIndexing) = {}
    /\ InHashed \cap (InHashesChan
          \cup InFetching \cup InFetched \cup InBlockChan \cup InIndexing) = {}
    /\ InHashesChan \cap (InFetching \cup InFetched \cup InBlockChan
          \cup InIndexing) = {}
    /\ InFetching \cap (InFetched \cup InBlockChan \cup InIndexing) = {}
    /\ InFetched \cap (InBlockChan \cup InIndexing) = {}
    /\ InBlockChan \cap InIndexing = {}

ItemsApart ==
    /\ DistinctItems(heightChan) /\ ApartItems(asking, HashWorkers)
    /\ ApartHeights(hashed, HashWorkers) /\ DistinctHeights(hashesChan)
    /\ ApartHeights(fetching, DataWorkers) /\ ApartHeights(fetched, DataWorkers)
    /\ DistinctHeights(blockChan)
    /\ \A w \in HashWorkers : asking[w] = {} \/ hashed[w] = {}
    /\ \A w \in DataWorkers : fetching[w] = {} \/ fetched[w] = {}

FlightApart ==
    /\ StagesApart /\ ItemsApart
    /\ \A h \in InFlight : h < next
    /\ opc = "start" => InFlight = {}

LEMMA PushHeightMoves ==
    ASSUME BtcTypeInv, FlightApart, PushHeight,
           UNCHANGED <<poolVars, blockChan, ipc, block>>
    PROVE  FlightApart' /\ InFlight' = InFlight \cup {next}
<1> USE DEF FlightApart
<1>1. next \in Nat /\ next \in Heights /\ next' = next + 1
  BY BtcConstants DEF BtcTypeInv, PushType, PushHeight, Heights
<1>2. next \notin InFlight
  BY <1>1
<1>3. next \notin InHeightChan
  BY <1>2, FlightStages
<1>4. /\ DistinctItems(heightChan')
      /\ InHeightChan' = InHeightChan \cup {next}
  BY <1>1, <1>3, AppendDistinctItems
     DEF PushHeight, InHeightChan, ItemsApart, BtcTypeInv, PushType
<1>5. UNCHANGED <<InAsking, InHashed, InHashesChan, InFetching, InFetched,
                  InBlockChan, InIndexing>>
  BY DEF poolVars, InAsking, InHashed, InHashesChan, InFetching, InFetched,
         InBlockChan, InIndexing
<1>6. InFlight' = InFlight \cup {next}
  BY <1>4, <1>5, FlightStages
<1>7. StagesApart'
  BY <1>2, <1>4, <1>5, FlightStages DEF StagesApart
<1>8. ItemsApart'
  BY <1>4 DEF ItemsApart, poolVars
<1>9. \A h \in InFlight' : h < next'
  <2>1. \A h \in InFlight : h \in Nat /\ h < next
    BY FlightTypes, BtcConstants
  <2> QED  BY <1>1, <1>6, <2>1
<1>10. opc' # "start"
  BY DEF PushHeight
<1> QED  BY <1>6, <1>7, <1>8, <1>9, <1>10

(* A hash worker passes a height on, or gives it up.                       *)
LEMMA FetchHashMoves ==
    ASSUME BtcTypeInv, FlightApart, NEW w \in HashWorkers, FetchHash(w)
    PROVE  /\ FlightApart' /\ InFlight' \subseteq InFlight
           /\ given \subseteq given' /\ given' \subseteq given \cup InFlight
           /\ InFlight \subseteq InFlight' \cup given'
<1> USE DEF FlightApart
<1>0. /\ UNCHANGED <<opc, next>>
      /\ UNCHANGED <<InFetching, InFetched, InBlockChan, InIndexing>>
      /\ UNCHANGED <<fetching, fetched, blockChan>>
  BY DEF FetchHash, InFetching, InFetched, InBlockChan, InIndexing
<1>1. /\ asking \in [HashWorkers -> OneOf(Heights)]
      /\ hashed \in [HashWorkers -> OneOf(BlockSet)]
      /\ hashesChan \in Seq(BlockSet) /\ heightChan \in Seq(Heights)
  BY DEF BtcTypeInv, PushType, PoolType
<1>2. SUFFICES /\ StagesApart' /\ ItemsApart' /\ InFlight' \subseteq InFlight
               /\ given \subseteq given' /\ given' \subseteq given \cup InFlight
               /\ InFlight \subseteq InFlight' \cup given'
  BY <1>0
<1>3. CASE TakeHeight(w)
  <2> DEFINE h == Head(heightChan)
  <2>1. /\ DistinctItems(heightChan') /\ h \in InHeightChan
        /\ InHeightChan' = InHeightChan \ {h}
    BY <1>1, <1>3, TailDistinctItems DEF TakeHeight, ItemsApart, InHeightChan
  <2>2. h \notin InAsking
    BY <2>1 DEF StagesApart
  <2>3. ApartItems(asking', HashWorkers) /\ InAsking' = InAsking \cup {h}
    <3>1. asking[w] = {} /\ asking' = [asking EXCEPT ![w] = {h}]
      BY <1>3 DEF TakeHeight
    <3>2. ApartItems(asking, HashWorkers) /\ h \notin Held(asking, HashWorkers)
      BY <2>2 DEF ItemsApart, InAsking
    <3> HIDE DEF h
    <3>3. /\ ApartItems(asking', HashWorkers)
          /\ Held(asking', HashWorkers) = Held(asking, HashWorkers) \cup {h}
      BY <1>1, <3>1, <3>2 DEF ApartItems, Held
    <3> QED  BY <3>3 DEF InAsking
  <2>4. UNCHANGED <<InHashed, InHashesChan, given, hashed, hashesChan>>
    BY <1>3 DEF TakeHeight, InHashed, InHashesChan
  <2>5. StagesApart' /\ InFlight' = InFlight
    BY <1>0, <2>1, <2>3, <2>4, FlightStages DEF StagesApart
  <2>6. ItemsApart'
    BY <1>0, <1>1, <1>3, <2>1, <2>3, <2>4 DEF ItemsApart, TakeHeight
  <2> QED  BY <2>4, <2>5, <2>6
<1>4. CASE GetBlockHash(w)
  <2>1. PICK h \in asking[w] :
            /\ h <= HeightOf(best)
            /\ hashed' = [hashed EXCEPT ![w] = {SubSeq(best, 1, h + 1)}]
    BY <1>4 DEF GetBlockHash
  <2>2. asking[w] = {h} /\ h \in Heights /\ hashed[w] = {}
    BY <1>1, <2>1 DEF OneOf, ItemsApart
  <2>3. HeightOf(SubSeq(best, 1, h + 1)) = h
    BY <2>1, <2>2, HashedBlock DEF BtcTypeInv
  <2>4. /\ ApartItems(asking', HashWorkers) /\ h \in InAsking
        /\ InAsking' = InAsking \ {h}
    BY <1>1, <1>4, <2>2, WorkerDropsItem DEF GetBlockHash, ItemsApart, InAsking
  <2>5. h \notin InHashed
    BY <2>4 DEF StagesApart
  <2>6. ApartHeights(hashed', HashWorkers) /\ InHashed' = InHashed \cup {h}
    <3> DEFINE b == SubSeq(best, 1, h + 1)
    <3>1. hashed[w] = {} /\ hashed' = [hashed EXCEPT ![w] = {b}]
      BY <2>1, <2>2
    <3>2. /\ ApartHeights(hashed, HashWorkers) /\ HeightOf(b) = h
          /\ h \notin HeldHeights(hashed, HashWorkers)
      BY <2>3, <2>5 DEF ItemsApart, InHashed
    <3> HIDE DEF b
    <3>3. /\ ApartHeights(hashed', HashWorkers)
          /\ HeldHeights(hashed', HashWorkers)
                = HeldHeights(hashed, HashWorkers) \cup {HeightOf(b)}
      BY <1>1, <3>1, <3>2, WorkerTakesBlock
    <3> QED  BY <3>2, <3>3 DEF InHashed
  <2>7. UNCHANGED <<InHeightChan, InHashesChan, given, heightChan, hashesChan>>
    BY <1>4 DEF GetBlockHash, InHeightChan, InHashesChan
  <2>8. StagesApart' /\ InFlight' = InFlight
    BY <1>0, <2>4, <2>6, <2>7, FlightStages DEF StagesApart
  <2>9. \A v \in HashWorkers : asking'[v] = {} \/ hashed'[v] = {}
    BY <1>1, <1>4, <2>1 DEF ItemsApart, GetBlockHash
  <2>10. ItemsApart'
    BY <1>0, <2>4, <2>6, <2>7, <2>9 DEF ItemsApart
  <2> QED  BY <2>7, <2>8, <2>10
<1>5. CASE GetBlockHashFails(w)
  <2>1. PICK h \in Heights : asking[w] = {h}
    BY <1>1, <1>5 DEF GetBlockHashFails, OneOf
  <2>2. /\ ApartItems(asking', HashWorkers) /\ h \in InAsking
        /\ InAsking' = InAsking \ {h}
    BY <1>1, <1>5, <2>1, WorkerDropsItem DEF GetBlockHashFails, ItemsApart, InAsking
  <2>3. UNCHANGED <<InHeightChan, InHashed, InHashesChan, heightChan, hashed,
                    hashesChan>> /\ given' = given \cup {h}
    BY <1>5, <2>1 DEF GetBlockHashFails, InHeightChan, InHashed, InHashesChan
  <2>4. StagesApart' /\ InFlight' \subseteq InFlight /\ h \in InFlight
        /\ InFlight \subseteq InFlight' \cup {h}
    BY <1>0, <2>2, <2>3, FlightStages DEF StagesApart
  <2>5. ItemsApart'
    BY <1>0, <1>1, <1>5, <2>2, <2>3 DEF ItemsApart, GetBlockHashFails
  <2> QED  BY <2>3, <2>4, <2>5
<1>6. CASE SendHash(w)
  <2>1. PICK b \in hashed[w] : hashesChan' = Append(hashesChan, b)
    BY <1>6 DEF SendHash
  <2>2. hashed[w] = {b} /\ b \in BlockSet
    BY <1>1, <2>1 DEF OneOf
  <2>3. /\ ApartHeights(hashed', HashWorkers) /\ HeightOf(b) \in InHashed
        /\ InHashed' = InHashed \ {HeightOf(b)}
    BY <1>1, <1>6, <2>2, WorkerDropsBlock DEF SendHash, ItemsApart, InHashed
  <2>4. HeightOf(b) \notin InHashesChan
    BY <2>3 DEF StagesApart
  <2>5. /\ DistinctHeights(hashesChan')
        /\ InHashesChan' = InHashesChan \cup {HeightOf(b)}
    BY <1>1, <2>1, <2>2, <2>4, AppendDistinctHeights DEF ItemsApart, InHashesChan
  <2>6. UNCHANGED <<InHeightChan, InAsking, given, heightChan, asking>>
    BY <1>6 DEF SendHash, InHeightChan, InAsking
  <2>7. StagesApart' /\ InFlight' = InFlight
    BY <1>0, <2>3, <2>5, <2>6, FlightStages DEF StagesApart
  <2>8. ItemsApart'
    BY <1>0, <1>1, <1>6, <2>3, <2>5, <2>6 DEF ItemsApart, SendHash
  <2> QED  BY <2>6, <2>7, <2>8
<1> QED  BY <1>3, <1>4, <1>5, <1>6 DEF FetchHash

(* A data worker passes a block on, or gives it up.                        *)
LEMMA FetchBlockMoves ==
    ASSUME BtcTypeInv, FlightApart, NEW w \in DataWorkers, FetchBlock(w)
    PROVE  /\ FlightApart' /\ InFlight' \subseteq InFlight
           /\ given \subseteq given' /\ given' \subseteq given \cup InFlight
           /\ InFlight \subseteq InFlight' \cup given'
<1> USE DEF FlightApart
<1>0. /\ UNCHANGED <<opc, next>>
      /\ UNCHANGED <<InHeightChan, InAsking, InHashed, InIndexing>>
      /\ UNCHANGED <<heightChan, asking, hashed>>
  BY DEF FetchBlock, pushVars, InHeightChan, InAsking, InHashed, InIndexing
<1>1. /\ fetching \in [DataWorkers -> OneOf(BlockSet)]
      /\ fetched \in [DataWorkers -> OneOf(BlockSet)]
      /\ hashesChan \in Seq(BlockSet) /\ blockChan \in Seq(BlockSet)
  BY DEF BtcTypeInv, PoolType, IndexType
<1>2. SUFFICES /\ StagesApart' /\ ItemsApart' /\ InFlight' \subseteq InFlight
               /\ given \subseteq given' /\ given' \subseteq given \cup InFlight
               /\ InFlight \subseteq InFlight' \cup given'
  BY <1>0
<1>3. CASE TakeHash(w)
  <2> DEFINE b == Head(hashesChan)
  <2>1. /\ DistinctHeights(hashesChan') /\ HeightOf(b) \in InHashesChan
        /\ InHashesChan' = InHashesChan \ {HeightOf(b)}
    BY <1>1, <1>3, TailDistinctHeights DEF TakeHash, ItemsApart, InHashesChan
  <2>2. HeightOf(b) \notin InFetching
    BY <2>1 DEF StagesApart
  <2>3. /\ ApartHeights(fetching', DataWorkers)
        /\ InFetching' = InFetching \cup {HeightOf(b)}
    <3>1. fetching[w] = {} /\ fetching' = [fetching EXCEPT ![w] = {b}]
      BY <1>3 DEF TakeHash
    <3>2. /\ ApartHeights(fetching, DataWorkers)
          /\ HeightOf(b) \notin HeldHeights(fetching, DataWorkers)
      BY <2>2 DEF ItemsApart, InFetching
    <3> HIDE DEF b
    <3>3. /\ ApartHeights(fetching', DataWorkers)
          /\ HeldHeights(fetching', DataWorkers)
                = HeldHeights(fetching, DataWorkers) \cup {HeightOf(b)}
      BY <1>1, <3>1, <3>2, WorkerTakesBlock
    <3> QED  BY <3>3 DEF InFetching
  <2>4. UNCHANGED <<InFetched, InBlockChan, given, fetched, blockChan>>
    BY <1>3 DEF TakeHash, InFetched, InBlockChan
  <2>5. StagesApart' /\ InFlight' = InFlight
    BY <1>0, <2>1, <2>3, <2>4, FlightStages DEF StagesApart
  <2>6. ItemsApart'
    BY <1>0, <1>1, <1>3, <2>1, <2>3, <2>4 DEF ItemsApart, TakeHash
  <2> QED  BY <2>4, <2>5, <2>6
<1>4. CASE GetBlock(w)
  <2>1. PICK b \in BlockSet : fetching[w] = {b}
    BY <1>1, <1>4 DEF GetBlock, OneOf
  <2>2. fetched[w] = {} /\ fetched' = [fetched EXCEPT ![w] = {b}]
    BY <1>4, <2>1 DEF GetBlock, ItemsApart
  <2>3. /\ ApartHeights(fetching', DataWorkers) /\ HeightOf(b) \in InFetching
        /\ InFetching' = InFetching \ {HeightOf(b)}
    BY <1>1, <1>4, <2>1, WorkerDropsBlock DEF GetBlock, ItemsApart, InFetching
  <2>4. HeightOf(b) \notin InFetched
    BY <2>3 DEF StagesApart
  <2>5. /\ ApartHeights(fetched', DataWorkers)
        /\ InFetched' = InFetched \cup {HeightOf(b)}
    <3>1. /\ ApartHeights(fetched, DataWorkers)
          /\ HeightOf(b) \notin HeldHeights(fetched, DataWorkers)
      BY <2>4 DEF ItemsApart, InFetched
    <3>2. /\ ApartHeights(fetched', DataWorkers)
          /\ HeldHeights(fetched', DataWorkers)
                = HeldHeights(fetched, DataWorkers) \cup {HeightOf(b)}
      BY <1>1, <2>2, <3>1, WorkerTakesBlock
    <3> QED  BY <3>2 DEF InFetched
  <2>6. UNCHANGED <<InHashesChan, InBlockChan, given, hashesChan, blockChan>>
    BY <1>4 DEF GetBlock, InHashesChan, InBlockChan
  <2>7. StagesApart' /\ InFlight' = InFlight
    BY <1>0, <2>3, <2>5, <2>6, FlightStages DEF StagesApart
  <2>8. \A v \in DataWorkers : fetching'[v] = {} \/ fetched'[v] = {}
    BY <1>1, <1>4, <2>2 DEF ItemsApart, GetBlock
  <2>9. ItemsApart'
    BY <1>0, <2>3, <2>5, <2>6, <2>8 DEF ItemsApart
  <2> QED  BY <2>6, <2>7, <2>9
<1>5. CASE GetBlockFails(w)
  <2>1. PICK b \in BlockSet : fetching[w] = {b}
    BY <1>1, <1>5 DEF GetBlockFails, OneOf
  <2>2. /\ ApartHeights(fetching', DataWorkers) /\ HeightOf(b) \in InFetching
        /\ InFetching' = InFetching \ {HeightOf(b)}
    BY <1>1, <1>5, <2>1, WorkerDropsBlock
       DEF GetBlockFails, ItemsApart, InFetching
  <2>3. /\ UNCHANGED <<InHashesChan, InFetched, InBlockChan, hashesChan,
                       fetched, blockChan>>
        /\ given' = given \cup {HeightOf(b)}
    BY <1>5, <2>1 DEF GetBlockFails, InHashesChan, InFetched, InBlockChan
  <2>4. /\ StagesApart' /\ InFlight' \subseteq InFlight
        /\ HeightOf(b) \in InFlight
        /\ InFlight \subseteq InFlight' \cup {HeightOf(b)}
    BY <1>0, <2>2, <2>3, FlightStages DEF StagesApart
  <2>5. ItemsApart'
    BY <1>0, <1>1, <1>5, <2>2, <2>3 DEF ItemsApart, GetBlockFails
  <2> QED  BY <2>3, <2>4, <2>5
<1>6. CASE SendBlock(w)
  <2>1. PICK b \in fetched[w] : blockChan' = Append(blockChan, b)
    BY <1>6 DEF SendBlock
  <2>2. fetched[w] = {b} /\ b \in BlockSet
    BY <1>1, <2>1 DEF OneOf
  <2>3. /\ ApartHeights(fetched', DataWorkers) /\ HeightOf(b) \in InFetched
        /\ InFetched' = InFetched \ {HeightOf(b)}
    BY <1>1, <1>6, <2>2, WorkerDropsBlock DEF SendBlock, ItemsApart, InFetched
  <2>4. HeightOf(b) \notin InBlockChan
    BY <2>3 DEF StagesApart
  <2>5. /\ DistinctHeights(blockChan')
        /\ InBlockChan' = InBlockChan \cup {HeightOf(b)}
    BY <1>1, <2>1, <2>2, <2>4, AppendDistinctHeights DEF ItemsApart, InBlockChan
  <2>6. UNCHANGED <<InHashesChan, InFetching, given, hashesChan, fetching>>
    BY <1>6 DEF SendBlock, InHashesChan, InFetching
  <2>7. StagesApart' /\ InFlight' = InFlight
    BY <1>0, <2>3, <2>5, <2>6, FlightStages DEF StagesApart
  <2>8. ItemsApart'
    BY <1>0, <1>1, <1>6, <2>3, <2>5, <2>6 DEF ItemsApart, SendBlock
  <2> QED  BY <2>6, <2>7, <2>8
<1> QED  BY <1>3, <1>4, <1>5, <1>6 DEF FetchBlock

(* The heights in the table.                                               *)
Stored == {h \in Heights : HasRow(h)}

(* A block whose header was tried is stored or given up, so that its       *)
(* height may leave the flight after its vault transactions.               *)
HeaderTried == ipc = "vaults" => HeightOf(block) \in Stored \cup given

LEMMA KeptInFlight ==
    ASSUME UNCHANGED <<heightChan, poolVars, blockChan, block>>
    PROVE  /\ InFlight' = InFlight
           /\ StagesApart => StagesApart'
           /\ ItemsApart => ItemsApart'
<1>1. UNCHANGED <<InHeightChan, InAsking, InHashed, InHashesChan, InFetching,
                  InFetched, InBlockChan, InIndexing>>
  BY DEF poolVars, InHeightChan, InAsking, InHashed, InHashesChan, InFetching,
         InFetched, InBlockChan, InIndexing
<1>2. ItemsApart => ItemsApart'
  BY DEF poolVars, ItemsApart
<1> QED  BY <1>1, <1>2, FlightStages DEF StagesApart

(* What indexBlock holds.                                                  *)
LEMMA IndexingFacts ==
    ASSUME BtcTypeInv
    PROVE  /\ block = NoBlock => InIndexing = {}
           /\ ipc # "receive" => /\ InIndexing = {HeightOf(block)}
                                 /\ HeightOf(block) \in InFlight
                                 /\ HeightOf(block) \in Heights
           /\ block' = NoBlock => InIndexing' = {}
           /\ block' # NoBlock => InIndexing' = {HeightOf(block')}
<1>1. ASSUME ipc # "receive" PROVE block # NoBlock /\ HeightOf(block) \in Heights
  BY <1>1, BlockFacts DEF BtcTypeInv, IndexType, NoBlock
<1> QED  BY <1>1, FlightStages DEF InIndexing, HeightsOf

(* What a step of indexBlock does to the table.                            *)
LEMMA HeaderStored ==
    ASSUME BtcTypeInv, StoreBlockHeader
    PROVE  /\ Stored \subseteq Stored'
           /\ Stored' \subseteq Stored \cup {HeightOf(block)}
           /\ given \subseteq given'
           /\ given' \subseteq given \cup {HeightOf(block)}
           /\ HeightOf(block) \in Stored' \cup given'
           /\ faults' = faults => /\ rows' = IF HasRow(HeightOf(block)) THEN rows
                                      ELSE [rows EXCEPT ![HeightOf(block)] = block]
                                  /\ given' = given
<1>1. block \in BlockSet /\ block # NoRow /\ HeightOf(block) \in Heights
  BY BlockFacts DEF BtcTypeInv, IndexType, StoreBlockHeader, NoRow
<1>2. rows \in [Heights -> BlockSet \cup {NoRow}] /\ faults \in Nat
  BY DEF BtcTypeInv, IndexType, NodeType
<1>3. CASE CreateBtcBlockHeader(block) /\ NoFault /\ UNCHANGED given
  BY <1>1, <1>2, <1>3 DEF CreateBtcBlockHeader, Stored, HasRow
<1>4. CASE Fault /\ given' = given \cup {HeightOf(block)} /\ UNCHANGED rows
  BY <1>1, <1>2, <1>4 DEF Fault, Stored, HasRow
<1> QED  BY <1>3, <1>4 DEF StoreBlockHeader

LEMMA IndexBlockMoves ==
    ASSUME BtcTypeInv, FlightApart, HeaderTried, IndexBlock
    PROVE  /\ FlightApart' /\ HeaderTried' /\ InFlight' \subseteq InFlight
           /\ Stored \subseteq Stored' /\ Stored' \subseteq Stored \cup InFlight
           /\ given \subseteq given' /\ given' \subseteq given \cup InFlight
           /\ InFlight \subseteq InFlight' \cup Stored' \cup given'
<1> USE DEF FlightApart
<1>0. /\ UNCHANGED <<opc, next>> /\ UNCHANGED <<heightChan, poolVars>>
      /\ UNCHANGED <<InHeightChan, InAsking, InHashed, InHashesChan, InFetching,
                     InFetched>>
  BY DEF IndexBlock, pushVars, poolVars, InHeightChan, InAsking, InHashed,
         InHashesChan, InFetching, InFetched
<1>1. ASSUME UNCHANGED blockChan, block' = block
      PROVE  StagesApart' /\ ItemsApart' /\ InFlight' = InFlight
  BY <1>0, <1>1, KeptInFlight
<1>2. ASSUME UNCHANGED blockChan, Done, ipc # "receive"
      PROVE  /\ StagesApart' /\ ItemsApart' /\ InFlight' \subseteq InFlight
             /\ InFlight \subseteq InFlight' \cup {HeightOf(block)}
  <2>1. InIndexing = {HeightOf(block)} /\ InIndexing' = {}
    BY <1>2, IndexingFacts DEF Done
  <2>2. UNCHANGED InBlockChan
    BY <1>2 DEF InBlockChan
  <2>3. StagesApart' /\ InFlight' \subseteq InFlight
        /\ InFlight \subseteq InFlight' \cup {HeightOf(block)}
    BY <1>0, <2>1, <2>2, FlightStages DEF StagesApart
  <2> QED  BY <1>0, <1>2, <2>3 DEF ItemsApart, poolVars
<1>3. SUFFICES /\ StagesApart' /\ ItemsApart' /\ InFlight' \subseteq InFlight
               /\ HeaderTried'
               /\ Stored \subseteq Stored' /\ Stored' \subseteq Stored \cup InFlight
               /\ given \subseteq given' /\ given' \subseteq given \cup InFlight
               /\ InFlight \subseteq InFlight' \cup Stored' \cup given'
  BY <1>0
<1>4. CASE ReceiveBlock
  <2> DEFINE b == Head(blockChan)
  <2>1. blockChan \in Seq(BlockSet) /\ blockChan # << >> /\ block = NoBlock
    BY <1>4 DEF ReceiveBlock, BtcTypeInv, IndexType
  <2>2. b \in BlockSet /\ b # NoBlock
    BY <2>1, HeadTailProperties, BlockFacts DEF NoBlock
  <2>3. /\ DistinctHeights(blockChan') /\ HeightOf(b) \in InBlockChan
        /\ InBlockChan' = InBlockChan \ {HeightOf(b)}
    BY <1>4, <2>1, TailDistinctHeights DEF ReceiveBlock, ItemsApart, InBlockChan
  <2>4. InIndexing = {} /\ InIndexing' = {HeightOf(b)}
    BY <1>4, <2>1, <2>2, IndexingFacts DEF ReceiveBlock
  <2>5. StagesApart' /\ InFlight' = InFlight
    BY <1>0, <2>3, <2>4, FlightStages DEF StagesApart
  <2>6. ItemsApart'
    BY <1>0, <2>3 DEF ItemsApart, poolVars
  <2>7. UNCHANGED <<Stored, given>> /\ ipc' # "vaults"
    BY <1>4 DEF ReceiveBlock, indexVars, Stored, HasRow
  <2> QED  BY <2>5, <2>6, <2>7 DEF HeaderTried
<1>5. CASE CheckReorg
  <2>1. UNCHANGED <<Stored, given>> /\ ipc' # "vaults"
    BY <1>5, ReorgKeepsIndex DEF CheckReorg, BtcTypeInv, Stored, HasRow
  <2> QED  BY <1>1, <1>5, <2>1 DEF CheckReorg, HeaderTried
<1>6. CASE StoreBlockHeader
  <2>1. HeightOf(block) \in InFlight /\ ipc # "receive" /\ UNCHANGED blockChan
    BY <1>6, IndexingFacts DEF StoreBlockHeader
  <2>2. CASE HeightOf(block) \in WithVault
    <3>1. block' = block
      BY <1>6, <2>2 DEF StoreBlockHeader
    <3> QED  BY <1>1, <1>6, <2>1, <3>1, HeaderStored DEF HeaderTried
  <2>3. CASE HeightOf(block) \notin WithVault
    <3>1. Done
      BY <1>6, <2>3 DEF StoreBlockHeader
    <3> QED  BY <1>2, <1>6, <2>1, <3>1, HeaderStored DEF HeaderTried, Done
  <2> QED  BY <2>2, <2>3
<1>7. CASE StoreVaultTransactions \/ StoreVaultsFails
  <2>1. HeightOf(block) \in InFlight /\ ipc = "vaults" /\ UNCHANGED blockChan
    BY <1>7, IndexingFacts DEF StoreVaultTransactions, StoreVaultsFails
  <2>2. HeightOf(block) \in Stored \cup given
    BY <2>1 DEF HeaderTried
  <2>3. Stored' = Stored
    BY <1>7 DEF StoreVaultTransactions, StoreVaultsFails, Stored, HasRow
  <2>4. given' = given
    BY <1>7 DEF StoreVaultTransactions, StoreVaultsFails
  <2>5. Done
    BY <1>7 DEF StoreVaultTransactions, StoreVaultsFails
  <2>6. HeaderTried'
    BY <2>5 DEF Done, HeaderTried
  <2> QED  BY <1>2, <2>1, <2>2, <2>3, <2>4, <2>5, <2>6
<1>8. CASE ReceiveBlockFails
  <2> DEFINE b == Head(blockChan)
  <2>1. blockChan \in Seq(BlockSet) /\ blockChan # << >> /\ UNCHANGED <<ipc, block>>
    BY <1>8 DEF ReceiveBlockFails, BtcTypeInv, IndexType
  <2>2. /\ DistinctHeights(blockChan') /\ HeightOf(b) \in InBlockChan
        /\ InBlockChan' = InBlockChan \ {HeightOf(b)}
    BY <1>8, <2>1, TailDistinctHeights DEF ReceiveBlockFails, ItemsApart, InBlockChan
  <2>3. InIndexing' = InIndexing
    BY <2>1 DEF InIndexing
  <2>4. StagesApart' /\ InFlight' = InFlight \ {HeightOf(b)} /\ HeightOf(b) \in InFlight
    BY <1>0, <2>2, <2>3, FlightStages DEF StagesApart
  <2>5. ItemsApart'
    BY <1>0, <2>2 DEF ItemsApart, poolVars
  <2>6. Stored' = Stored /\ given' = given \cup {HeightOf(b)}
    BY <1>8 DEF ReceiveBlockFails, indexVars, Stored, HasRow
  <2> QED  BY <2>1, <2>4, <2>5, <2>6 DEF HeaderTried
<1> QED  BY <1>4, <1>5, <1>6, <1>7, <1>8 DEF IndexBlock

-----------------------------------------------------------------------------
(* A height, once pushed, is in the table, in flight, given up or lost;    *)
(* it never stops being one of these.                                      *)
Accounted == Stored \cup InFlight \cup given \cup lost

LEMMA EmptyFlight ==
    ASSUME heightChan = << >>, hashesChan = << >>, blockChan = << >>,
           asking = Empty(HashWorkers), hashed = Empty(HashWorkers),
           fetching = Empty(DataWorkers), fetched = Empty(DataWorkers),
           block = NoBlock
    PROVE  InFlight = {} /\ StagesApart /\ ItemsApart
<1>1. /\ InHeightChan = {} /\ InHashesChan = {} /\ InBlockChan = {}
  BY EmptySeq DEF InHeightChan, InHashesChan, InBlockChan, HeightsOf, Elements
<1>2. InIndexing = {}
  BY DEF InIndexing, HeightsOf
<1>3. InAsking = {} /\ InHashed = {} /\ InFetching = {} /\ InFetched = {}
  BY DEF InAsking, InHashed, InFetching, InFetched, Held, HeldHeights,
         HeightsOf, Empty
<1>4. ItemsApart
  BY EmptySeq DEF ItemsApart, DistinctItems, DistinctHeights, ApartItems,
         ApartHeights, HeightsOf, Empty
<1> QED  BY <1>1, <1>2, <1>3, <1>4, FlightStages DEF StagesApart

LEMMA EmptyFlightNext ==
    ASSUME heightChan' = << >>, hashesChan' = << >>, blockChan' = << >>,
           asking' = Empty(HashWorkers), hashed' = Empty(HashWorkers),
           fetching' = Empty(DataWorkers), fetched' = Empty(DataWorkers),
           block' = NoBlock
    PROVE  InFlight' = {} /\ StagesApart' /\ ItemsApart'
<1>1. /\ InHeightChan' = {} /\ InHashesChan' = {} /\ InBlockChan' = {}
  BY EmptySeq DEF InHeightChan, InHashesChan, InBlockChan, HeightsOf, Elements
<1>2. InIndexing' = {}
  BY DEF InIndexing, HeightsOf
<1>3. InAsking' = {} /\ InHashed' = {} /\ InFetching' = {} /\ InFetched' = {}
  BY DEF InAsking, InHashed, InFetching, InFetched, Held, HeldHeights,
         HeightsOf, Empty
<1>4. ItemsApart'
  BY EmptySeq DEF ItemsApart, DistinctItems, DistinctHeights, ApartItems,
         ApartHeights, HeightsOf, Empty
<1> QED  BY <1>1, <1>2, <1>3, <1>4, FlightStages DEF StagesApart

(* The steps that leave the table alone.                                   *)
LEMMA OthersKeepStored ==
    ASSUME UNCHANGED indexVars
    PROVE  Stored' = Stored
BY DEF indexVars, Stored, HasRow

(* What a step does to the heights in flight.                              *)
LEMMA FlightStep ==
    ASSUME BtcTypeInv, FlightApart, HeaderTried, [BtcNext]_btcVars
    PROVE  /\ FlightApart' /\ HeaderTried'
           /\ \/ /\ Accounted' = Accounted
                 /\ next' = next \/ next' = 0 \/ StartFetching
              \/ /\ Accounted' = Accounted \cup {next} /\ next' = next + 1
                 /\ next \in Heights
<1>1. CASE NodeStep \/ UNCHANGED btcVars
  <2>1. /\ UNCHANGED <<opc, next, given, lost, indexVars, ipc, block>>
        /\ UNCHANGED <<heightChan, poolVars, blockChan, block>>
    BY <1>1 DEF NodeStep, btcVars, pushVars
  <2>2. InFlight' = InFlight /\ StagesApart' /\ ItemsApart'
    BY <2>1, KeptInFlight DEF FlightApart
  <2>3. Stored' = Stored
    BY <2>1, OthersKeepStored
  <2> QED  BY <2>1, <2>2, <2>3 DEF FlightApart, HeaderTried, Accounted
<1>2. CASE Orchestrate
  <2>1. /\ UNCHANGED <<given, lost, indexVars, ipc, block>>
        /\ UNCHANGED <<poolVars, blockChan, ipc, block>>
    BY <1>2 DEF Orchestrate
  <2>2. Stored' = Stored
    BY <2>1, OthersKeepStored
  <2>3. HeaderTried'
    BY <2>1, <2>2 DEF HeaderTried
  <2>4. CASE StartFetching
    <3>1. UNCHANGED heightChan /\ opc = "start" /\ opc' = "tick"
      BY <2>4 DEF StartFetching
    <3>2. InFlight' = InFlight /\ StagesApart' /\ ItemsApart'
      BY <2>1, <3>1, KeptInFlight DEF FlightApart
    <3>3. InFlight' = {}
      BY <3>1, <3>2 DEF FlightApart
    <3> QED  BY <2>1, <2>2, <2>3, <2>4, <3>1, <3>2, <3>3 DEF FlightApart, Accounted
  <2>5. CASE Tick \/ TickFails
    <3>1. UNCHANGED <<heightChan, next>> /\ opc' # "start"
      BY <2>5 DEF Tick, TickFails, pushVars
    <3>2. InFlight' = InFlight /\ StagesApart' /\ ItemsApart'
      BY <2>1, <3>1, KeptInFlight DEF FlightApart
    <3> QED  BY <2>1, <2>2, <2>3, <3>1, <3>2 DEF FlightApart, Accounted
  <2>6. CASE PushHeight
    <3>1. FlightApart' /\ InFlight' = InFlight \cup {next}
      BY <2>1, <2>6, PushHeightMoves
    <3>2. next' = next + 1 /\ next \in Heights
      BY <2>6, BtcConstants DEF PushHeight, BtcTypeInv, PushType, Heights
    <3> QED  BY <2>1, <2>2, <2>3, <3>1, <3>2 DEF Accounted
  <2> QED  BY <1>2, <2>4, <2>5, <2>6 DEF Orchestrate
<1>3. ASSUME NEW w \in HashWorkers, FetchHash(w)
      PROVE  FlightApart' /\ HeaderTried' /\ Accounted' = Accounted /\ next' = next
  <2>1. UNCHANGED <<next, lost, ipc, block, indexVars>>
    BY <1>3 DEF FetchHash
  <2>2. Stored' = Stored
    BY <2>1, OthersKeepStored
  <2>3. /\ FlightApart' /\ InFlight' \subseteq InFlight
        /\ given \subseteq given' /\ given' \subseteq given \cup InFlight
        /\ InFlight \subseteq InFlight' \cup given'
    BY <1>3, FetchHashMoves
  <2> QED  BY <2>1, <2>2, <2>3 DEF Accounted, HeaderTried
<1>4. ASSUME NEW w \in DataWorkers, FetchBlock(w)
      PROVE  FlightApart' /\ HeaderTried' /\ Accounted' = Accounted /\ next' = next
  <2>1. UNCHANGED <<next, lost, ipc, block, indexVars>>
    BY <1>4 DEF FetchBlock, pushVars
  <2>2. Stored' = Stored
    BY <2>1, OthersKeepStored
  <2>3. /\ FlightApart' /\ InFlight' \subseteq InFlight
        /\ given \subseteq given' /\ given' \subseteq given \cup InFlight
        /\ InFlight \subseteq InFlight' \cup given'
    BY <1>4, FetchBlockMoves
  <2> QED  BY <2>1, <2>2, <2>3 DEF Accounted, HeaderTried
<1>5. CASE IndexBlock
  <2>1. UNCHANGED <<next, lost>>
    BY <1>5 DEF IndexBlock, pushVars
  <2> QED  BY <1>5, <2>1, IndexBlockMoves DEF Accounted
<1>6. CASE Restart
  <2>1. InFlight' = {} /\ StagesApart' /\ ItemsApart'
    BY <1>6, EmptyFlightNext DEF Restart
  <2>2. Stored' = Stored /\ given' = given /\ lost' = lost \cup InFlight
        /\ next' = 0 /\ ipc' # "vaults"
    BY <1>6, OthersKeepStored DEF Restart
  <2> QED  BY <2>1, <2>2 DEF FlightApart, HeaderTried, Accounted
<1> QED  BY <1>1, <1>2, <1>3, <1>4, <1>5, <1>6 DEF BtcNext

(* The accounted heights have no hole, which is what makes it safe to      *)
(* resume after the greatest stored height.                                *)
NoHole ==
    \A g \in Accounted : \A h \in Heights :
        FirstHeight(0) <= h /\ h <= g => h \in Accounted

FlightInv ==
    /\ BtcTypeInv /\ FlightApart /\ HeaderTried
    /\ NoHole /\ Passed \subseteq Accounted

LEMMA FlightInvInit == BtcInit => FlightInv
<1> SUFFICES ASSUME BtcInit PROVE FlightInv
  OBVIOUS
<1>1. InFlight = {} /\ StagesApart /\ ItemsApart
  BY EmptyFlight DEF BtcInit
<1>2. Stored = {}
  BY DEF BtcInit, IndexInit, Stored, HasRow
<1>3. Accounted = {}
  BY <1>1, <1>2 DEF BtcInit, Accounted
<1>4. Passed = {}
  <2>1. \A h \in Heights : ~(h < 0)
    BY BtcConstants DEF Heights
  <2> QED  BY <2>1 DEF BtcInit, Passed
<1>5. HeaderTried
  BY DEF BtcInit, HeaderTried
<1> QED  BY <1>1, <1>3, <1>4, <1>5, BtcTypeInit DEF FlightInv, FlightApart, NoHole

LEMMA FlightInvStep == FlightInv /\ [BtcNext]_btcVars => FlightInv'
<1> SUFFICES ASSUME FlightInv, [BtcNext]_btcVars PROVE FlightInv'
  OBVIOUS
<1> USE DEF FlightInv
<1>1. BtcTypeInv' /\ FlightApart' /\ HeaderTried'
  BY BtcTypeInductive, FlightStep
<1>2. FirstHeight(0)' = FirstHeight(0) /\ next \in Nat
  BY BtcConstants DEF FirstHeight, BtcTypeInv, PushType
<1>3. CASE Accounted' = Accounted /\ (next' = next \/ next' = 0 \/ StartFetching)
  <2>1. NoHole'
    BY <1>3 DEF NoHole
  <2>2. ASSUME next' = next PROVE Passed' \subseteq Accounted'
    <3>1. Passed' = Passed
      BY <1>2, <2>2 DEF Passed
    <3> QED  BY <1>3, <3>1
  <2>3. ASSUME next' = 0 PROVE Passed' = {}
    <3>1. \A h \in Heights : ~(h < 0)
      BY BtcConstants DEF Heights
    <3> QED  BY <2>3, <3>1 DEF Passed
  <2>4. ASSUME StartFetching PROVE Passed' \subseteq Accounted'
    <3>1. PICK last \in 0..MaxHeight :
              (last = 0 \/ HasRow(last)) /\ next' = FirstHeight(last)
      BY <2>4 DEF StartFetching, LatestIndexed
    <3>2. ASSUME NEW h \in Heights, FirstHeight(0) <= h, h < next'
          PROVE  HasRow(last) /\ h <= last
      BY <3>1, <3>2, BtcConstants DEF FirstHeight, Heights
    <3>3. HasRow(last) => last \in Accounted
      BY DEF HasRow, Stored, Accounted
    <3>4. ASSUME NEW h \in Passed' PROVE h \in Accounted
      <4>1. h \in Heights /\ FirstHeight(0) <= h /\ h < next'
        BY <1>2, <3>4 DEF Passed
      <4> QED  BY <3>2, <3>3, <4>1 DEF NoHole
    <3> QED  BY <1>3, <3>4
  <2> QED  BY <1>1, <1>3, <2>1, <2>2, <2>3, <2>4
<1>4. CASE /\ Accounted' = Accounted \cup {next} /\ next' = next + 1
           /\ next \in Heights
  <2>1. \A h \in Heights : h \in Nat
    BY BtcConstants
  <2>2. \A h \in Heights : FirstHeight(0) <= h /\ h <= next => h \in Accounted'
    <3>1. \A h \in Heights : h <= next => h = next \/ h < next
      BY <1>2, <2>1
    <3> QED  BY <1>4, <3>1 DEF Passed
  <2>3. NoHole'
    BY <1>4, <2>2 DEF NoHole
  <2>4. \A h \in Heights : h < next' => h <= next
    BY <1>2, <1>4, <2>1
  <2> QED  BY <1>1, <2>2, <2>3, <2>4 DEF Passed
<1> QED  BY <1>3, <1>4, FlightStep

(* The invariant behind the accounting: the places of the pipeline do not  *)
(* share a height, and the accounted heights have no hole.                 *)
THEOREM FlightInvariant == BtcSpec => []FlightInv
BY FlightInvInit, FlightInvStep, PTL DEF BtcSpec

(* No height vanishes: every height the orchestrator is past is in the     *)
(* table, in flight, given up on a logged error, or was in memory when the *)
(* process stopped.                                                        *)
THEOREM NoHeightVanishes == BtcSpec => []HeightsAccounted
<1>1. FlightInv => HeightsAccounted
  BY DEF FlightInv, HeightsAccounted, Accounted, Stored
<1> QED  BY <1>1, FlightInvariant, PTL

-----------------------------------------------------------------------------
(* Vault transactions of a stored block are stored too, or given up, or    *)
(* lost, or about to be written.                                           *)
VaultsTried ==
    \A h \in WithVault : HasRow(h) =>
        \/ rows[h] \in vaults \cup partial \/ h \in lost
        \/ ipc = "vaults" /\ block = rows[h]

(* The steps other than those of indexBlock.                               *)
LEMMA OthersKeepIndex ==
    ASSUME BtcTypeInv, FlightApart, HeaderTried, [BtcNext]_btcVars
    PROVE  /\ IndexBlock \/ UNCHANGED indexVars
           /\ IndexBlock \/ Restart \/ UNCHANGED <<ipc, block>>
           /\ given \subseteq given' /\ lost \subseteq lost'
           /\ Restart => lost' = lost \cup InFlight
<1>1. CASE NodeStep \/ UNCHANGED btcVars
  BY <1>1 DEF NodeStep, btcVars, Restart
<1>2. CASE Orchestrate
  BY <1>2 DEF Orchestrate, Restart
<1>3. ASSUME NEW w \in HashWorkers, FetchHash(w)
      PROVE  /\ UNCHANGED <<indexVars, ipc, block, lost>>
             /\ given \subseteq given'
  BY <1>3, FetchHashMoves DEF FetchHash
<1>4. ASSUME NEW w \in DataWorkers, FetchBlock(w)
      PROVE  /\ UNCHANGED <<indexVars, ipc, block, lost>>
             /\ given \subseteq given'
  BY <1>4, FetchBlockMoves DEF FetchBlock
<1>5. CASE IndexBlock
  BY <1>5, IndexBlockMoves DEF IndexBlock, Restart
<1>6. CASE Restart
  BY <1>6 DEF Restart
<1>7. Restart => lost' = lost \cup InFlight
  BY DEF Restart
<1> QED  BY <1>1, <1>2, <1>3, <1>4, <1>5, <1>6, <1>7 DEF BtcNext

LEMMA VaultsTriedStep ==
    ASSUME FlightInv, VaultsTried, [BtcNext]_btcVars
    PROVE  VaultsTried'
<1> USE DEF FlightInv
<1>1. lost \subseteq lost'
  BY OthersKeepIndex
<1>2. CASE Restart
  <2>1. UNCHANGED <<rows, vaults, partial>> /\ lost' = lost \cup InFlight
    BY <1>2 DEF Restart, indexVars
  <2>2. ASSUME NEW h \in WithVault, HasRow(h), ipc = "vaults", block = rows[h]
        PROVE  h \in InFlight
    <3>1. HeightOf(block) = h /\ HeightOf(block) \in InFlight
      BY <2>2, IndexingFacts DEF BtcTypeInv, IndexType, HasRow
    <3> QED  BY <3>1
  <2> QED  BY <1>1, <2>1, <2>2 DEF VaultsTried, HasRow
<1>3. CASE UNCHANGED <<indexVars, ipc, block>>
  BY <1>1, <1>3 DEF VaultsTried, HasRow, indexVars
<1>4. CASE ReceiveBlock
  BY <1>1, <1>4 DEF ReceiveBlock, VaultsTried, HasRow, indexVars
<1>8. CASE ReceiveBlockFails
  BY <1>1, <1>8 DEF ReceiveBlockFails, VaultsTried, HasRow, indexVars
<1>5. CASE CheckReorg
  <2>1. UNCHANGED <<rows, vaults, partial>>
    BY <1>5, ReorgKeepsIndex DEF CheckReorg, BtcTypeInv
  <2> QED  BY <1>1, <1>5, <2>1 DEF CheckReorg, VaultsTried, HasRow
<1>6. CASE StoreBlockHeader
  <2>1. /\ ipc = "header" /\ UNCHANGED <<vaults, partial>>
        /\ HeightOf(block) \in WithVault => ipc' = "vaults" /\ block' = block
    BY <1>6 DEF StoreBlockHeader
  <2>2. rows \in [Heights -> BlockSet \cup {NoRow}] /\ HeightOf(block) \in Heights
    BY <2>1, IndexingFacts DEF BtcTypeInv, IndexType
  <2>3. CASE rows' = rows
    BY <1>1, <2>1, <2>3 DEF VaultsTried, HasRow
  <2>4. CASE rows' = [rows EXCEPT ![HeightOf(block)] = block]
    <3>1. rows'[HeightOf(block)] = block
          /\ \A h \in Heights : h # HeightOf(block) => rows'[h] = rows[h]
      BY <2>2, <2>4
    <3> QED  BY <1>1, <2>1, <3>1 DEF VaultsTried, HasRow
  <2> QED  BY <1>6, <2>3, <2>4 DEF StoreBlockHeader, CreateBtcBlockHeader
<1>7. CASE StoreVaultTransactions \/ StoreVaultsFails
  <2>1. rows' = rows /\ vaults \cup partial \cup {block} \subseteq vaults' \cup partial'
    BY <1>7 DEF StoreVaultTransactions, StoreVaultsFails
  <2> QED  BY <1>1, <2>1 DEF VaultsTried, HasRow
<1> QED  BY <1>2, <1>3, <1>4, <1>5, <1>6, <1>7, <1>8, OthersKeepIndex DEF IndexBlock

(* No vault transaction of a stored block is silently missing, although    *)
(* the header written before it keeps a restart from fetching the block    *)
(* again: it was given up on an error or a conflict, or its block was in   *)
(* memory when the process stopped.                                        *)
THEOREM NoVaultVanishes == BtcSpec => []VaultsAccounted
<1>1. BtcInit => VaultsTried
  BY DEF BtcInit, IndexInit, VaultsTried, HasRow
<1>2. FlightInv /\ VaultsTried /\ [BtcNext]_btcVars => VaultsTried'
  BY VaultsTriedStep
<1>3. FlightInv /\ VaultsTried => VaultsAccounted
  <2> SUFFICES ASSUME FlightInv, VaultsTried, NEW h \in WithVault, HasRow(h)
               PROVE  rows[h] \in vaults \cup partial \/ h \in InFlight \cup lost
    BY DEF VaultsAccounted
  <2>1. ASSUME ipc = "vaults", block = rows[h]
        PROVE  h \in InFlight
    <3>1. HeightOf(block) = h /\ HeightOf(block) \in InFlight
      BY <2>1, IndexingFacts DEF FlightInv, BtcTypeInv, IndexType, HasRow
    <3> QED  BY <3>1
  <2> QED  BY <2>1 DEF VaultsTried
<1> QED  BY <1>1, <1>2, <1>3, FlightInvariant, PTL DEF BtcSpec

-----------------------------------------------------------------------------
(* While no call has failed: nothing is given up; the orchestrator is past *)
(* every stored height; and a height in flight has no row yet, unless it   *)
(* is that of the block whose vault transactions come next.                *)
NoGivenUp == given = {}
StoredPassed == opc # "start" => \A h \in Stored : h < next
FlightUnstored == \A h \in InFlight \cap Stored : ipc = "vaults" /\ rows[h] = block
VaultsMatch == \A b \in vaults : rows[HeightOf(b)] = b

Faultless == NoGivenUp /\ StoredPassed /\ FlightUnstored /\ VaultsMatch
FaultlessInv == faults = 0 => Faultless

(* The height of a finished block is nowhere else in flight.               *)
LEMMA DoneLeaves ==
    ASSUME BtcTypeInv, FlightApart, IndexBlock, Done, ipc # "receive",
           UNCHANGED blockChan
    PROVE  HeightOf(block) \notin InFlight'
<1>1. UNCHANGED <<InHeightChan, InAsking, InHashed, InHashesChan, InFetching,
                  InFetched, InBlockChan>>
  BY DEF IndexBlock, pushVars, poolVars, InHeightChan, InAsking, InHashed,
         InHashesChan, InFetching, InFetched, InBlockChan
<1>2. InIndexing = {HeightOf(block)} /\ InIndexing' = {}
  BY IndexingFacts DEF Done
<1> QED  BY <1>1, <1>2, FlightStages DEF FlightApart, StagesApart

LEMMA IndexBlockFaultless ==
    ASSUME FlightInv, Faultless, IndexBlock, NoFault
    PROVE  Faultless'
<1> USE DEF FlightInv, Faultless, NoGivenUp
<1>0. UNCHANGED <<opc, next>> /\ InFlight' \subseteq InFlight
  BY IndexBlockMoves DEF IndexBlock, pushVars
<1>1. faults \in Nat /\ faults' = faults
  BY DEF NoFault, BtcTypeInv, NodeType
<1>2. ASSUME UNCHANGED <<rows, vaults, given>>, ipc # "vaults"
      PROVE  Faultless'
  <2>1. Stored' = Stored
    BY <1>2 DEF Stored, HasRow
  <2> QED  BY <1>0, <1>2, <2>1 DEF StoredPassed, FlightUnstored, VaultsMatch
<1>3. CASE ReceiveBlock
  BY <1>2, <1>3 DEF ReceiveBlock, indexVars
<1>4. CASE CheckReorg
  BY <1>2, <1>4, ReorgKeepsIndex DEF CheckReorg, BtcTypeInv
<1>5. CASE StoreBlockHeader
  <2> DEFINE g == HeightOf(block)
  <2>1. /\ ipc = "header" /\ UNCHANGED <<blockChan, vaults>>
    BY <1>5 DEF StoreBlockHeader
  <2>2. g \in InFlight /\ g \in Heights
    BY <2>1, IndexingFacts
  <2>3. ~HasRow(g)
    BY <2>1, <2>2 DEF FlightUnstored, Stored
  <2>4. /\ rows' = [rows EXCEPT ![g] = block] /\ given' = given
        /\ Stored' \subseteq Stored \cup {g}
    BY <1>1, <1>5, <2>3, HeaderStored
  <2>5. /\ rows'[g] = block
        /\ \A h \in Heights : h # g => rows'[h] = rows[h]
    BY <2>2, <2>4 DEF BtcTypeInv, IndexType
  <2>6. StoredPassed'
    BY <1>0, <2>2, <2>4 DEF StoredPassed, FlightApart
  <2>7. VaultsMatch'
    <3>1. ASSUME NEW b \in vaults
          PROVE  HeightOf(b) \in Heights /\ HeightOf(b) # g
      <4>1. b \in BlockSet
        BY <3>1 DEF BtcTypeInv, IndexType
      <4>2. b # NoRow /\ HeightOf(b) \in Heights
        BY <4>1, BlockFacts DEF NoRow
      <4> QED  BY <2>3, <3>1, <4>2 DEF VaultsMatch, HasRow
    <3> QED  BY <2>1, <2>5, <3>1 DEF VaultsMatch
  <2>8. \A h \in InFlight \cap Stored' : h = g
    BY <2>1, <2>4 DEF FlightUnstored
  <2>9. FlightUnstored'
    <3>1. CASE g \in WithVault
      <4>1. ipc' = "vaults" /\ block' = block
        BY <1>5, <3>1 DEF StoreBlockHeader
      <4> QED  BY <1>0, <2>5, <2>8, <4>1 DEF FlightUnstored
    <3>2. CASE g \notin WithVault
      <4>1. Done
        BY <1>5, <3>2 DEF StoreBlockHeader
      <4>2. g \notin InFlight'
        BY <2>1, <4>1, DoneLeaves
      <4> QED  BY <1>0, <2>8, <4>2 DEF FlightUnstored
    <3> QED  BY <3>1, <3>2
  <2> QED  BY <2>4, <2>6, <2>7, <2>9
<1>6. CASE StoreVaultTransactions \/ StoreVaultsFails
  <2> DEFINE g == HeightOf(block)
  <2>1. /\ ipc = "vaults" /\ UNCHANGED <<blockChan, rows>> /\ Done
    BY <1>6 DEF StoreVaultTransactions, StoreVaultsFails
  <2>2. vaults' \subseteq vaults \cup {block} /\ given' = given
    BY <1>6 DEF StoreVaultTransactions, StoreVaultsFails
  <2>3. g \in InFlight /\ g \in Stored
    BY <2>1, IndexingFacts DEF HeaderTried
  <2>4. rows[g] = block
    BY <2>3 DEF FlightUnstored
  <2>5. Stored' = Stored
    BY <2>1 DEF Stored, HasRow
  <2>6. g \notin InFlight'
    BY <2>1, DoneLeaves
  <2>7. \A h \in InFlight \cap Stored : h = g
    <3>1. \A h \in Stored : HeightOf(rows[h]) = h
      BY DEF Stored, HasRow, BtcTypeInv, IndexType
    <3> QED  BY <3>1 DEF FlightUnstored
  <2>8. FlightUnstored'
    BY <1>0, <2>5, <2>6, <2>7 DEF FlightUnstored
  <2>9. StoredPassed' /\ VaultsMatch'
    BY <1>0, <2>1, <2>2, <2>4, <2>5 DEF StoredPassed, VaultsMatch
  <2> QED  BY <2>2, <2>8, <2>9
<1>7. ~ReceiveBlockFails
  BY <1>1 DEF ReceiveBlockFails, Fault
<1> QED  BY <1>3, <1>4, <1>5, <1>6, <1>7 DEF IndexBlock

LEMMA FaultlessStep ==
    ASSUME FlightInv, FaultlessInv, [BtcNext]_btcVars
    PROVE  FaultlessInv'
<1> SUFFICES ASSUME faults' = 0 PROVE Faultless'
  BY DEF FaultlessInv
<1> USE DEF FlightInv
<1>1. faults = 0 /\ ~Fault
  <2>1. faults \in Nat
    BY DEF BtcTypeInv, NodeType
  <2>2. faults' = faults \/ Fault
    <3>1. CASE NodeStep \/ UNCHANGED btcVars \/ Restart
      BY <3>1 DEF NodeStep, btcVars, Restart
    <3>2. CASE Orchestrate
      BY <3>2 DEF Orchestrate, StartFetching, Tick, TickFails, PushHeight, NoFault
    <3>3. ASSUME NEW w \in HashWorkers, FetchHash(w) PROVE faults' = faults \/ Fault
      BY <3>3 DEF FetchHash, TakeHeight, GetBlockHash, GetBlockHashFails, SendHash
    <3>4. ASSUME NEW w \in DataWorkers, FetchBlock(w) PROVE faults' = faults \/ Fault
      BY <3>4 DEF FetchBlock, TakeHash, GetBlock, GetBlockFails, SendBlock
    <3>5. CASE IndexBlock
      BY <3>5 DEF IndexBlock, ReceiveBlock, CheckReorg, StoreBlockHeader,
                  ReceiveBlockFails, StoreVaultTransactions, StoreVaultsFails, NoFault
    <3> QED  BY <3>1, <3>2, <3>3, <3>4, <3>5 DEF BtcNext
  <2> QED  BY <2>1, <2>2 DEF Fault
<1>2. Faultless
  BY <1>1 DEF FaultlessInv
<1> USE DEF Faultless, NoGivenUp
<1>3. ASSUME UNCHANGED <<opc, next, given, ipc, block, indexVars>>,
             InFlight' \subseteq InFlight
      PROVE  Faultless'
  <2>1. Stored' = Stored
    BY <1>3, OthersKeepStored
  <2> QED  BY <1>2, <1>3, <2>1
           DEF StoredPassed, FlightUnstored, VaultsMatch, indexVars
<1>4. CASE NodeStep \/ UNCHANGED btcVars
  <2>1. /\ UNCHANGED <<opc, next, given, ipc, block, indexVars>>
        /\ UNCHANGED <<heightChan, poolVars, blockChan, block>>
    BY <1>4 DEF NodeStep, btcVars, pushVars
  <2> QED  BY <1>3, <2>1, KeptInFlight
<1>5. CASE Orchestrate
  <2>1. /\ UNCHANGED <<poolVars, blockChan, ipc, block>>
        /\ UNCHANGED <<given, indexVars, ipc, block>>
    BY <1>5 DEF Orchestrate
  <2>2. Stored' = Stored
    BY <2>1, OthersKeepStored
  <2>3. VaultsMatch'
    BY <1>2, <2>1 DEF VaultsMatch, indexVars
  <2>4. CASE StartFetching
    <3>1. PICK last \in 0..MaxHeight : LatestIndexed(last) /\ next' = FirstHeight(last)
      BY <1>1, <2>4 DEF StartFetching
    <3>2. StoredPassed'
      BY <2>2, <3>1, BtcConstants
         DEF LatestIndexed, FirstHeight, StoredPassed, Stored, Heights
    <3>3. InFlight' = {}
      BY <2>1, <2>4, KeptInFlight DEF StartFetching, FlightApart
    <3> QED  BY <1>2, <2>1, <2>3, <3>2, <3>3 DEF FlightUnstored
  <2>5. CASE Tick
    <3>1. UNCHANGED <<heightChan, next>> /\ opc # "start"
      BY <2>5 DEF Tick
    <3>2. InFlight' = InFlight
      BY <2>1, <3>1, KeptInFlight
    <3> QED  BY <1>2, <2>1, <2>2, <2>3, <3>1, <3>2
             DEF StoredPassed, FlightUnstored, indexVars
  <2>6. CASE TickFails
    BY <1>1, <2>6 DEF TickFails
  <2>7. CASE PushHeight
    <3>1. InFlight' = InFlight \cup {next}
      BY <2>1, <2>7, PushHeightMoves
    <3>2. /\ next' = next + 1 /\ next \in Nat /\ opc # "start"
      BY <2>7 DEF PushHeight, BtcTypeInv, PushType
    <3>3. \A h \in Stored : h \in Nat /\ h < next
      BY <1>2, <3>2, BtcConstants DEF StoredPassed, Stored
    <3>4. StoredPassed'
      BY <2>2, <3>2, <3>3 DEF StoredPassed
    <3>5. next \notin Stored
      BY <3>2, <3>3
    <3> QED  BY <1>2, <2>1, <2>2, <2>3, <3>1, <3>4, <3>5
             DEF FlightUnstored, indexVars
  <2> QED  BY <1>5, <2>4, <2>5, <2>6, <2>7 DEF Orchestrate
<1>6. ASSUME NEW w \in HashWorkers, FetchHash(w) PROVE Faultless'
  <2>1. UNCHANGED <<opc, next, given, ipc, block, indexVars>>
    BY <1>1, <1>6 DEF FetchHash, TakeHeight, GetBlockHash, GetBlockHashFails,
                      SendHash
  <2> QED  BY <1>3, <1>6, <2>1, FetchHashMoves
<1>7. ASSUME NEW w \in DataWorkers, FetchBlock(w) PROVE Faultless'
  <2>1. UNCHANGED <<opc, next, given, ipc, block, indexVars>>
    BY <1>1, <1>7 DEF FetchBlock, TakeHash, GetBlock, GetBlockFails, SendBlock,
                      pushVars
  <2> QED  BY <1>3, <1>7, <2>1, FetchBlockMoves
<1>8. CASE IndexBlock
  BY <1>1, <1>2, <1>8, IndexBlockFaultless DEF NoFault
<1>9. CASE Restart
  <2>1. InFlight' = {}
    BY <1>9, EmptyFlightNext DEF Restart
  <2>2. opc' = "start" /\ UNCHANGED <<given, indexVars>>
    BY <1>9 DEF Restart
  <2> QED  BY <1>2, <2>1, <2>2
           DEF StoredPassed, FlightUnstored, VaultsMatch, indexVars
<1> QED  BY <1>4, <1>5, <1>6, <1>7, <1>8, <1>9 DEF BtcNext

(* The two tables agree: as long as no call fails, vault transactions are  *)
(* stored only for the block whose header is stored at their height,       *)
(* whatever the order of the workers, the reorganisations of the chain and *)
(* the restarts.                                                           *)
THEOREM VaultsMatchHeaders == BtcSpec => []VaultsUnderHeader
<1>1. BtcInit => FaultlessInv
  <2> SUFFICES ASSUME BtcInit PROVE Faultless
    BY DEF FaultlessInv
  <2>1. InFlight = {}
    BY EmptyFlight DEF BtcInit
  <2> QED  BY <2>1 DEF BtcInit, IndexInit, Faultless, NoGivenUp, StoredPassed,
                       FlightUnstored, VaultsMatch
<1>2. FlightInv /\ FaultlessInv /\ [BtcNext]_btcVars => FaultlessInv'
  BY FaultlessStep
<1>3. FaultlessInv => VaultsUnderHeader
  BY DEF FaultlessInv, Faultless, VaultsMatch, VaultsUnderHeader
<1> QED  BY <1>1, <1>2, <1>3, FlightInvariant, PTL DEF BtcSpec
=============================================================================
