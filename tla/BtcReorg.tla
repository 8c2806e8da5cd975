------------------------------ MODULE BtcReorg ------------------------------
(***************************************************************************)
(* The block index of a BtcClient (tables btc_block_headers and            *)
(* vault_transactions) and its ReorgHandler (pkg/btc/reorg.go).            *)
(*                                                                         *)
(* A block is the sequence of branch numbers that leads to it from the     *)
(* genesis block <<Chain>>: two blocks are equal exactly when their whole  *)
(* history is, which is what a block hash stands for.                      *)
(***************************************************************************)
EXTENDS Integers, Sequences, FiniteSets

CONSTANTS
    Chain,         \* BtcConfig.SourceChain
    MaxHeight      \* bound on the height of the chain

ASSUME MaxHeightAssumption == MaxHeight \in Nat

Heights == 1..MaxHeight

VARIABLES
    rows,      \* rows[h]: the block whose header is stored for height h
    vaults,    \* the blocks whose vault transactions are stored
    partial    \* history: those of which one or more were given up

indexVars == <<rows, vaults, partial>>

NoRow == << >>
HasRow(h) == h \in Heights /\ rows[h] # NoRow

HeightOf(b) == Len(b) - 1
PrevBlock(b) == SubSeq(b, 1, Len(b) - 1)

(* A hash covers the time stamp and the difficulty bits of its header.     *)
(* extractBlockHeader rebuilds the header with the time of indexing, and   *)
(* with bits it reads in base 10, before StoreBlockHeader hashes it.       *)
Hash(b) == [of |-> b, stamp |-> "mined"]
StoredHash(b) == [of |-> b, stamp |-> "indexed"]

IndexInit ==
    /\ rows = [h \in Heights |-> NoRow]
    /\ vaults = {} /\ partial = {}

-----------------------------------------------------------------------------
(* GetLatestIndexedHeight: the greatest height with a row, of any chain;   *)
(* the callers read the error for an empty table as 0.                     *)
LatestIndexed(h) ==
    /\ h = 0 \/ HasRow(h)
    /\ \A g \in Heights : HasRow(g) => g <= h

(* Deviation used to test the properties: a hash not found falls back to   *)
(* the genesis block when the walk meets a missing row.                    *)
MutForkPoint(tip, target) ==
    LET match == {h \in 1..tip : StoredHash(rows[h]) = target}
    IN  IF match = {} THEN {0} ELSE match

(* findForkPoint: the first stored hash equal to target, down from the     *)
(* tip; a missing row on the way is an error (here: the empty set).        *)
ForkPoint(tip, target) ==
    {h \in 1..tip :
        /\ StoredHash(rows[h]) = target
        /\ \A g \in h..tip : HasRow(g)
        /\ \A g \in (h + 1)..tip : StoredHash(rows[g]) # target}

(* DeleteBlockAndTxsFromHeight: two deletes, without a filter on the       *)
(* chain.                                                                  *)
DeleteBlockAndTxsFromHeight(h) ==
    /\ vaults' = {b \in vaults : HeightOf(b) < h}
    /\ rows' = [g \in Heights |-> IF g >= h THEN NoRow ELSE rows[g]]
    /\ UNCHANGED partial

(* The parent of a new block b, as DetectAndHandleReorg looks it up.  For  *)
(* the lowest block, or when the row is missing, there is nothing to       *)
(* compare with: the handler returns an error that indexBlock only logs.   *)
Connects(b) == StoredHash(rows[HeightOf(b) - 1]) = Hash(PrevBlock(b))

(* The height up to which the index survives the check of block b.         *)
KeptHeight(b) ==
    LET tip == HeightOf(b) - 1
        fork == ForkPoint(tip, Hash(PrevBlock(b)))
    IN  IF ~HasRow(tip) \/ Connects(b) \/ fork = {}
        THEN MaxHeight ELSE CHOOSE h \in fork : TRUE

DetectAndHandleReorg(b) == DeleteBlockAndTxsFromHeight(KeptHeight(b) + 1)

(* CreateBtcBlockHeader: ON CONFLICT (height) DO NOTHING.                  *)
CreateBtcBlockHeader(b) ==
    rows' = IF HasRow(HeightOf(b)) THEN rows
            ELSE [rows EXCEPT ![HeightOf(b)] = b]
=============================================================================
