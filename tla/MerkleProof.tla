---------------------------- MODULE MerkleProof -----------------------------
(***************************************************************************)
(* pkg/btc/merkle.go: the Merkle proof that ParseVaultTxRawResult stores   *)
(* with a vault transaction.  Hashes are terms: a transaction is <<t>> and *)
(* the hash of two concatenated hashes is the pair of them, so that equal  *)
(* terms stand for equal hashes and nothing else does.                     *)
(***************************************************************************)
EXTENDS Naturals, Sequences

CONSTANT MaxTxs    \* bound: transactions in a block

ASSUME MerkleAssumption == MaxTxs \in Nat \ {0}

(* Powers of two are the result of doubling: arithmetic that the provers   *)
(* have no rule for.                                                       *)
ASSUME LevelPowers ==
    /\ 2 ^ 0 = 1
    /\ \A n \in 0..MaxTxs : 2 ^ n \in Nat \ {0} /\ 2 ^ (n + 1) = 2 * 2 ^ n

VARIABLES
    txCount, txPosition,     \* the block and the transaction to prove
    workingHashes, workingIndex, merkle   \* of createMerkleBranchAndRoot

merkleVars == <<txCount, txPosition, workingHashes, workingIndex, merkle>>

Tx(t) == <<t>>

-----------------------------------------------------------------------------
(* calculateMerkleProofPath: positions outside the block are refused.      *)
MerkleInit ==
    /\ txCount \in 1..MaxTxs /\ txPosition \in 0..(txCount - 1)
    /\ workingHashes = [i \in 1..txCount |-> Tx(i - 1)]
    /\ workingIndex = txPosition /\ merkle = << >>

(* Deviation used to test the properties: the wrong hash is repeated.      *)
MutPadded ==
    IF Len(workingHashes) % 2 # 0
    THEN Append(workingHashes, Head(workingHashes))
    ELSE workingHashes

(* The last hash of an odd level is repeated.                              *)
Padded ==
    IF Len(workingHashes) % 2 # 0
    THEN Append(workingHashes, workingHashes[Len(workingHashes)])
    ELSE workingHashes
Sibling(i) == IF i % 2 = 0 THEN i + 1 ELSE i - 1
NextLevel(hashes) ==
    [i \in 1..(Len(hashes) \div 2) |-> <<hashes[2 * i - 1], hashes[2 * i]>>]

(* One round of the loop of createMerkleBranchAndRoot.                     *)
MerkleLevel ==
    /\ Len(workingHashes) > 1
    /\ merkle' = Append(merkle, Padded[Sibling(workingIndex) + 1])
    /\ workingIndex' = Sibling(workingIndex) \div 2
    /\ workingHashes' = NextLevel(Padded)
    /\ UNCHANGED <<txCount, txPosition>>

MerkleSpec == MerkleInit /\ [][MerkleLevel]_merkleVars

(* VerifyMerkleProof of a transaction against the finished proof.          *)
VerifyMerkleProof(tx, path, root) ==
    LET current[i \in 0..Len(path)] ==
            IF i = 0 THEN tx
            ELSE IF (txPosition \div 2 ^ (i - 1)) % 2 = 0
                 THEN <<current[i - 1], path[i]>>
                 ELSE <<path[i], current[i - 1]>>
    IN  current[Len(path)] = root

-----------------------------------------------------------------------------
(* The Merkle tree of Bitcoin: the number of nodes at a height, and the    *)
(* node at a place; a last node without a right sibling is paired with     *)
(* itself.                                                                 *)
Width(height) == (txCount + 2 ^ height - 1) \div 2 ^ height
Node(height, place) ==
    LET node[h \in 0..height] ==
            [p \in 0..(Width(h) - 1) |->
                IF h = 0 THEN Tx(p)
                ELSE LET right == IF 2 * p + 1 < Width(h - 1) THEN 2 * p + 1 ELSE 2 * p
                     IN  <<node[h - 1][2 * p], node[h - 1][right]>>]
    IN  node[height][place]

(* At every level the working hashes are that level of the block's Merkle  *)
(* tree, and the index is the place of the transaction's ancestor; at the  *)
(* end the proof verifies the transaction at txPosition and no other, also *)
(* for blocks with odd levels at any height.                               *)
ProofVerifies ==
    LET h == Len(merkle) IN
    /\ workingIndex = txPosition \div 2 ^ h
    /\ \A i \in 1..Len(workingHashes) : workingHashes[i] = Node(h, i - 1)
    /\ Len(workingHashes) = Width(h)
    /\ Len(workingHashes) = 1 =>
        \A t \in 0..(txCount - 1) :
            VerifyMerkleProof(Tx(t), merkle, workingHashes[1]) <=> t = txPosition
=============================================================================
