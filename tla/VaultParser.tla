---------------------------- MODULE VaultParser -----------------------------
(***************************************************************************)
(* pkg/btc/parser.go: which Bitcoin transactions become vault transactions *)
(* and what is read from their first output.  A transaction is the script  *)
(* of that output, the values of its outputs and what the node answers     *)
(* when asked for the output that its first input spends.  The sizes of    *)
(* types.go are parameters.                                                *)
(***************************************************************************)
EXTENDS ChainInfo

CONSTANTS
    TagSize, ServiceTagSize, SequenceSize, HashSize, AddressSize,
    VaultTag, VaultVersion,            \* of the client's configuration
    OpReturn, PoolRedeem, UpcRedeem,   \* 0x6a and the flags of redeem outputs
    ByteAt                             \* bound: the bytes tried at each place

ASSUME VaultAssumption ==
    /\ {TagSize, ServiceTagSize, SequenceSize, HashSize, AddressSize} \subseteq Nat
    /\ VaultTag \in Seq(Bytes) /\ VaultVersion \in Bytes
    /\ {OpReturn, PoolRedeem, UpcRedeem} \subseteq Bytes /\ PoolRedeem # UpcRedeem
    /\ ByteAt \in Seq(SUBSET Bytes)

VARIABLES
    script,     \* PkScript of the first output
    values,     \* values of the outputs
    previous    \* GetRawTransaction for the first input: "unknown" (an error),
                \* "short" (no output of that index) or "found"

vaultVars == <<script, values, previous>>

-----------------------------------------------------------------------------
Rejected == [type |-> "rejected"]

(* data[a : a + n], and Go's panic when data is too short.                 *)
Slice(data, a, n) ==
    IF a + n <= Len(data) THEN SubSeq(data, a + 1, a + n) ELSE <<"panic">>

(* The three parsers of what follows the flags.  They fill in the output   *)
(* that holds the tag already; a field that is not read keeps its zero.    *)
Zero == << >>
ParsePoolRedeem(tag, data) ==
    IF Len(data) < ServiceTagSize + SequenceSize + HashSize THEN Rejected
    ELSE [tag |-> tag, type |-> "redeem", chain |-> NoChain, quorum |-> 0,
          service   |-> Slice(data, 0, ServiceTagSize),
          sequence  |-> Slice(data, ServiceTagSize, SequenceSize),
          group     |-> Slice(data, ServiceTagSize + SequenceSize, HashSize),
          token     |-> Zero, recipient |-> Zero]

ParseUpcRedeem(tag, data) ==
    IF Len(data) < ServiceTagSize THEN Rejected
    ELSE [tag |-> tag, type |-> "redeem", chain |-> NoChain, quorum |-> 0,
          service   |-> Slice(data, 0, ServiceTagSize),
          sequence  |-> Zero, group |-> Zero, token |-> Zero, recipient |-> Zero]

ParseStaking(tag, data) ==
    LET at == ServiceTagSize + 1
        destination == NewChainInfoFromBytes(Slice(data, at, ChainInfoBytesSize))
    IN  IF Len(data) < at + ChainInfoBytesSize + 2 * AddressSize THEN Rejected
        ELSE IF destination = NoChain THEN Rejected
        ELSE [tag |-> tag, type |-> "staking", chain |-> destination,
              quorum    |-> data[ServiceTagSize + 1],
              service   |-> Slice(data, 0, ServiceTagSize),
              sequence  |-> Zero, group |-> Zero,
              token     |-> Slice(data, at + ChainInfoBytesSize, AddressSize),
              recipient |-> Slice(data, at + ChainInfoBytesSize + AddressSize,
                                  AddressSize)]

(* Deviation used to test the properties: the flags are skipped twice.     *)
MutParseVaultReturnTxOutput(data) ==
    LET tag   == SubSeq(data, 1, TagSize)
        flags == data[TagSize + 3]
        rest  == SubSeq(data, TagSize + 5, Len(data))
    IN  IF Len(data) < TagSize + 3 + ServiceTagSize THEN Rejected
        ELSE IF tag # VaultTag \/ data[TagSize + 1] # VaultVersion THEN Rejected
        ELSE CASE flags = PoolRedeem -> ParsePoolRedeem(tag, rest)
               [] flags = UpcRedeem  -> ParseUpcRedeem(tag, rest)
               [] OTHER -> ParseStaking(tag, rest)

ParseVaultReturnTxOutput(data) ==
    LET tag   == Slice(data, 0, TagSize)
        flags == data[TagSize + 3]
        rest  == SubSeq(data, TagSize + 4, Len(data))
    IN  IF Len(data) < TagSize + 3 + ServiceTagSize THEN Rejected
        ELSE IF tag # VaultTag THEN Rejected
        ELSE IF data[TagSize + 1] # VaultVersion THEN Rejected
        ELSE CASE flags = PoolRedeem -> ParsePoolRedeem(tag, rest)
               [] flags = UpcRedeem  -> ParseUpcRedeem(tag, rest)
               [] OTHER -> ParseStaking(tag, rest)

(* parseVaultTransactionData: the record that is stored.  Its service tag  *)
(* is the output's tag, of the destination only the id is kept, and the    *)
(* whole script goes along.  A staking transaction also has its amounts,   *)
(* and its staker's script, which getPreviousTxout has to find.            *)
ParseVaultTransactionData(output) ==
    LET staking == output.type = "staking" IN
    IF staking /\ previous # "found" THEN Rejected
    ELSE [type |-> output.type, serviceTag |-> output.tag, quorum |-> output.quorum,
          destination |-> output.chain.id,
          token |-> output.token, recipient |-> output.recipient,
          sequence |-> output.sequence, group |-> output.group, scriptPubkey |-> script,
          amount |-> IF staking THEN values[2] ELSE 0,
          change |-> IF staking /\ Len(values) >= 3 THEN values[3] ELSE 0]

(* ParseVaultMsgTx and ParseVaultTxRawResult (whose Merkle proof is in     *)
(* MerkleProof).  A destination chain of 0 is refused, which is what every *)
(* redeem output has.                                                      *)
ParseVaultTx ==
    IF Len(values) < 2 \/ Len(script) < 2 THEN Rejected
    ELSE IF script[1] # OpReturn THEN Rejected
    ELSE LET output == ParseVaultReturnTxOutput(SubSeq(script, 3, Len(script))) IN
         IF output = Rejected THEN Rejected
         ELSE IF output.chain.id = 0 THEN Rejected
         ELSE ParseVaultTransactionData(output)

-----------------------------------------------------------------------------
(* The transactions that are parsed.                                       *)
VaultInit ==
    /\ script = << >> /\ values = << >>
    /\ previous \in {"unknown", "short", "found"}
VaultNext ==
    \/ /\ Len(script) < Len(ByteAt)
       /\ \E byte \in ByteAt[Len(script) + 1] : script' = Append(script, byte)
       /\ UNCHANGED <<values, previous>>
    \/ /\ Len(values) < 3
       /\ values' = Append(values, Len(values) + 1)
       /\ UNCHANGED <<script, previous>>

VaultSpec == VaultInit /\ [][VaultNext]_vaultVars

(* Where a script has its flags, the end of the quorum, and its end.       *)
FlagsAt == 2 + TagSize + 3
ChainAt == FlagsAt + ServiceTagSize + 1
StakingSize == ChainAt + ChainInfoBytesSize + 2 * AddressSize

(* The script up to its destination is that of a staking output of this    *)
(* tag and version.                                                        *)
OpensStaking ==
    /\ script[1] = OpReturn
    /\ SubSeq(script, 3, 2 + TagSize) = VaultTag
    /\ script[FlagsAt - 2] = VaultVersion
    /\ script[FlagsAt] \notin {PoolRedeem, UpcRedeem}

(* A transaction is stored exactly when it is a complete staking output of *)
(* this tag and version for a chain of a known type and an id other than   *)
(* 0, with a known staker.  Writing the stored quorum, destination (behind *)
(* its type, which is not stored), token and recipient one after the other *)
(* gives back the script behind the service tag, so none of them is taken  *)
(* from the wrong offset, and no byte beyond the script is ever read.  The *)
(* script is stored whole.  Redeem outputs are parsed and then refused for *)
(* their destination chain.                                                *)
StakingReadBack ==
    LET tx == ParseVaultTx
    IN  /\ tx # Rejected <=>
            /\ Len(script) >= StakingSize /\ OpensStaking
            /\ ValidateChainType(script[ChainAt + 1])
            /\ \E i \in 2..ChainInfoBytesSize : script[ChainAt + i] # 0
            /\ Len(values) >= 2 /\ previous = "found"
        /\ tx # Rejected =>
            /\ SubSeq(script, ChainAt, StakingSize) =
                 <<tx.quorum>>
                   \o ToBytes([type |-> script[ChainAt + 1], id |-> tx.destination])
                   \o tx.token \o tx.recipient
            /\ tx.scriptPubkey = script
            /\ tx.amount = values[2]
            /\ tx.change = IF Len(values) = 3 THEN values[3] ELSE 0

(* What parser_test.go expects of a staking output: "dest_chain (9)", a    *)
(* byte of type followed by an id of eight bytes, from which the id is     *)
(* read.                                                                   *)
DestinationAsTested ==
    LET output == ParseVaultReturnTxOutput(SubSeq(script, 3, Len(script)))
        idAt   == ChainAt + 1
    IN  Len(script) = StakingSize + 1 /\ OpensStaking /\ output # Rejected =>
            output.chain.id = BigEndian(SubSeq(script, idAt + 1, idAt + ChainInfoBytesSize))
=============================================================================
