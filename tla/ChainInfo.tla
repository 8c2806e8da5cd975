----------------------------- MODULE ChainInfo ------------------------------
(***************************************************************************)
(* pkg/types/chain_info.go: a chain is a type (one byte) and an id, packed *)
(* into ChainInfoBytesSize bytes of which the first is the type.  An id is *)
(* an unsigned integer of ChainInfoBytesSize bytes (uint64), so that its   *)
(* most significant byte has no room.  ByteBase stands for 256.            *)
(***************************************************************************)
EXTENDS Naturals, Sequences

CONSTANTS ByteBase, ChainInfoBytesSize

ASSUME ChainInfoAssumption ==
    ByteBase \in Nat \ {0, 1} /\ ChainInfoBytesSize \in Nat \ {0}

(* Powers are the result of multiplying: arithmetic that the provers have  *)
(* no rule for.                                                            *)
ASSUME PowersOfByteBase ==
    /\ ByteBase ^ 0 = 1
    /\ \A n \in 0..ChainInfoBytesSize :
        ByteBase ^ n \in Nat \ {0} /\ ByteBase ^ (n + 1) = ByteBase * ByteBase ^ n

Bytes == 0..(ByteBase - 1)
Uint64s == 0..(ByteBase ^ ChainInfoBytesSize - 1)
ChainTypes == <<"bitcoin", "evm", "solana", "cosmos">>
ChainInfos == [type : Bytes, id : Uint64s]
NoChain == [type |-> ByteBase, id |-> 0]

VARIABLE chainInfo    \* the receiver of the methods

-----------------------------------------------------------------------------
ValidateChainType(type) == type < Len(ChainTypes)

(* ChainType.String and the lookup of ChainType.FromString.                *)
TypeString(type) == IF ValidateChainType(type) THEN ChainTypes[type + 1] ELSE ""
TypeOfString(s) == {t \in 0..(Len(ChainTypes) - 1) : ChainTypes[t + 1] = s}

(* binary.BigEndian: byte k of an id, counted from the most significant,   *)
(* and the id of a sequence of bytes.                                      *)
PutUint64(id) ==
    [k \in 1..ChainInfoBytesSize |->
        (id \div ByteBase ^ (ChainInfoBytesSize - k)) % ByteBase]
BigEndian(bytes) ==
    LET upTo[k \in 0..Len(bytes)] ==
            IF k = 0 THEN 0 ELSE upTo[k - 1] * ByteBase + bytes[k]
    IN  upTo[Len(bytes)]

(* Deviation used to test the properties: the id is copied from its first  *)
(* byte on, and loses the last one.                                        *)
MutToBytes(info) ==
    <<info.type>> \o SubSeq(PutUint64(info.id), 1, ChainInfoBytesSize - 1)

(* Bytes, ToBytes and what MarshalTo copies.                               *)
ToBytes(info) ==
    <<info.type>> \o SubSeq(PutUint64(info.id), 2, ChainInfoBytesSize)

(* ChainInfoBytes.ChainID: the first byte is cleared.                      *)
ChainID(bytes) == BigEndian([bytes EXCEPT ![1] = 0])

NewChainInfoFromBytes(bytes) ==
    IF Len(bytes) # ChainInfoBytesSize \/ ~ValidateChainType(bytes[1])
    THEN NoChain
    ELSE [type |-> bytes[1], id |-> ChainID(bytes)]

(* ChainInfo.FromString by way of ChainInfoBytes: s is split at "|", and   *)
(* the parser of the second part takes unsigned 64-bit integers only.      *)
Parse(parts) ==
    IF \/ Len(parts) # 2
       \/ TypeOfString(parts[1]) = {}
       \/ parts[2] \notin Uint64s
    THEN NoChain
    ELSE LET type  == CHOOSE t \in TypeOfString(parts[1]) : TRUE
             bytes == <<type>> \o SubSeq(PutUint64(parts[2]), 2, ChainInfoBytesSize)
         IN  [type |-> bytes[1], id |-> ChainID(bytes)]

-----------------------------------------------------------------------------
ChainInit == chainInfo = [type |-> 0, id |-> 0]

(* The fields have JSON tags: any value can be read.                       *)
FromJSON(info) == chainInfo' = info

FromString(parts) ==
    chainInfo' = IF Parse(parts) = NoChain THEN chainInfo ELSE Parse(parts)

(* Unmarshal checks the length and copies into the slice that Bytes has    *)
(* just made: the receiver stays as it is.                                 *)
Unmarshal == UNCHANGED chainInfo

ChainNext ==
    \/ \E info \in ChainInfos : FromJSON(info)
    \/ FromString(<<TypeString(chainInfo.type), chainInfo.id>>)
    \/ Unmarshal

ChainSpec == ChainInit /\ [][ChainNext]_chainInfo

(* A chain of a known type comes back from its bytes and from its string   *)
(* (ParseVaultReturnTxOutput reads destinations this way) with an id that  *)
(* differs from the original only in the byte that is dropped; two such    *)
(* chains with different short ids never share an encoding; a chain of an  *)
(* unknown type comes back from neither.                                   *)
ChainInfoSurvives ==
    LET kept == [chainInfo EXCEPT !.id = @ % ByteBase ^ (ChainInfoBytesSize - 1)]
        want == IF ValidateChainType(chainInfo.type) THEN kept ELSE NoChain
    IN  /\ NewChainInfoFromBytes(ToBytes(chainInfo)) = want
        /\ Parse(<<TypeString(chainInfo.type), chainInfo.id>>) = want
        /\ NewChainInfoFromBytes(Tail(ToBytes(chainInfo))) = NoChain
=============================================================================
