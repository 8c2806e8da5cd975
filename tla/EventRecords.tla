---------------------------- MODULE EventRecords ----------------------------
(***************************************************************************)
(* What becomes of one EVM event or command once its bytes are at hand:    *)
(* the converters of pkg/evm/parser (converter.go, payload.go) and the     *)
(* decoders of pkg/evm/utils.go.  The ABI library is external: its Unpack  *)
(* either fails or yields Go values of the types it documents.  A payload  *)
(* is told apart by the byte it starts with, by whether the rest unpacks   *)
(* (as ABI or as a PSBT), by the outputs of the PSBT, and by whether the   *)
(* script it names has an address.                                         *)
(***************************************************************************)
EXTENDS ChainInfo

CONSTANTS
    BtcChainIds,    \* ids btc.BtcChainsRecords knows
    DestinationIds, \* bound: chain ids found in events
    Amounts         \* bound: big integers found in events and commands

Kinds == {"ContractCallWithToken", "RedeemToken", "TokenSent"}
PayloadTypes == {"none", "custodian", "upc", "unknown"}
Payloads ==
    [type : PayloadTypes, unpacks : BOOLEAN, outputs : 0..2, address : BOOLEAN]
Destinations == {"bitcoin", "evm", "other"} \X DestinationIds

VARIABLES
    event,     \* the input
    outcome    \* [is |-> "nil", "error", "panic" or "record", ...]

eventVars == <<event, outcome>>

Nil == [is |-> "nil"]
Panic == [is |-> "panic"]

(* Method Uint64 of big.Int.                                               *)
Uint64(n) == n % ByteBase ^ ChainInfoBytesSize

-----------------------------------------------------------------------------
(* ContractCallWithTokenPayload.Parse and the two Parse methods under it.  *)
ParsePayload(p) ==
    CASE p.type = "none" -> "panic"      \* payload[0]
      [] p.type = "unknown" -> "error"
      [] p.type = "custodian" /\ ~p.unpacks -> "error"
      [] OTHER -> "parsed"

GetDestinationAddress(p, id) ==
    IF id \notin BtcChainIds \/ (p.type = "upc" /\ ~p.unpacks) THEN "error"
    ELSE IF p.type = "upc" /\ p.outputs < 2 THEN "panic"      \* TxOut[1]
    ELSE IF ~p.address THEN "error"
    ELSE IF p.type = "upc" THEN "second output" ELSE "recipient"

(* ParseEventData: data that do not unpack are an error.  Topics that do   *)
(* not are none: the indexed fields keep their zero values.                *)
ParseEventData(e) ==
    [ok |-> e.decodes, sender |-> IF e.topics THEN "mixed case" ELSE "zero"]

(* Address.String is in mixed case, for its checksum.  NormalizeAddress    *)
(* changes addresses on EVM chains only.                                   *)
ToLower(address) == IF address = "mixed case" THEN "lower case" ELSE address
NormalizeAddress(address, type) ==
    IF TypeString(type) = "evm" THEN ToLower(address) ELSE address

(* The part that both converters with a payload have in common.            *)
WithAddress(e, chain, sender) ==
    LET parsed  == ParsePayload(e.payload)
        address == GetDestinationAddress(e.payload, chain.id)
    IN  IF parsed # "parsed"
        THEN IF parsed = "panic" THEN Panic ELSE Nil
        ELSE CASE address = "panic" -> Panic
               [] address = "error" -> Nil
               [] OTHER -> [is |-> "record", address |-> address, chain |-> chain,
                            sender |-> sender,
                            amount |-> Uint64(e.amount)]

(* ContractCallWithTokenEvent2Model: Bitcoin destinations only, whose type *)
(* is also the one the sender is normalised for.                           *)
ContractCallWithTokenEvent2Model(e) ==
    LET chain == Parse(e.destination) IN
    IF chain = NoChain \/ chain.type # 0 THEN Nil
    ELSE WithAddress(e, chain, NormalizeAddress(ParseEventData(e).sender, chain.type))

(* RedeemTokenEvent2Model: the type of the chain is not looked at.         *)
RedeemTokenEvent2Model(e) ==
    LET chain == Parse(e.destination) IN
    IF chain = NoChain THEN Nil ELSE WithAddress(e, chain, ParseEventData(e).sender)

(* TokenSentEvent2Model; the converters of contract calls, approvals,      *)
(* executions, deployments and phases copy fields in the same way.         *)
TokenSentEvent2Model(e) ==
    [is |-> "record", address |-> "stated", chain |-> NoChain,
     sender |-> ToLower(ParseEventData(e).sender), amount |-> Uint64(e.amount)]

(* parseEventLog, for a log of one of the kinds.                           *)
ParseEventLog(e) ==
    IF ~ParseEventData(e).ok THEN [is |-> "error"]
    ELSE CASE e.kind = "ContractCallWithToken" -> ContractCallWithTokenEvent2Model(e)
           [] e.kind = "RedeemToken" -> RedeemTokenEvent2Model(e)
           [] OTHER -> TokenSentEvent2Model(e)

ConvertEvent ==
    /\ event.kind = "none"
    /\ \E kind \in Kinds, destination \in Destinations, p \in Payloads,
          a \in Amounts, decodes, topics \in BOOLEAN :
        event' = [kind |-> kind, destination |-> destination, payload |-> p,
                  amount |-> a, decodes |-> decodes, topics |-> topics]
    /\ outcome' = ParseEventLog(event')

-----------------------------------------------------------------------------
(* utils.go: the ABI types each decoder unpacks and the Go types it then   *)
(* asserts; an assertion of another type panics.                           *)
GoType(t) ==
    CASE t = "uint256" -> "*big.Int"
      [] t = "uint256[]" -> "*big.Int[]"
      [] OTHER -> t
Decoders ==
    [DecodeInput |->
        <<<<"bytes", "bytes">>, <<"bytes", "bytes">>,
          <<"uint256", "*big.Int">>, <<"bytes32[]", "bytes32[]">>,
          <<"string[]", "string[]">>, <<"bytes[]", "bytes[]">>,
          <<"address[]", "address[]">>, <<"uint256[]", "*big.Int[]">>,
          <<"uint256", "*big.Int">>, <<"bytes[]", "bytes[]">>>>,
     DecodeApproveContractCall |->
        <<<<"uint256", "*big.Int">>, <<"bytes32[]", "bytes32[]">>,
          <<"string[]", "string[]">>, <<"bytes[]", "bytes[]">>>>,
     DecodeDeployToken |->
        <<<<"string", "string">>, <<"string", "string">>, <<"uint8", "uint8">>,
          <<"uint256", "*big.Int">>, <<"address", "address">>,
          <<"uint256", "*big.Int">>>>,
     DecodeStartedSwitchPhase |->
        <<<<"uint64", "*big.Int">>, <<"uint8", "uint8">>>>]

(* AbiUnpack, then the assertions; the number stands for the chain id, the *)
(* cap, the threshold and so on, all read with Uint64.                     *)
Decode(name, unpacks, number) ==
    IF ~unpacks THEN [is |-> "error"]
    ELSE IF \E i \in DOMAIN Decoders[name] :
                GoType(Decoders[name][i][1]) # Decoders[name][i][2]
    THEN Panic
    ELSE [is |-> "record", number |-> Uint64(number)]

(* DecodeExecuteData: a string that is not hex is an error, but data of    *)
(* less than four bytes panic, and so do data that do not unpack, because  *)
(* that error is only logged; the rest is DecodeInput's (data and proof).  *)
DecodeExecuteData(hex, length, unpacks, inner, number) ==
    IF ~hex THEN [is |-> "error"]
    ELSE IF length < 4 \/ ~unpacks THEN Panic
    ELSE Decode("DecodeInput", inner, number)

DecodeCommand ==
    \E name \in DOMAIN Decoders \cup {"DecodeExecuteData"}, length \in {0, 4},
       hex, unpacks, inner \in BOOLEAN, n \in Amounts :
        /\ event.kind = "none"
        /\ event' = [kind |-> name, length |-> length, hex |-> hex, unpacks |-> unpacks,
                     inner |-> inner, amount |-> n]
        /\ outcome' = IF name = "DecodeExecuteData"
                      THEN DecodeExecuteData(hex, length, unpacks, inner, n)
                      ELSE Decode(name, unpacks, n)

-----------------------------------------------------------------------------
EventInit == event = [kind |-> "none"] /\ outcome = Nil
EventNext == ConvertEvent \/ DecodeCommand

EventSpec == EventInit /\ [][EventNext]_eventVars

(* converter.go of a contract call with token: "3 follows field are used   *)
(* for query to get back payload, so need to convert to lower case".  One  *)
(* of them is the address of the sender, on the EVM chain that is indexed. *)
SenderInLowerCase ==
    event.kind = "ContractCallWithToken" /\ outcome.is = "record" =>
        outcome.sender = ToLower(outcome.sender)
=============================================================================
