------------------------------ MODULE MCCodec -------------------------------
(* Model for TLC of the parsers of Bitcoin outputs and of EVM events, for  *)
(* what tests and comments say of them.                                    *)
EXTENDS VaultParser, EventRecords

CONSTANT Unit

(* The staking output of parser_test.go: tag, version, network, flags,     *)
(* service tag, quorum, then the type and the id of the destination, the   *)
(* token and the recipient.                                                *)
MCVaultTag == <<1>>
MCByteAt ==
    <<{OpReturn}, {0}, {1}, {VaultVersion}, {1}, {0}, {4}, {3},
      {1}, {0}, {0}, {1}, {2}, {4}>>

codecVars == <<chainInfo, vaultVars, eventVars>>

CodecInit ==
    ChainInit /\ EventInit /\ VaultInit /\ (Unit = "vault" \/ previous = "found")
CodecNext ==
    \/ Unit = "vault" /\ VaultNext /\ UNCHANGED <<chainInfo, eventVars>>
    \/ Unit = "event" /\ EventNext /\ UNCHANGED <<chainInfo, vaultVars>>

CodecSpec == CodecInit /\ [][CodecNext]_codecVars
=============================================================================
