----------------------------- MODULE MCLibrary ------------------------------
(* Model for TLC of the parts around the two indexers: what they call, and *)
(* the service that makes them, and the Electrum client, which runs on its *)
(* own.  These parts share no state with each other: a behaviour exercises *)
(* one of them.                                                            *)
EXTENDS OrderedQueue, MCStore, VaultParser, MerkleProof, Backoff, MCService, MCElectrum

VARIABLE unit

Units == {"queue", "tokens", "calls", "chain", "vault", "merkle", "backoff",
          "service", "electrum"}

(* Right and wrong values at the places that are looked at: OP_RETURN, tag *)
(* and version, flags, destination type and id; one byte follows the end.  *)
MCVaultTag == <<1>>
MCByteAt ==
    <<{0, OpReturn}, {0}, {0, 1}, {VaultVersion, 4}, {0}, {0, PoolRedeem, UpcRedeem},
      {1}, {2}, {0, 3, 4}, {0, 4}, {0, 1}, {3}, {4}, {0}>>

libraryVars ==
    <<unit, queue, storeVars, chainInfo, vaultVars, merkleVars,
      backoffVars, serviceVars, electrumVars>>

LibraryInit ==
    /\ unit \in Units
    /\ QueueInit /\ ChainInit /\ BackoffInit
    /\ StoreInit /\ (unit \in {"tokens", "calls"} \/ eventIdIsKey)
    /\ VaultInit /\ (unit = "vault" \/ previous = "found")
    /\ MerkleInit /\ (unit = "merkle" \/ txCount = 1)
    /\ ServiceInit
    /\ unit = "service" \/ <<readable, evmFile, btcFile>> =
                             <<{}, CHOOSE f \in EvmFiles : TRUE,
                                   CHOOSE f \in BtcFiles : TRUE>>
    /\ MCElectrumInit
    /\ unit = "electrum" \/ (rows = {} /\ pc["stopper"] = "off")

Only(name, vars) == unit = name /\ UNCHANGED <<unit, vars>>

restQueue ==
    <<storeVars, chainInfo, vaultVars, merkleVars, backoffVars, serviceVars,
      electrumVars>>
restStore ==
    <<queue, chainInfo, vaultVars, merkleVars, backoffVars, serviceVars,
      electrumVars>>
restChain ==
    <<queue, storeVars, vaultVars, merkleVars, backoffVars, serviceVars,
      electrumVars>>
restVault ==
    <<queue, storeVars, chainInfo, merkleVars, backoffVars, serviceVars,
      electrumVars>>
restMerkle ==
    <<queue, storeVars, chainInfo, vaultVars, backoffVars, serviceVars,
      electrumVars>>
restBackoff ==
    <<queue, storeVars, chainInfo, vaultVars, merkleVars, serviceVars,
      electrumVars>>
restService ==
    <<queue, storeVars, chainInfo, vaultVars, merkleVars, backoffVars,
      electrumVars>>
restElectrum ==
    <<queue, storeVars, chainInfo, vaultVars, merkleVars, backoffVars,
      serviceVars>>

LibraryNext ==
    \/ Only("queue", restQueue) /\ QueueNext
    \/ Only("tokens", restStore) /\ TokenNext
    \/ Only("calls", restStore) /\ CallNext(MCBatches)
    \/ Only("chain", restChain) /\ ChainNext
    \/ Only("vault", restVault) /\ VaultNext
    \/ Only("merkle", restMerkle) /\ MerkleLevel
    \/ Only("backoff", restBackoff) /\ BackoffNext
    \/ Only("service", restService) /\ ServiceNext
    \/ Only("electrum", restElectrum) /\ ElectrumNext

LibrarySpec == LibraryInit /\ [][LibraryNext]_libraryVars
=============================================================================
