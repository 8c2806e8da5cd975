----------------------------- MODULE MCElectrum -----------------------------
(* Instances of the Electrum client for TLC.  An instance is cut into      *)
(* cases: nothing fails and two heights are missing; one is missing and    *)
(* calls fail or the client is stopped; the table is empty.                *)
EXTENDS Electrum

Behind == TopHeight - Cardinality(rows) + 1

MCElectrumInit ==
    /\ ElectrumInit
    /\ head = IF Behind = 1 THEN TopHeight - 1 ELSE TopHeight
    /\ pc["stopper"] = "run" => Behind = 1
    /\ faults.left = IF pc["stopper"] = "off" /\ Behind = 1 THEN MaxFaults ELSE 0

MCElectrumSpec ==
    /\ MCElectrumInit /\ [][ElectrumNext]_electrumVars /\ Scheduled
=============================================================================
