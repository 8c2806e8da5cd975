------------------------------ MODULE MCStore -------------------------------
(* RelayerStore for TLC: two events of one transaction, two sessions, and  *)
(* batches over both events in either order.                               *)
EXTENDS RelayerStore

CONSTANTS e1, e2, s1, s2

MCTxOf == [e \in Events |-> "tx"]
MCBatches ==
    LET item(e) == [event |-> e, status |-> "approved"]
    IN  {<<item(e1), item(e2)>>, <<item(e2), item(e1)>>}
=============================================================================
