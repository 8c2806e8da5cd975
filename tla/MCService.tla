----------------------------- MODULE MCService ------------------------------
(* Two EVM chains and two Bitcoin chains.  The first EVM chain may lack a  *)
(* database URL, the second may be disabled, the last Bitcoin chain may    *)
(* lack a URL, or be disabled with durations that are empty or wrong.      *)
EXTENDS Service

Entry(c, e, u) == [chain |-> c, enable |-> e, url |-> u, durations |-> "valid"]
MCEvmFiles ==
    {<<Entry("evm1", TRUE, u), Entry("evm2", e, "b")>> : u \in {"", "a"}, e \in BOOLEAN}
MCBtcFiles ==
    {<<Entry("btc1", TRUE, "a"), Entry("btc2", TRUE, u)>> : u \in {"", "b"}}
        \cup {<<Entry("btc1", TRUE, "a"),
                [Entry("btc2", FALSE, "b") EXCEPT !.durations = d]>>
                   : d \in {"empty", "bad"}}
(* One block of the second EVM chain has no beacon root.                   *)
MCNoBeaconRoot == {<<"evm2", 2>>}
=============================================================================
