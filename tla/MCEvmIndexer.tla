---------------------------- MODULE MCEvmIndexer ----------------------------
(***************************************************************************)
(* EvmIndexer for TLC.  Four blocks; two events in block 1 of one topic    *)
(* (two chunks), one in block 3 of the other topic.                        *)
(***************************************************************************)
EXTENDS EvmIndexer, TLC

ThreeLogs == {1, 2, 3}
InBlock == 1 :> 1 @@ 2 :> 1 @@ 3 :> 3
WithTopic == 1 :> "sent" @@ 2 :> "sent" @@ 3 :> "call"
AllOk == [l \in ThreeLogs |-> "ok"]

(* Three events of different topics: in block 1 one that its converter     *)
(* rejects and one that parses, in block 2 one that panics.                *)
InTwoBlocks == 1 :> 1 @@ 2 :> 1 @@ 3 :> 2
ThreeTopics == 1 :> "sent" @@ 2 :> "call" @@ 3 :> "redeem"
NilThenPanic == 1 :> "nil" @@ 2 :> "ok" @@ 3 :> "panic"

(* The second event panics, in the block of the first.                     *)
SecondPanics == 1 :> "ok" @@ 2 :> "panic" @@ 3 :> "ok"
=============================================================================
