---------------------------- MODULE MCBtcIndexer ----------------------------
(***************************************************************************)
(* BtcIndexer for TLC.  The workers of a pool are interchangeable.         *)
(***************************************************************************)
EXTENDS BtcIndexer, TLC

WorkerSymmetry == Permutations(HashWorkers) \cup Permutations(DataWorkers)
=============================================================================
