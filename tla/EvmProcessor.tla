---------------------------- MODULE EvmProcessor ----------------------------
(***************************************************************************)
(* The goroutine ProcessLogsFromFetcher (pkg/evm/processing.go): it takes  *)
(* one batch of logs at a time, parses it, hands the block numbers to      *)
(* fetchBlocks, and only then saves the records, one event after the other *)
(* and one chunk after the other.  An error is logged and the records it   *)
(* concerns are given up; nothing is retried.                              *)
(*                                                                         *)
(* KindOf[l] is what parseEventLog makes of log l:                         *)
(*   "ok"  a record;                                                       *)
(*   "bad" an error, or an unknown topic: the log is skipped;              *)
(*   "nil" a typed nil pointer, from a converter that rejects the event.   *)
(*         It passes the test model # nil, joins the records of its topic, *)
(*         and makes the insert of its whole chunk fail;                   *)
(*   "panic" an index out of range, on an empty payload or on a redeem     *)
(*         transaction with one output: the process dies, see EvmIndexer.  *)
(***************************************************************************)
EXTENDS EvmState

CONSTANT BatchSize    \* CalculateOptimalBatchSize of the record type

ASSUME BatchSizeAssumption == BatchSize \in Nat \ {0}

VARIABLES
    ppc,       \* where the goroutine is
    heights,   \* mapBlockHeights of the batch
    toSave,    \* mapRecords: records of the events not reached yet
    saving     \* records of the event being saved, from the next chunk on

processorVars == <<ppc, heights, toSave, saving>>

ProcessorTypeOK ==
    /\ ppc \in {"receive", "heights", "save"}
    /\ heights \subseteq Blocks /\ toSave \subseteq Logs /\ saving \subseteq Logs

ProcessorInit ==
    /\ ppc = "receive"
    /\ heights = {}
    /\ toSave = {}
    /\ saving = {}

-----------------------------------------------------------------------------
BlocksOf(batch) == {BlockOf[l] : l \in batch}

Parsed(batch) == {l \in batch : KindOf[l] # "bad"}

(* Parsing the batch that comes next panics; no goroutine recovers.        *)
ParsePanics ==
    /\ ppc = "receive"
    /\ logsChan # << >>
    /\ \E l \in Head(logsChan) : KindOf[l] = "panic"

(* Receive a batch and parse it.                                           *)
ReceiveLogs ==
    /\ ppc = "receive"
    /\ logsChan # << >>
    /\ ~ParsePanics
    /\ logsChan' = Tail(logsChan)
    /\ heights' = BlocksOf(Head(logsChan))
    /\ toSave' = Parsed(Head(logsChan))
    /\ dropped' = dropped \cup (Head(logsChan) \ Parsed(Head(logsChan)))
    /\ ppc' = "heights"
    /\ UNCHANGED <<saving, heightsChan, saved, faults>>

(* Deviation used to test the properties: the heights are dropped when the *)
(* channel is full.                                                        *)
MutSendHeights ==
    /\ ppc = "heights"
    /\ heightsChan' = IF Len(heightsChan) < ChanCap
                      THEN Append(heightsChan, heights) ELSE heightsChan
    /\ heights' = {}
    /\ ppc' = IF toSave = {} THEN "receive" ELSE "save"
    /\ UNCHANGED <<toSave, saving, logsChan, saved, dropped, faults>>

(* blockHeightsChan <- mapBlockHeights blocks while the channel is full.   *)
SendHeights ==
    /\ ppc = "heights"
    /\ Len(heightsChan) < ChanCap
    /\ heightsChan' = Append(heightsChan, heights)
    /\ heights' = {}
    /\ ppc' = IF toSave = {} THEN "receive" ELSE "save"
    /\ UNCHANGED <<toSave, saving, logsChan, saved, dropped, faults>>

(* range mapRecords: the next event, in any order.                         *)
OfTopic(t) == {l \in toSave : TopicOf[l] = t}

SaveRecords(t) ==
    /\ ppc = "save"
    /\ saving = {}
    /\ OfTopic(t) # {}
    /\ saving' = OfTopic(t)
    /\ toSave' = toSave \ OfTopic(t)
    /\ UNCHANGED <<ppc, heights, logsChan, heightsChan, saved, dropped, faults>>

(* ChunkRecords: the chunk that comes next, in the order of the logs.      *)
NextChunk == {l \in saving : Cardinality({m \in saving : m < l}) < BatchSize}

(* A converter returned nil for one of the records.                        *)
Rejected(chunk) == \E l \in chunk : KindOf[l] = "nil"

AfterSave(rest) ==
    ppc' = IF rest \cup toSave = {} THEN "receive" ELSE "save"

(* SaveBatchRecords: one insert.                                           *)
SaveBatchRecords ==
    /\ ppc = "save"
    /\ saving # {}
    /\ ~Rejected(NextChunk)
    /\ InsertRecords(NextChunk)
    /\ saving' = saving \ NextChunk
    /\ AfterSave(saving \ NextChunk)
    /\ UNCHANGED <<heights, toSave, logsChan, heightsChan, dropped, faults>>

(* Deviation used to test the properties: one failed event ends the batch. *)
MutSaveFails ==
    /\ ppc = "save"
    /\ saving # {}
    /\ Fault \/ (Rejected(NextChunk) /\ NoFault)
    /\ dropped' = dropped \cup saving \cup toSave
    /\ saving' = {} /\ toSave' = {}
    /\ ppc' = "receive"
    /\ UNCHANGED <<heights, logsChan, heightsChan, saved>>

(* The insert fails: the remaining chunks of the event go with it.         *)
SaveFails ==
    /\ ppc = "save"
    /\ saving # {}
    /\ Fault \/ (Rejected(NextChunk) /\ NoFault)
    /\ dropped' = dropped \cup saving
    /\ saving' = {}
    /\ AfterSave({})
    /\ UNCHANGED <<heights, toSave, logsChan, heightsChan, saved>>

(* Between two batches nothing is left to save, so that mapRecords, made   *)
(* anew for each batch, overwrites nothing.                                *)
BatchFinished ==
    /\ ppc = "receive" => toSave = {}
    /\ ppc # "save" => saving = {}

ProcessorStep ==
    \/ ReceiveLogs \/ SendHeights \/ SaveBatchRecords \/ SaveFails
    \/ \E t \in Topics : SaveRecords(t)
=============================================================================
