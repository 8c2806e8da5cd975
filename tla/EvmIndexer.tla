----------------------------- MODULE EvmIndexer -----------------------------
(***************************************************************************)
(* One EvmClient (pkg/evm/client.go, Start): the fetcher goroutines, the   *)
(* processor and the block fetcher, run concurrently over the channels and *)
(* the database of EvmState, in a process that may stop at any moment and  *)
(* be started again.  Stopping, by a signal, a crash or a panic, empties   *)
(* the memory and keeps the database: EvmClient.Stop only logs, and the    *)
(* context given to Start is never cancelled.                              *)
(***************************************************************************)
EXTENDS EvmFetcher, EvmProcessor, EvmBlocks

CONSTANT MaxStops    \* bound on the stops of the process

ASSUME MaxStopsAssumption == MaxStops \in Nat

VARIABLE stops       \* how often the process was stopped

vars == <<chainVars, logsChan, heightsChan, dbVars, historyVars, fetcherVars,
          processorVars, blocksVars, missed, stops>>

(* The logs fetched but not yet in the database.                           *)
InMemory == got["recover"] \cup got["realtime"] \cup Queued(logsChan)
                \cup toSave \cup saving

Init ==
    /\ StateInit /\ FetcherInit /\ ProcessorInit /\ BlocksInit
    /\ stops = 0

-----------------------------------------------------------------------------
Fetch(t) ==
    /\ IF t = "recover" THEN RecoverStep ELSE RealtimeStep
    /\ UNCHANGED <<head, heightsChan, saved, headers, historyVars,
                   processorVars, blocksVars, missed, stops>>

Process ==
    /\ ProcessorStep
    /\ UNCHANGED <<head, ckpt, headers, lost, fetcherVars, blocksVars,
                   missed, stops>>

Dispatch ==
    /\ DispatcherStep
    /\ UNCHANGED <<head, logsChan, ckpt, saved, historyVars, fetcherVars,
                   processorVars, stops>>

Work(w) ==
    /\ WorkerStep(w)
    /\ UNCHANGED <<head, logsChan, ckpt, saved, historyVars, fetcherVars,
                   processorVars, stops>>

Grow ==
    /\ NewBlock
    /\ UNCHANGED <<faults, logsChan, heightsChan, dbVars, historyVars,
                   fetcherVars, processorVars, blocksVars, missed, stops>>

(* The process ends and is started again.                                  *)
Restarted ==
    /\ pc' = InitPc
    /\ from' = Zero /\ cur' = Zero /\ range' = Zero /\ cfrom' = Zero
    /\ qfrom' = 0 /\ qto' = 0
    /\ got' = NoLogs
    /\ due' = FALSE
    /\ ppc' = "receive"
    /\ heights' = {} /\ toSave' = {} /\ saving' = {}
    /\ queue' = << >> /\ pushing' = {} /\ working' = Idle
    /\ logsChan' = << >> /\ heightsChan' = << >>
    /\ lost' = lost \cup InMemory
    /\ missed' = missed \cup BlocksInMemory \cup heights
    /\ UNCHANGED <<chainVars, dbVars, dropped>>

Stop ==
    /\ stops < MaxStops
    /\ stops' = stops + 1
    /\ Restarted

Panic ==
    /\ ParsePanics \/ \E w \in Workers : Panics(w)
    /\ Restarted
    /\ UNCHANGED stops

Next ==
    \/ \E t \in Threads : Fetch(t)
    \/ Process \/ Dispatch
    \/ \E w \in Workers : Work(w)
    \/ Grow \/ Stop \/ Panic

Spec == Init /\ [][Next]_vars

(* Every goroutine keeps running: the Go scheduler is fair to each.  The   *)
(* chain need not grow and the process need not stop.                      *)
FairSpec ==
    /\ Spec
    /\ \A t \in Threads : WF_vars(Fetch(t))
    /\ WF_vars(Process) /\ WF_vars(Dispatch)
    /\ \A w \in Workers : WF_vars(Work(w))
-----------------------------------------------------------------------------
(* Every variable stays in its type; in particular neither channel holds   *)
(* more than its capacity.                                                 *)
TypeOK ==
    /\ StateTypeOK /\ FetcherTypeOK /\ ProcessorTypeOK /\ BlocksTypeOK
    /\ stops \in 0..MaxStops

(* A log is accounted for when its record is stored, when it is on its way *)
(* to the table, or when the indexer gave it up and logged or lost it.     *)
Accounted == saved \cup InMemory \cup dropped \cup lost

(* The logs recoverLogs is meant to find below block b.                    *)
Before(b) == {l \in Logs : StartBlock <= BlockOf[l] /\ BlockOf[l] < b}

(* The checkpoint claims nothing that was not fetched: each log up to      *)
(* LastBlock is accounted for.  A restart resumes after the checkpoint, so *)
(* a log it wrongly covers is never asked for again.                       *)
CheckpointSound == Before(ckpt + 1) \subseteq Accounted

(* Recovery and realtime leave no gap between them: once recoverLogs has   *)
(* returned, every log below the next block of the realtime loop is        *)
(* accounted for, whatever head each BlockNumber call returned.            *)
NoGap == pc["recover"] = "done" => Before(from["realtime"]) \subseteq Accounted

(* The header of a block with a stored event is stored, or on its way, or  *)
(* was given up: the heights are handed over before the records are saved. *)
SavedHasHeader ==
    BlocksOf(saved) \subseteq headers \cup BlocksInMemory \cup missed

(* Neither goroutine, nor the two together through the query they share,   *)
(* makes the checkpoint pass the newest block: a restart never skips a     *)
(* block that did not exist yet.                                           *)
CheckpointWithinChain == ckpt <= head

(* recoverLogs' comment: "Get missing logs from config startBlock to       *)
(* current block at starting time": when it has returned, all of them are  *)
(* accounted for.                                                          *)
RecoveryComplete ==
    pc["recover"] = "done" => Before(cur["recover"] + 1) \subseteq Accounted

(* The inductive invariant behind the three properties above, when the two *)
(* goroutines do not overlap.  Each window in progress extends a prefix of *)
(* the chain that is accounted for, and the query still holds that window. *)
WindowSound(t) ==
    Fetching(t) =>
        /\ Before(from[t]) \subseteq Accounted
        /\ pc[t] \in {"setTo", "copyFrom"} => qfrom = from[t]
        /\ pc[t] = "call" => cfrom[t] = from[t]
        /\ pc[t] \in {"send", "store", "advance"} =>
                Before(qto + 1) \subseteq Accounted

PipelineInv ==
    /\ ckpt <= head /\ qto <= head
    /\ \A t \in Threads : cur[t] <= head
    /\ \A t \in Threads : pc[t] # "send" => got[t] = {}
    /\ \A t \in Threads : WindowSound(t)
    /\ pc["realtime"] = "start" => pc["recover"] = "off"
    /\ Fetching("realtime") => pc["recover"] = "done"
    /\ pc["recover"] # "done" => from["realtime"] <= cur["recover"]
    /\ CheckpointSound /\ NoGap /\ RecoveryComplete

(* What one poisonous event costs.  Without a fault, a log is given up     *)
(* only if it, or a log of the same topic, did not parse or was turned     *)
(* into a nil record; and without a stop, what is in memory is lost only   *)
(* together with a log that makes the parser panic, or with a block whose  *)
(* missing beacon root does.                                               *)
PoisonInTopic ==
    faults = 0 => \A l \in dropped :
        \E m \in Logs : TopicOf[m] = TopicOf[l] /\ KindOf[m] \in {"bad", "nil"}

LostWithPoison ==
    stops = 0 /\ lost # {} =>
        (\E m \in lost : KindOf[m] = "panic") \/ missed \cap NoBeacon # {}

PoisonContained == PoisonInTopic /\ LostWithPoison

(* The checkpoint never moves back, across windows and across restarts,    *)
(* unless a call has failed (GetLatestFetchedBlock's error reads as 0).    *)
CheckpointForward == [][faults = 0 => ckpt' >= ckpt]_vars

-----------------------------------------------------------------------------
(* recoverLogs ends: windows refused by the node shrink to what it answers *)
(* and each answered window moves on.                                      *)
RecoveryFinishes == <>(pc["recover"] = "done")

(* The logs recoverLogs has gone past reach their table.                   *)
RecoveredArrive ==
    \A l \in Logs :
        (l \in Before(cur["recover"] + 1) /\ pc["recover"] = "done")
            ~> l \in saved

(* The block of a stored event gets its header.                            *)
HeadersArrive ==
    \A l \in Logs : l \in saved ~> BlockOf[l] \in headers

(* A log is stored once its block is there ("Processes blocks and events   *)
(* as they arrive", README.md).                                            *)
EventsArrive ==
    \A l \in Logs : (StartBlock <= BlockOf[l] /\ BlockOf[l] <= head)
                        ~> l \in saved

-----------------------------------------------------------------------------
(* The logs nobody asks for any more: recovery is over, the realtime loop  *)
(* is past their block, and so is the checkpoint a restart resumes from.   *)
Passed ==
    IF pc["recover"] = "done"
    THEN Before(from["realtime"]) \cap Before(ckpt + 1) ELSE {}

(* README.md: "Automatic recovery of missing events and blocks".  An event *)
(* that nobody asks for any more, and that parses, is stored or on its way *)
(* to its table.                                                           *)
NothingMissing ==
    {l \in Passed : KindOf[l] = "ok"} \subseteq saved \cup InMemory
=============================================================================
