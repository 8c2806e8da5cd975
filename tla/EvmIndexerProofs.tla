-------------------------- MODULE EvmIndexerProofs --------------------------
(***************************************************************************)
(* Theorems about EvmIndexer, for every chain, every configuration and any *)
(* number of workers, faults and stops.                                    *)
(***************************************************************************)
EXTENDS EvmIndexer, SequenceTheorems, TLAPS

(* The constants, as every proof below needs them.                         *)
LEMMA ConstantFacts ==
    /\ MaxHead \in Nat /\ MaxFaults \in Nat /\ MaxStops \in Nat
    /\ ChanCap \in Nat /\ ChanCap >= 1
    /\ Blocks \subseteq Nat /\ 0 \in Blocks
    /\ \A l \in Logs : BlockOf[l] \in Blocks /\ BlockOf[l] >= 1
BY MaxHeadAssumption, MaxFaultsAssumption, MaxStopsAssumption,
   ChanCapAssumption, LogsAssumption DEF Blocks

(* The window never ends beyond currentBlockNumber.                        *)
LEMMA RangeEndBound ==
    ASSUME NEW f \in Nat, NEW r \in Nat, NEW c \in Nat
    PROVE  /\ RangeEnd(f, r, c) \in Nat
           /\ RangeEnd(f, r, c) <= c
           /\ f > 0 => RangeEnd(f, r, c) + 1 >= f \/ RangeEnd(f, r, c) = c
BY MaxUint64Assumption DEF RangeEnd

LEMMA WindowFacts ==
    /\ RecoveryWindow \in Nat /\ RealtimeWindow \in Nat
    /\ NodeLimit \in Nat
    /\ \A n \in Nat : ResumeAt(n) \in Nat
BY RangeAssumption DEF RecoveryWindow, RealtimeWindow, ResumeAt

LEMMA FaultType ==
    ASSUME faults \in 0..MaxFaults, Fault \/ NoFault
    PROVE  faults' \in 0..MaxFaults
BY ConstantFacts DEF Fault, NoFault

-----------------------------------------------------------------------------
(* A fetcher goroutine keeps the types of its own and the shared state.    *)
LEMMA FetchType ==
    ASSUME TypeOK, NEW t \in Threads, FetchStep(t)
    PROVE  FetcherTypeOK' /\ faults' \in 0..MaxFaults /\ ckpt' \in Blocks
           /\ logsChan' \in Seq(SUBSET Logs) /\ Len(logsChan') <= ChanCap
<1> USE DEF TypeOK, StateTypeOK, FetcherTypeOK, FetchStates, shared, query
<1>0. cur[t] \in Nat /\ from[t] \in Nat /\ range[t] \in Nat /\ qto \in Nat
  BY ConstantFacts
<1>1. CASE SetFrom(t)
  BY <1>1 DEF SetFrom
<1>2. CASE SetTo(t)
  <2>0. /\ RangeEnd(from[t], range[t], cur[t]) \in Nat
        /\ RangeEnd(from[t], range[t], cur[t]) <= cur[t]
    BY <1>0, RangeEndBound
  <2>1. RangeEnd(from[t], range[t], cur[t]) \in Blocks
    BY <1>0, <2>0, MaxHeadAssumption DEF Blocks
  <2> QED  BY <1>2, <2>1 DEF SetTo
<1>3. CASE CopyFrom(t)
  BY <1>3 DEF CopyFrom
<1>4. CASE FilterLogs(t)
  BY <1>4 DEF FilterLogs, Answer, InBlocks, AfterSend
<1>5. CASE FilterRangeError(t)
  BY <1>5, WindowFacts DEF FilterRangeError
<1>6. CASE FilterError(t)
  BY <1>6, ConstantFacts DEF FilterError, Fault, NoFault
<1>7. CASE SendLogs(t)
  <2>1. /\ logsChan' \in Seq(SUBSET Logs)
        /\ Len(logsChan') <= ChanCap
    BY <1>7, AppendProperties, ConstantFacts DEF SendLogs
  <2> QED  BY <1>7, <2>1 DEF SendLogs, AfterSend
<1>8. CASE Advance(t)
  BY <1>8, <1>0 DEF Advance
<1> QED  BY <1>1, <1>2, <1>3, <1>4, <1>5, <1>6, <1>7, <1>8 DEF FetchStep

LEMMA RecoverType ==
    ASSUME TypeOK, RecoverStep
    PROVE  FetcherTypeOK' /\ faults' \in 0..MaxFaults /\ ckpt' \in Blocks
           /\ logsChan' \in Seq(SUBSET Logs) /\ Len(logsChan') <= ChanCap
<1> USE DEF TypeOK, StateTypeOK, FetcherTypeOK, FetchStates, shared, query,
            Threads
<1>0. qto \in Nat /\ ckpt \in Nat
  BY ConstantFacts
<1>1. CASE RecoverLogs
  <2>1. PICK last \in {ckpt, 0} :
            /\ (last = ckpt /\ NoFault) \/ (last = 0 /\ Fault)
            /\ from' = [from EXCEPT !["recover"] = ResumeAt(last)]
            /\ pc' = [pc EXCEPT !["recover"] =
                  IF ResumeAt(last) <= cur["recover"] THEN "setFrom" ELSE "done"]
    BY <1>1 DEF RecoverLogs, GetLatestFetchedBlock
  <2>2. ResumeAt(last) \in Nat
    BY <1>0, <2>1, WindowFacts
  <2>3. faults' \in 0..MaxFaults
    BY <2>1, FaultType
  <2>4. from' \in [Threads -> Nat]
    BY <2>1, <2>2
  <2>5. pc' \in [Threads -> FetchStates \cup
                    {"off", "init", "done", "start", "enter", "tick"}]
    BY <2>1
  <2>6. range' \in [Threads -> Nat]
    BY <1>1, WindowFacts DEF RecoverLogs, GetLatestFetchedBlock
  <2> QED  BY <1>1, <2>3, <2>4, <2>5, <2>6 DEF RecoverLogs, GetLatestFetchedBlock
<1>2. CASE FetchStep("recover")
  BY <1>2, FetchType
<1>3. CASE StoreCheckpoint
  BY <1>3, FaultType DEF StoreCheckpoint, UpdateLatestFetchedBlock
<1>4. CASE FinishRecovery
  BY <1>4, <1>0 DEF FinishRecovery
<1> QED  BY <1>1, <1>2, <1>3, <1>4 DEF RecoverStep

(* Every read of the head counts as a call that may fail.                  *)
LEMMA BlockNumberType ==
    ASSUME TypeOK, NEW n \in Blocks, BlockNumber(n) \/ HeadForTick(n)
    PROVE  faults' \in 0..MaxFaults /\ n \in Nat
<1>1. faults \in 0..MaxFaults /\ n \in Nat
  BY ConstantFacts DEF TypeOK, StateTypeOK
<1>2. Fault \/ NoFault
  BY DEF BlockNumber, HeadForTick
<1> QED  BY <1>1, <1>2, FaultType

LEMMA RealtimeType ==
    ASSUME TypeOK, RealtimeStep
    PROVE  FetcherTypeOK' /\ faults' \in 0..MaxFaults /\ ckpt' \in Blocks
           /\ logsChan' \in Seq(SUBSET Logs) /\ Len(logsChan') <= ChanCap
<1> USE DEF TypeOK, StateTypeOK, FetcherTypeOK, FetchStates, shared, query,
            Threads
<1>0. qto \in Nat /\ cur["realtime"] \in Nat
  BY ConstantFacts
<1>1. CASE LoopFetchLogs
  BY <1>1, BlockNumberType DEF LoopFetchLogs, At
<1>2. CASE FetchRealtimeLogs
  BY <1>2, BlockNumberType, WindowFacts DEF FetchRealtimeLogs
<1>3. CASE RealtimeFetch
  BY <1>3, BlockNumberType DEF RealtimeFetch
<1>4. CASE RealtimeSkip
  <2>1. PICK n \in Blocks :
            /\ HeadForTick(n)
            /\ cur' = [cur EXCEPT !["realtime"] = n]
            /\ from' = [from EXCEPT !["realtime"] = n + 1]
    BY <1>4 DEF RealtimeSkip
  <2>2. faults' \in 0..MaxFaults /\ n \in Nat
    BY <2>1, BlockNumberType
  <2>3. due' \in BOOLEAN
    BY <1>4, Zenon DEF RealtimeSkip
  <2> QED  BY <1>4, <2>1, <2>2, <2>3 DEF RealtimeSkip
<1>5. CASE FetchStep("realtime")
  BY <1>5, FetchType
<1>6. CASE FinishRealtime
  <2>1. faults' \in 0..MaxFaults
    BY <1>6, FaultType DEF FinishRealtime
  <2>2. due' \in BOOLEAN
    BY <1>6, Zenon DEF FinishRealtime
  <2> QED  BY <1>0, <1>6, <2>1, <2>2 DEF FinishRealtime
<1> QED  BY <1>1, <1>2, <1>3, <1>4, <1>5, <1>6 DEF RealtimeStep

LEMMA ProcessType ==
    ASSUME TypeOK, Process
    PROVE  TypeOK'
<1> USE DEF TypeOK, StateTypeOK, ProcessorTypeOK
<1>0. /\ UNCHANGED <<head, ckpt, headers, lost, stops>>
      /\ FetcherTypeOK' /\ BlocksTypeOK'
  BY DEF Process, FetcherTypeOK, BlocksTypeOK, fetcherVars, blocksVars
<1>1. CASE ReceiveLogs
  <2>1. /\ Head(logsChan) \in SUBSET Logs
        /\ Tail(logsChan) \in Seq(SUBSET Logs)
        /\ Len(Tail(logsChan)) <= ChanCap
    BY <1>1, HeadTailProperties, ConstantFacts DEF ReceiveLogs
  <2>2. BlocksOf(Head(logsChan)) \subseteq Blocks
    BY <2>1, ConstantFacts DEF BlocksOf
  <2> QED  BY <1>0, <1>1, <2>1, <2>2 DEF ReceiveLogs, Parsed
<1>2. CASE SendHeights
  <2>1. /\ heightsChan' \in Seq(SUBSET Blocks)
        /\ Len(heightsChan') <= ChanCap
    BY <1>2, AppendProperties, ConstantFacts DEF SendHeights
  <2> QED  BY <1>0, <1>2, <2>1 DEF SendHeights
<1>3. CASE SaveBatchRecords
  <2>1. NextChunk \subseteq saving
    BY DEF NextChunk
  <2> QED  BY <1>0, <1>3, <2>1 DEF SaveBatchRecords, InsertRecords, AfterSave
<1>4. CASE SaveFails
  BY <1>0, <1>4, ConstantFacts DEF SaveFails, AfterSave, Fault, NoFault
<1>5. ASSUME NEW t \in Topics, SaveRecords(t) PROVE TypeOK'
  BY <1>0, <1>5 DEF SaveRecords, OfTopic
<1> QED  BY <1>1, <1>2, <1>3, <1>4, <1>5 DEF Process, ProcessorStep
LEMMA BlocksStepType ==
    ASSUME TypeOK, DispatcherStep \/ \E w \in Workers : WorkerStep(w)
    PROVE  /\ BlocksTypeOK' /\ faults' \in 0..MaxFaults
           /\ headers' \subseteq Blocks
           /\ heightsChan' \in Seq(SUBSET Blocks) /\ Len(heightsChan') <= ChanCap
<1> USE DEF TypeOK, StateTypeOK, BlocksTypeOK
<1>1. CASE ReceiveHeights
  <2>1. /\ Head(heightsChan) \in SUBSET Blocks
        /\ Tail(heightsChan) \in Seq(SUBSET Blocks)
        /\ Len(Tail(heightsChan)) <= ChanCap
    BY <1>1, HeadTailProperties, ConstantFacts DEF ReceiveHeights
  <2> QED  BY <1>1, <2>1 DEF ReceiveHeights
<1>2. ASSUME NEW b \in Blocks, PushHeight(b)
      PROVE  BlocksTypeOK' /\ UNCHANGED <<faults, headers, heightsChan>>
  <2>1. queue' \in Seq(Blocks)
    <3>1. PICK n \in 1..(Len(queue) + 1) :
              queue' = IF n <= Len(queue) /\ queue[n] = b
                       THEN queue ELSE ShiftIn(n, b)
      BY <1>2 DEF PushHeight, Push
    <3>2. /\ Len(queue) \in Nat
          /\ \A i \in 1..Len(queue) : queue[i] \in Blocks
      BY LenProperties, ElementOfSeq
    <3>3. ShiftIn(n, b) \in Seq(Blocks)
      <4>1. \A i \in 1..(Len(queue) + 1) : ShiftIn(n, b)[i] \in Blocks
        BY <3>2, <1>2 DEF ShiftIn
      <4>2. ShiftIn(n, b) \in [1..(Len(queue) + 1) -> Blocks]
        BY <4>1 DEF ShiftIn
      <4> QED  BY <3>2, <4>2, IsASeq
    <3> QED  BY <3>1, <3>3
  <2> QED  BY <1>2, <2>1 DEF PushHeight
<1>3. ASSUME NEW w \in Workers, WorkerStep(w)
      PROVE  BlocksTypeOK' /\ faults' \in 0..MaxFaults
             /\ headers' \subseteq Blocks /\ heightsChan' = heightsChan
  <2>0. working[w] \subseteq Blocks
    BY <1>3
  <2>1. CASE StoreHeader(w)
    BY <2>0, <2>1 DEF StoreHeader, CreateBlockHeaders
  <2>2. CASE SkipBlock(w)
    BY <2>0, <2>2, FaultType DEF SkipBlock
  <2>3. ASSUME NEW b \in Blocks, PopBlock(w, b)
        PROVE  BlocksTypeOK' /\ UNCHANGED <<faults, headers, heightsChan>>
    BY <2>3, HeadTailProperties DEF PopBlock, Pop
  <2> QED  BY <1>3, <2>1, <2>2, <2>3 DEF WorkerStep
<1> QED  BY <1>1, <1>2, <1>3 DEF DispatcherStep

LEMMA RestartType ==
    ASSUME TypeOK, Restarted
    PROVE  StateTypeOK' /\ FetcherTypeOK' /\ ProcessorTypeOK' /\ BlocksTypeOK'
<1> USE DEF TypeOK, StateTypeOK, Restarted, chainVars, dbVars
<1>1. StateTypeOK'
  <2>1. Queued(logsChan) \subseteq Logs
    BY ElementOfSeq, LenProperties DEF Queued
  <2>2. InMemory \subseteq Logs
    BY <2>1 DEF InMemory, FetcherTypeOK, ProcessorTypeOK, Threads
  <2> QED  BY <2>2, ConstantFacts
<1>2. FetcherTypeOK'
  BY ConstantFacts DEF FetcherTypeOK, Threads, InitPc, At, Zero, NoLogs
<1>3. ProcessorTypeOK'
  BY DEF ProcessorTypeOK
<1>4. BlocksTypeOK'
  <2>1. Queued(heightsChan) \subseteq Blocks
    BY ElementOfSeq, LenProperties DEF Queued
  <2>2. {queue[i] : i \in 1..Len(queue)} \subseteq Blocks
    BY ElementOfSeq, LenProperties DEF BlocksTypeOK
  <2>3. BlocksInMemory \subseteq Blocks
    BY <2>1, <2>2 DEF BlocksInMemory, BlocksTypeOK
  <2>4. missed' \subseteq Blocks
    BY <2>3 DEF BlocksTypeOK, ProcessorTypeOK
  <2> QED  BY <2>4 DEF BlocksTypeOK, Idle
<1> QED  BY <1>1, <1>2, <1>3, <1>4

LEMMA TypeInductive == TypeOK /\ [Next]_vars => TypeOK'
<1> SUFFICES ASSUME TypeOK, [Next]_vars PROVE TypeOK'
  OBVIOUS
<1> USE DEF TypeOK
<1>1. ASSUME NEW t \in Threads, Fetch(t) PROVE TypeOK'
  <2>1. RecoverStep \/ RealtimeStep
    BY <1>1 DEF Fetch
  <2>2. FetcherTypeOK' /\ faults' \in 0..MaxFaults /\ ckpt' \in Blocks
        /\ logsChan' \in Seq(SUBSET Logs) /\ Len(logsChan') <= ChanCap
    BY <2>1, RecoverType, RealtimeType
  <2>3. ProcessorTypeOK' /\ BlocksTypeOK'
    BY <1>1 DEF Fetch, ProcessorTypeOK, BlocksTypeOK, processorVars, blocksVars
  <2> QED  BY <1>1, <2>2, <2>3 DEF Fetch, StateTypeOK, historyVars
<1>2. CASE Process
  BY <1>2, ProcessType
<1>3. CASE Dispatch \/ \E w \in Workers : Work(w)
  <2>1. /\ BlocksTypeOK' /\ faults' \in 0..MaxFaults
        /\ headers' \subseteq Blocks
        /\ heightsChan' \in Seq(SUBSET Blocks) /\ Len(heightsChan') <= ChanCap
    BY <1>3, BlocksStepType DEF Dispatch, Work
  <2>2. UNCHANGED <<head, logsChan, ckpt, saved, historyVars, fetcherVars,
                    processorVars, stops>>
    BY <1>3 DEF Dispatch, Work
  <2>3. FetcherTypeOK' /\ ProcessorTypeOK'
    BY <2>2 DEF FetcherTypeOK, ProcessorTypeOK, fetcherVars, processorVars
  <2> QED  BY <2>1, <2>2, <2>3 DEF StateTypeOK, historyVars
<1>4. CASE Grow
  <2>1. FetcherTypeOK' /\ ProcessorTypeOK' /\ BlocksTypeOK'
    BY <1>4 DEF Grow, FetcherTypeOK, ProcessorTypeOK, BlocksTypeOK,
                fetcherVars, processorVars, blocksVars
  <2>2. head' \in Blocks
    BY <1>4, MaxHeadAssumption DEF Grow, NewBlock, Blocks, StateTypeOK
  <2> QED  BY <1>4, <2>1, <2>2 DEF Grow, StateTypeOK, historyVars, dbVars
<1>5. CASE Stop
  <2>1. stops' \in 0..MaxStops
    BY <1>5, MaxStopsAssumption DEF Stop
  <2> QED  BY <1>5, <2>1, RestartType DEF Stop
<1>6. CASE Panic
  BY <1>6, RestartType DEF Panic
<1>7. CASE UNCHANGED vars
  <2>1. UNCHANGED <<chainVars, logsChan, heightsChan, dbVars, historyVars>>
    BY <1>7 DEF vars
  <2>2. StateTypeOK'
    BY <2>1 DEF StateTypeOK, chainVars, dbVars, historyVars
  <2>3. UNCHANGED <<fetcherVars, processorVars, blocksVars, missed, stops>>
    BY <1>7 DEF vars
  <2>4. FetcherTypeOK'
    BY <2>3 DEF FetcherTypeOK, fetcherVars
  <2>5. ProcessorTypeOK' /\ BlocksTypeOK'
    BY <2>3 DEF ProcessorTypeOK, BlocksTypeOK, processorVars, blocksVars
  <2> QED  BY <2>2, <2>3, <2>4, <2>5
<1> QED  BY <1>1, <1>2, <1>3, <1>4, <1>5, <1>6, <1>7 DEF Next

LEMMA TypeInit == Init => TypeOK
<1> SUFFICES ASSUME Init PROVE TypeOK
  OBVIOUS
<1>1. StateTypeOK
  BY ConstantFacts DEF Init, StateInit, StateTypeOK
<1>2. FetcherTypeOK
  <2>1. due \in BOOLEAN
    BY Zenon DEF Init, FetcherInit
  <2> QED  BY <2>1, ConstantFacts DEF Init, FetcherInit, FetcherTypeOK,
              Threads, InitPc, At, Zero, NoLogs
<1>3. ProcessorTypeOK /\ BlocksTypeOK
  BY DEF Init, ProcessorInit, BlocksInit, ProcessorTypeOK, BlocksTypeOK, Idle
<1> QED  BY <1>1, <1>2, <1>3, ConstantFacts DEF Init, TypeOK

(* Type correctness of one EVM client, whatever the interleaving of its    *)
(* goroutines, the faults and the stops: in particular the two channels    *)
(* made by Start never hold more than their capacity.                      *)
THEOREM TypeCorrect == Spec => []TypeOK
BY TypeInit, TypeInductive, PTL DEF Spec

-----------------------------------------------------------------------------
(* Nothing that is accounted for stops being so.                           *)

LEMMA BeforeMonotone ==
    ASSUME NEW a \in Nat, NEW b \in Nat, a <= b
    PROVE  Before(a) \subseteq Before(b)
<1>1. \A l \in Logs : BlockOf[l] \in Nat
  BY ConstantFacts
<1> QED  BY <1>1 DEF Before

(* A batch moves with its message.                                         *)
LEMMA QueuedAppend ==
    ASSUME NEW S, NEW chan \in Seq(S), NEW e \in S
    PROVE  Queued(Append(chan, e)) = Queued(chan) \cup e
<1>1. /\ Len(chan) \in Nat
      /\ Len(Append(chan, e)) = Len(chan) + 1
      /\ \A i \in 1..Len(chan) : Append(chan, e)[i] = chan[i]
      /\ Append(chan, e)[Len(chan) + 1] = e
  BY AppendProperties, LenProperties
<1>2. 1..(Len(chan) + 1) = 1..Len(chan) \cup {Len(chan) + 1}
  BY <1>1
<1> QED  BY <1>1, <1>2 DEF Queued

LEMMA QueuedTail ==
    ASSUME NEW S, NEW chan \in Seq(S), chan # << >>
    PROVE  Queued(chan) = Head(chan) \cup Queued(Tail(chan))
<1>1. /\ Len(chan) \in Nat /\ Len(chan) >= 1
      /\ Len(Tail(chan)) = Len(chan) - 1
      /\ Head(chan) = chan[1]
      /\ \A i \in 1..(Len(chan) - 1) : Tail(chan)[i] = chan[i + 1]
  BY HeadTailProperties, LenProperties, EmptySeq
<1>2. \A x : x \in Queued(chan) <=> \E i \in 1..Len(chan) : x \in chan[i]
  BY DEF Queued
<1>3. \A x : x \in Queued(Tail(chan))
              <=> \E i \in 1..(Len(chan) - 1) : x \in chan[i + 1]
  BY <1>1 DEF Queued
<1>4. \A i \in 1..Len(chan) : i = 1 \/ (i - 1) \in 1..(Len(chan) - 1)
  BY <1>1
<1>5. \A i \in 1..(Len(chan) - 1) : (i + 1) \in 1..Len(chan)
  BY <1>1
<1>6. \A x : x \in Queued(chan) => x \in Head(chan) \/ x \in Queued(Tail(chan))
  <2> SUFFICES ASSUME NEW x, NEW j \in 1..Len(chan), x \in chan[j]
               PROVE  x \in Head(chan) \/ x \in Queued(Tail(chan))
    BY <1>2
  <2>1. CASE j = 1
    BY <1>1, <2>1
  <2>2. CASE j # 1
    <3>1. (j - 1) \in 1..(Len(chan) - 1) /\ (j - 1) + 1 = j
      BY <1>4, <2>2, <1>1
    <3> QED  BY <1>3, <3>1
  <2> QED  BY <2>1, <2>2
<1>7. \A x : x \in Head(chan) \/ x \in Queued(Tail(chan)) => x \in Queued(chan)
  BY <1>1, <1>2, <1>3, <1>5
<1> QED  BY <1>6, <1>7

(* The numbers a goroutine computes with.                                  *)
LEMMA FetcherNumbers ==
    ASSUME TypeOK
    PROVE  /\ head \in Nat /\ ckpt \in Nat /\ qto \in Nat
           /\ \A t \in Threads : from[t] \in Nat /\ cur[t] \in Nat
                                  /\ range[t] \in Nat
BY ConstantFacts DEF TypeOK, StateTypeOK, FetcherTypeOK

LEMMA FetchKeepsAccounted ==
    ASSUME TypeOK, PipelineInv, NEW t \in Threads, FetchStep(t),
           UNCHANGED <<saved, dropped, lost, toSave, saving>>
    PROVE  Accounted \subseteq Accounted'
<1> USE DEF Accounted, InMemory
<1>1. CASE SendLogs(t)
  <2>1. Queued(logsChan') = Queued(logsChan) \cup got[t]
    BY <1>1, QueuedAppend DEF SendLogs, TypeOK, StateTypeOK, FetcherTypeOK
  <2>2. \A u \in Threads : u # t => got'[u] = got[u]
    BY <1>1 DEF SendLogs, TypeOK, FetcherTypeOK
  <2> QED  BY <2>1, <2>2 DEF Threads
<1>2. CASE FilterLogs(t)
  <2>1. got[t] = {} /\ logsChan' = logsChan
    BY <1>2 DEF PipelineInv, FilterLogs, shared
  <2>2. \A u \in Threads : u # t => got'[u] = got[u]
    BY <1>2 DEF FilterLogs, TypeOK, FetcherTypeOK
  <2> QED  BY <2>1, <2>2 DEF Threads
<1>3. CASE UNCHANGED <<got, logsChan>>
  BY <1>3
<1> QED  BY <1>1, <1>2, <1>3 DEF FetchStep, SetFrom, SetTo, CopyFrom,
            FilterRangeError, FilterError, Advance, shared

(* A step that leaves the fetchers alone keeps their invariant.            *)
LEMMA PipelineFrame ==
    ASSUME TypeOK, PipelineInv, UNCHANGED <<fetcherVars, ckpt>>,
           head' \in Nat, head' >= head, Accounted \subseteq Accounted'
    PROVE  PipelineInv'
<1> USE DEF fetcherVars, Fetching, Before
<1>1. /\ ckpt' <= head' /\ qto' <= head'
      /\ \A t \in Threads : cur'[t] <= head'
  BY FetcherNumbers DEF PipelineInv
<1>2. \A t \in Threads : WindowSound(t)'
  BY DEF PipelineInv, WindowSound
<1>3. CheckpointSound' /\ NoGap' /\ RecoveryComplete'
  BY DEF PipelineInv, CheckpointSound, NoGap, RecoveryComplete
<1> QED  BY <1>1, <1>2, <1>3 DEF PipelineInv

(* One step of FetchRangeLogs.  The other goroutine is outside its loop,   *)
(* so the query is this one's alone.                                       *)
LEMMA FetchPipeline ==
    ASSUME TypeOK, PipelineInv, NEW t \in Threads, FetchStep(t),
           UNCHANGED <<head, saved, dropped, lost, toSave, saving>>
    PROVE  PipelineInv'
<1> DEFINE A == Accounted
<1>1. A \subseteq A'
  BY FetchKeepsAccounted
<1>2. \A a, b \in Nat : a <= b => Before(a) \subseteq Before(b)
  BY BeforeMonotone
<1>3. /\ head \in Nat /\ ckpt \in Nat /\ qto \in Nat
      /\ \A u \in Threads : from[u] \in Nat /\ cur[u] \in Nat
                             /\ range[u] \in Nat
  BY FetcherNumbers
<1>4. Fetching(t) /\ \A u \in Threads : u # t => ~Fetching(u)
  <2>1. Fetching(t)
    BY DEF FetchStep, SetFrom, SetTo, CopyFrom, FilterLogs, FilterRangeError,
           FilterError, SendLogs, Advance, Fetching, FetchStates
  <2> QED  BY <2>1 DEF PipelineInv, Threads, Fetching, FetchStates
<1>5. \A u \in Threads : u # t => pc'[u] = pc[u]
  BY DEF FetchStep, SetFrom, SetTo, CopyFrom, FilterLogs, FilterRangeError,
         FilterError, SendLogs, Advance, TypeOK, FetcherTypeOK
<1>6. pc'[t] \in FetchStates
  BY DEF FetchStep, SetFrom, SetTo, CopyFrom, FilterLogs, FilterRangeError,
         FilterError, SendLogs, Advance, TypeOK, FetcherTypeOK, FetchStates,
         AfterSend
<1>7. \A u \in Threads : u # t => WindowSound(u)'
  BY <1>4, <1>5 DEF WindowSound, Fetching
<1>8. ckpt' = ckpt /\ cur' = cur
  BY DEF FetchStep, SetFrom, SetTo, CopyFrom, FilterLogs, FilterRangeError,
         FilterError, SendLogs, Advance, shared
<1>9. qto' \in Nat /\ qto' <= head'
  <2>1. CASE SetTo(t)
    <3>1. qto' = RangeEnd(from[t], range[t], cur[t])
      BY <2>1 DEF SetTo
    <3>2. from[t] \in Nat /\ range[t] \in Nat /\ cur[t] \in Nat
      BY <1>3
    <3>3. qto' \in Nat /\ qto' <= cur[t]
      BY <3>1, <3>2, RangeEndBound
    <3>4. cur[t] <= head /\ head' = head
      BY DEF PipelineInv
    <3> QED  BY <3>2, <3>3, <3>4, <1>3
  <2>2. CASE qto' = qto
    BY <2>2, <1>3 DEF PipelineInv
  <2> QED  BY <2>1, <2>2 DEF FetchStep, SetFrom, CopyFrom, FilterLogs, query,
           FilterRangeError, FilterError, SendLogs, Advance
<1>10. \A u \in Threads : pc'[u] # "send" => got'[u] = {}
  <2>1. ASSUME NEW u \in Threads, u # t PROVE got'[u] = got[u]
    BY <2>1 DEF FetchStep, SetFrom, SetTo, CopyFrom, FilterLogs,
         FilterRangeError, FilterError, SendLogs, Advance, TypeOK, FetcherTypeOK
  <2>2. pc'[t] # "send" => got'[t] = {}
    BY DEF FetchStep, SetFrom, SetTo, CopyFrom, FilterLogs, FilterRangeError,
         FilterError, SendLogs, Advance, TypeOK, FetcherTypeOK, PipelineInv
  <2> QED  BY <2>1, <2>2, <1>5 DEF PipelineInv
<1>11. Fetching("realtime")' => pc'["recover"] = "done"
  BY <1>4, <1>5, <1>6 DEF PipelineInv, Fetching, FetchStates, Threads
<1>12. pc'["recover"] # "done" => from'["realtime"] <= cur'["recover"]
  <2>1. CASE t = "recover"
    <3>1. from'["realtime"] = from["realtime"]
      BY <2>1 DEF FetchStep, SetFrom, SetTo, CopyFrom, FilterLogs, Threads,
           FilterRangeError, FilterError, SendLogs, Advance, TypeOK, FetcherTypeOK
    <3>2. pc["recover"] # "done"
      BY <2>1, <1>4 DEF Fetching, FetchStates
    <3> QED  BY <3>1, <3>2, <1>8 DEF PipelineInv
  <2>2. CASE t = "realtime"
    BY <2>2, <1>4, <1>5 DEF PipelineInv, Threads
  <2> QED  BY <2>1, <2>2 DEF Threads
<1>13. WindowSound(t)'
  <2> USE DEF WindowSound, Fetching, FetchStates, TypeOK, FetcherTypeOK
  <2>0. /\ Before(from[t]) \subseteq A
        /\ pc[t] \in {"setTo", "copyFrom"} => qfrom = from[t]
        /\ pc[t] = "call" => cfrom[t] = from[t]
        /\ pc[t] \in {"send", "store", "advance"} => Before(qto + 1) \subseteq A
    BY <1>4 DEF PipelineInv
  <2>1. CASE SetFrom(t)
    BY <2>0, <2>1, <1>1 DEF SetFrom, Before
  <2>2. CASE SetTo(t)
    BY <2>0, <2>2, <1>1 DEF SetTo, Before
  <2>3. CASE CopyFrom(t)
    BY <2>0, <2>3, <1>1 DEF CopyFrom, Before, query
  <2>4. CASE FilterLogs(t)
    <3>1. cfrom[t] = from[t] /\ from' = from /\ qto' = qto
      BY <2>0, <2>4 DEF FilterLogs, query
    <3>2. got'[t] = Answer(t)
      BY <2>4 DEF FilterLogs
    <3>3. got'[t] \subseteq A'
      BY DEF Accounted, InMemory, Threads
    <3>4. \A l \in Logs : BlockOf[l] \in Nat
      BY ConstantFacts
    <3>5. Before(qto + 1) \subseteq Before(from[t]) \cup Answer(t)
      BY <1>3, <3>1, <3>4 DEF Before, Answer, InBlocks, PipelineInv
    <3>6. Before(qto + 1) \subseteq A'
      BY <2>0, <3>2, <3>3, <3>5, <1>1
    <3>7. pc'[t] \in {"store", "advance", "send"}
      BY <2>4 DEF FilterLogs, AfterSend
    <3>8. Before(from[t]) \subseteq A'
      BY <2>0, <1>1
    <3> QED  BY <3>1, <3>6, <3>7, <3>8 DEF Before
  <2>5. CASE FilterRangeError(t)
    BY <2>0, <2>5, <1>1 DEF FilterRangeError, Before
  <2>6. CASE FilterError(t)
    BY <2>0, <2>6, <1>1 DEF FilterError, Before
  <2>7. CASE SendLogs(t)
    BY <2>0, <2>7, <1>1 DEF SendLogs, AfterSend, query, Before
  <2>8. CASE Advance(t)
    BY <2>0, <2>8, <1>1 DEF Advance, query, Before
  <2> QED  BY <2>1, <2>2, <2>3, <2>4, <2>5, <2>6, <2>7, <2>8 DEF FetchStep
<1>14. CheckpointSound'
  BY <1>1, <1>8 DEF PipelineInv, CheckpointSound, Before
<1>15. pc'["recover"] = "done" => t = "realtime" /\ pc["recover"] = "done"
  BY <1>5, <1>6 DEF Threads, FetchStates
<1>16. NoGap'
  BY <1>6, <1>13, <1>15 DEF NoGap, WindowSound, Fetching, Before
<1>17. RecoveryComplete'
  BY <1>1, <1>8, <1>15 DEF PipelineInv, RecoveryComplete, Before
<1>18. pc'["realtime"] = "start" => pc'["recover"] = "off"
  BY <1>4, <1>5, <1>6 DEF PipelineInv, Threads, Fetching, FetchStates
<1>19. /\ ckpt' <= head'
       /\ \A u \in Threads : cur'[u] <= head'
  BY <1>8 DEF PipelineInv
<1> QED  BY <1>7, <1>9, <1>10, <1>11, <1>12, <1>13, <1>14, <1>16, <1>17, <1>18,
            <1>19
         DEF PipelineInv

(* recoverLogs resumes at or below the first block the checkpoint does not *)
(* cover, or at the first block that can hold a log.                       *)
LEMMA ResumeSound ==
    ASSUME TypeOK, CheckpointSound, NEW last \in {ckpt, 0}
    PROVE  ResumeAt(last) \in Nat /\ Before(ResumeAt(last)) \subseteq Accounted
<1>1. StartBlock \in Nat /\ ckpt \in Nat /\ \A l \in Logs : BlockOf[l] \in Nat /\ BlockOf[l] >= 1
  BY ConstantFacts, FetcherNumbers, RangeAssumption
<1>2. CASE ResumeAt(last) = StartBlock
  BY <1>1, <1>2 DEF Before
<1>3. CASE ResumeAt(last) = last + 1
  <2>1. CASE last = ckpt
    BY <1>1, <1>3, <2>1 DEF CheckpointSound
  <2>2. CASE last = 0
    BY <1>1, <1>3, <2>2 DEF Before
  <2> QED  BY <2>1, <2>2
<1> QED  BY <1>2, <1>3 DEF ResumeAt

LEMMA RecoverPipeline ==
    ASSUME TypeOK, PipelineInv, RecoverStep,
           UNCHANGED <<head, saved, dropped, lost, toSave, saving>>
    PROVE  PipelineInv'
<1> USE DEF Threads
<1>0. /\ head \in Nat /\ ckpt \in Nat /\ qto \in Nat
      /\ \A u \in Threads : from[u] \in Nat /\ cur[u] \in Nat
  BY FetcherNumbers
<1>1. CASE RecoverLogs
  <2>1. PICK last \in {ckpt, 0} :
            /\ from' = [from EXCEPT !["recover"] = ResumeAt(last)]
            /\ pc' = [pc EXCEPT !["recover"] =
                  IF ResumeAt(last) <= cur["recover"] THEN "setFrom" ELSE "done"]
    BY <1>1 DEF RecoverLogs, GetLatestFetchedBlock
  <2>2. ResumeAt(last) \in Nat /\ Before(ResumeAt(last)) \subseteq Accounted
    BY ResumeSound DEF PipelineInv
  <2>3. /\ pc["recover"] = "init" /\ pc'["realtime"] = pc["realtime"]
        /\ from'["realtime"] = from["realtime"]
        /\ from'["recover"] = ResumeAt(last)
        /\ UNCHANGED <<cur, qfrom, qto, cfrom, got, logsChan, ckpt>>
    BY <1>1, <2>1 DEF RecoverLogs, GetLatestFetchedBlock, query, TypeOK, FetcherTypeOK
  <2>4. Accounted' = Accounted
    BY <2>3 DEF Accounted, InMemory
  <2>5. from["realtime"] <= cur["recover"] /\ ~Fetching("realtime")
    BY <2>3 DEF PipelineInv
  <2>6. CASE ResumeAt(last) <= cur["recover"]
    <3>1. pc'["recover"] = "setFrom"
      BY <2>1, <2>6 DEF TypeOK, FetcherTypeOK
    <3> QED  BY <2>2, <2>3, <2>4, <2>5, <3>1 DEF PipelineInv, WindowSound,
                Fetching, FetchStates, CheckpointSound, NoGap, RecoveryComplete,
                Before
  <2>7. CASE ~(ResumeAt(last) <= cur["recover"])
    <3>1. pc'["recover"] = "done"
      BY <2>1, <2>7 DEF TypeOK, FetcherTypeOK
    <3>2. /\ Before(cur["recover"] + 1) \subseteq Before(ResumeAt(last))
          /\ Before(from["realtime"]) \subseteq Before(ResumeAt(last))
      BY <1>0, <2>2, <2>5, <2>7, BeforeMonotone
    <3>3. /\ Before(cur["recover"] + 1) \subseteq Accounted
          /\ Before(from["realtime"]) \subseteq Accounted
      BY <2>2, <3>2
    <3> QED  BY <2>3, <2>4, <2>5, <3>1, <3>3 DEF PipelineInv, WindowSound,
                Fetching, FetchStates, CheckpointSound, NoGap, RecoveryComplete,
                Before
  <2> QED  BY <2>6, <2>7
<1>2. CASE FetchStep("recover")
  BY <1>2, FetchPipeline
<1>3. CASE StoreCheckpoint
  <2>1. /\ pc["recover"] = "store" /\ pc'["recover"] = "advance"
        /\ pc'["realtime"] = pc["realtime"]
        /\ UNCHANGED <<from, cur, qfrom, qto, cfrom, got, logsChan>>
    BY <1>3 DEF StoreCheckpoint, UpdateLatestFetchedBlock, query, TypeOK, FetcherTypeOK
  <2>2. Accounted' = Accounted
    BY <2>1 DEF Accounted, InMemory
  <2>3. Before(qto + 1) \subseteq Accounted /\ ~Fetching("realtime")
    BY <2>1 DEF PipelineInv, WindowSound, Fetching, FetchStates
  <2>4. ckpt' = qto \/ ckpt' = ckpt
    BY <1>3 DEF StoreCheckpoint, UpdateLatestFetchedBlock
  <2>5. CheckpointSound' /\ ckpt' <= head'
    BY <2>2, <2>3, <2>4 DEF CheckpointSound, PipelineInv, Before
  <2> QED  BY <2>1, <2>2, <2>3, <2>5 DEF PipelineInv, WindowSound, Fetching,
              FetchStates, NoGap, RecoveryComplete, Before
<1>4. CASE FinishRecovery
  <2>1. /\ pc["recover"] = "advance" /\ pc'["recover"] = "done"
        /\ pc'["realtime"] = pc["realtime"] /\ qto + 1 > cur["recover"]
        /\ from'["realtime"] = from["realtime"]
        /\ UNCHANGED <<cur, qfrom, qto, cfrom, got, logsChan, ckpt>>
    BY <1>4 DEF FinishRecovery, query, shared, TypeOK, FetcherTypeOK
  <2>2. Accounted' = Accounted
    BY <2>1 DEF Accounted, InMemory
  <2>3. /\ Before(qto + 1) \subseteq Accounted /\ ~Fetching("realtime")
        /\ from["realtime"] <= cur["recover"]
    BY <2>1 DEF PipelineInv, WindowSound, Fetching, FetchStates
  <2>4. /\ Before(cur["recover"] + 1) \subseteq Before(qto + 1)
        /\ Before(from["realtime"]) \subseteq Before(qto + 1)
    BY <1>0, <2>1, <2>3, BeforeMonotone
  <2>5. /\ Before(cur["recover"] + 1) \subseteq Accounted
        /\ Before(from["realtime"]) \subseteq Accounted
    BY <2>3, <2>4
  <2> QED  BY <2>1, <2>2, <2>3, <2>5 DEF PipelineInv, WindowSound, Fetching,
              FetchStates, CheckpointSound, NoGap, RecoveryComplete, Before
<1> QED  BY <1>1, <1>2, <1>3, <1>4 DEF RecoverStep

(* A head that was read is no newer than the chain.                        *)
LEMMA BlockNumberBound ==
    ASSUME TypeOK, PipelineInv, NEW n \in Blocks, BlockNumber(n) \/ HeadForTick(n)
    PROVE  n \in Nat /\ n <= head
<1>1. n \in Nat /\ head \in Nat
  BY ConstantFacts, FetcherNumbers
<1>2. cur["realtime"] <= head
  BY DEF PipelineInv, Threads
<1> QED  BY <1>1, <1>2 DEF BlockNumber, HeadForTick

LEMMA RealtimePipeline ==
    ASSUME ~Overlap, TypeOK, PipelineInv, RealtimeStep,
           UNCHANGED <<head, saved, dropped, lost, toSave, saving>>
    PROVE  PipelineInv'
<1> USE DEF Threads
<1>0. /\ head \in Nat /\ ckpt \in Nat /\ qto \in Nat
      /\ \A u \in Threads : from[u] \in Nat /\ cur[u] \in Nat
  BY FetcherNumbers
<1>1. CASE LoopFetchLogs
  <2>1. PICK n \in Blocks : /\ BlockNumber(n)
                            /\ cur' = [cur EXCEPT !["recover"] = n]
                            /\ from' = [from EXCEPT !["realtime"] = n]
    BY <1>1 DEF LoopFetchLogs
  <2>2. n \in Nat /\ n <= head
    BY <2>1, BlockNumberBound
  <2>3. /\ pc'["recover"] = "init" /\ pc'["realtime"] = "enter"
        /\ pc["realtime"] = "start"
        /\ cur'["recover"] = n /\ cur'["realtime"] = cur["realtime"]
        /\ from'["realtime"] = n
        /\ UNCHANGED <<qfrom, qto, cfrom, got, logsChan, ckpt>>
    BY <1>1, <2>1 DEF LoopFetchLogs, At, query, TypeOK, FetcherTypeOK
  <2>4. Accounted' = Accounted
    BY <2>3 DEF Accounted, InMemory
  <2>5. got = NoLogs
    <3>1. \A u \in Threads : pc[u] # "send"
      BY <2>3 DEF PipelineInv, Fetching, FetchStates
    <3> QED  BY <3>1 DEF PipelineInv, NoLogs, TypeOK, FetcherTypeOK
  <2> QED  BY <2>2, <2>3, <2>4, <2>5 DEF PipelineInv, WindowSound, Fetching,
              FetchStates, CheckpointSound, NoGap, RecoveryComplete, Before,
              NoLogs
<1>2. CASE FetchRealtimeLogs
  <2>1. PICK n \in Blocks : /\ BlockNumber(n)
                            /\ cur' = [cur EXCEPT !["realtime"] = n]
    BY <1>2 DEF FetchRealtimeLogs
  <2>2. n \in Nat /\ n <= head
    BY <2>1, BlockNumberBound
  <2>3. /\ pc'["recover"] = pc["recover"] /\ pc'["realtime"] = "tick"
        /\ pc["realtime"] = "enter"
        /\ cur'["realtime"] = n /\ cur'["recover"] = cur["recover"]
        /\ UNCHANGED <<from, qfrom, qto, cfrom, got, logsChan, ckpt>>
    BY <1>2, <2>1 DEF FetchRealtimeLogs, query, TypeOK, FetcherTypeOK
  <2>4. Accounted' = Accounted
    BY <2>3 DEF Accounted, InMemory
  <2> QED  BY <2>2, <2>3, <2>4 DEF PipelineInv, WindowSound, Fetching,
              FetchStates, CheckpointSound, NoGap, RecoveryComplete, Before
<1>3. CASE RealtimeFetch
  <2>1. PICK n \in Blocks : /\ HeadForTick(n)
                            /\ cur' = [cur EXCEPT !["realtime"] = n]
    BY <1>3 DEF RealtimeFetch
  <2>2. n \in Nat /\ n <= head
    BY <2>1, BlockNumberBound
  <2>0. /\ pc["recover"] = "done" /\ pc["realtime"] = "tick"
        /\ pc' = [pc EXCEPT !["realtime"] = "setFrom"]
        /\ UNCHANGED <<from, range, query, cfrom, got, logsChan, ckpt>>
    BY <1>3, Zenon DEF RealtimeFetch
  <2>3. /\ pc["recover"] = "done" /\ pc'["recover"] = "done"
        /\ pc["realtime"] = "tick" /\ pc'["realtime"] = "setFrom"
        /\ cur'["realtime"] = n /\ cur'["recover"] = cur["recover"]
        /\ UNCHANGED <<from, qfrom, qto, cfrom, got, logsChan, ckpt>>
    BY <2>0, <2>1 DEF query, TypeOK, FetcherTypeOK
  <2>4. Accounted' = Accounted
    BY <2>3 DEF Accounted, InMemory
  <2> QED  BY <2>2, <2>3, <2>4 DEF PipelineInv, WindowSound, Fetching,
              FetchStates, CheckpointSound, NoGap, RecoveryComplete, Before
<1>4. CASE RealtimeSkip
  <2>1. PICK n \in Blocks : /\ HeadForTick(n)
                            /\ from["realtime"] > n
                            /\ cur' = [cur EXCEPT !["realtime"] = n]
                            /\ from' = [from EXCEPT !["realtime"] = n + 1]
    BY <1>4 DEF RealtimeSkip
  <2>2. n \in Nat /\ n <= head
    BY <2>1, BlockNumberBound
  <2>3. /\ pc' = pc /\ pc["realtime"] = "tick"
        /\ cur'["realtime"] = n /\ cur'["recover"] = cur["recover"]
        /\ from'["realtime"] = n + 1 /\ from'["recover"] = from["recover"]
        /\ UNCHANGED <<qfrom, qto, cfrom, got, logsChan, ckpt>>
    BY <1>4, <2>1 DEF RealtimeSkip, query, TypeOK, FetcherTypeOK
  <2>4. Accounted' = Accounted
    BY <2>3 DEF Accounted, InMemory
  <2>5. Before(n + 1) \subseteq Before(from["realtime"])
    BY <1>0, <2>1, <2>2, BeforeMonotone
  <2>6. NoGap'
    BY <2>3, <2>4, <2>5 DEF PipelineInv, NoGap, Before
  <2>7. pc'["recover"] # "done" => from'["realtime"] <= cur'["recover"]
    BY <1>0, <2>1, <2>2, <2>3 DEF PipelineInv
  <2> QED  BY <2>2, <2>3, <2>4, <2>6, <2>7 DEF PipelineInv, WindowSound,
              Fetching, FetchStates, CheckpointSound, RecoveryComplete, Before
<1>5. CASE FetchStep("realtime")
  BY <1>5, FetchPipeline
<1>6. CASE FinishRealtime
  <2>1. /\ pc["realtime"] = "advance" /\ pc'["realtime"] = "tick"
        /\ pc'["recover"] = pc["recover"] /\ qto + 1 > cur["realtime"]
        /\ from'["realtime"] = cur["realtime"] + 1
        /\ from'["recover"] = from["recover"]
        /\ UNCHANGED <<cur, qfrom, qto, cfrom, got, logsChan, ckpt>>
    BY <1>6 DEF FinishRealtime, query, TypeOK, FetcherTypeOK
  <2>2. Accounted' = Accounted
    BY <2>1 DEF Accounted, InMemory
  <2>3. Before(qto + 1) \subseteq Accounted /\ pc["recover"] = "done"
    BY <2>1 DEF PipelineInv, WindowSound, Fetching, FetchStates
  <2>4. Before(cur["realtime"] + 1) \subseteq Before(qto + 1)
    BY <1>0, <2>1, BeforeMonotone
  <2> QED  BY <2>1, <2>2, <2>3, <2>4 DEF PipelineInv, WindowSound, Fetching,
              FetchStates, CheckpointSound, NoGap, RecoveryComplete, Before
<1> QED  BY <1>1, <1>2, <1>3, <1>4, <1>5, <1>6 DEF RealtimeStep

(* The processor moves logs from the channel to the table, or gives them   *)
(* up; it never forgets one.                                               *)
LEMMA ProcessKeepsAccounted ==
    ASSUME TypeOK, BatchFinished, Process
    PROVE  Accounted \subseteq Accounted'
<1> USE DEF Accounted, InMemory
<1>0. UNCHANGED <<lost, got>>
  BY DEF Process, fetcherVars
<1>1. CASE ReceiveLogs
  <2>1. Queued(logsChan) = Head(logsChan) \cup Queued(Tail(logsChan))
    BY <1>1, QueuedTail DEF ReceiveLogs, TypeOK, StateTypeOK
  <2>2. toSave = {}
    BY <1>1 DEF ReceiveLogs, BatchFinished
  <2> QED  BY <1>0, <1>1, <2>1, <2>2 DEF ReceiveLogs, Parsed
<1>2. CASE SendHeights
  BY <1>0, <1>2 DEF SendHeights
<1>3. CASE SaveBatchRecords
  BY <1>0, <1>3 DEF SaveBatchRecords, InsertRecords
<1>4. CASE SaveFails
  BY <1>0, <1>4 DEF SaveFails
<1>5. ASSUME NEW t \in Topics, SaveRecords(t)
      PROVE  Accounted \subseteq Accounted'
  BY <1>0, <1>5 DEF SaveRecords
<1> QED  BY <1>1, <1>2, <1>3, <1>4, <1>5 DEF Process, ProcessorStep

LEMMA BatchFinishedInductive ==
    ASSUME TypeOK, BatchFinished, [Next]_vars
    PROVE  BatchFinished'
<1> USE DEF BatchFinished
<1>1. CASE Process
  <2>1. NextChunk \subseteq saving
    BY DEF NextChunk
  <2>2. ASSUME NEW t \in Topics, SaveRecords(t) PROVE BatchFinished'
    BY <2>2 DEF SaveRecords
  <2> QED  BY <1>1, <2>2 DEF Process, ProcessorStep, ReceiveLogs, SendHeights,
              SaveBatchRecords, InsertRecords, SaveFails, AfterSave
<1>2. CASE Stop \/ Panic
  BY <1>2 DEF Stop, Panic, Restarted
<1>3. CASE UNCHANGED processorVars
  BY <1>3 DEF processorVars
<1> QED  BY <1>1, <1>2, <1>3 DEF Next, Fetch, Dispatch, Work, Grow, vars

LEMMA PipelineRestart ==
    ASSUME TypeOK, PipelineInv, Restarted
    PROVE  PipelineInv'
<1> USE DEF Threads
<1>1. Accounted \subseteq Accounted'
  BY DEF Restarted, Accounted, dbVars
<1>2. /\ pc'["recover"] = "off" /\ pc'["realtime"] = "start"
      /\ \A t \in Threads : cur'[t] = 0 /\ from'[t] = 0 /\ got'[t] = {}
      /\ qto' = 0 /\ UNCHANGED <<head, ckpt>>
  BY DEF Restarted, InitPc, At, Zero, NoLogs, chainVars, dbVars
<1>3. head \in Nat
  BY FetcherNumbers
<1>4. CheckpointSound'
  BY <1>1, <1>2 DEF PipelineInv, CheckpointSound, Before
<1> QED  BY <1>2, <1>3, <1>4 DEF PipelineInv, WindowSound, Fetching,
            FetchStates, NoGap, RecoveryComplete

LEMMA PipelineInductive ==
    ASSUME ~Overlap, TypeOK, BatchFinished, PipelineInv, [Next]_vars
    PROVE  PipelineInv'
<1>0. head \in Nat
  BY FetcherNumbers
<1>1. ASSUME NEW t \in Threads, Fetch(t) PROVE PipelineInv'
  <2>1. UNCHANGED <<head, saved, dropped, lost, toSave, saving>>
    BY <1>1 DEF Fetch, historyVars, processorVars
  <2>2. RecoverStep \/ RealtimeStep
    BY <1>1 DEF Fetch
  <2> QED  BY <2>1, <2>2, RecoverPipeline, RealtimePipeline
<1>2. CASE Process
  <2>1. UNCHANGED <<head, ckpt, fetcherVars>>
    BY <1>2 DEF Process
  <2> QED  BY <1>0, <1>2, <2>1, ProcessKeepsAccounted, PipelineFrame
<1>3. CASE Dispatch \/ \E w \in Workers : Work(w)
  <2>1. UNCHANGED <<head, logsChan, ckpt, saved, historyVars, fetcherVars,
                    processorVars>>
    BY <1>3 DEF Dispatch, Work
  <2>2. Accounted' = Accounted
    BY <2>1 DEF Accounted, InMemory, historyVars, fetcherVars, processorVars
  <2> QED  BY <1>0, <2>1, <2>2, PipelineFrame
<1>4. CASE Grow
  <2>1. UNCHANGED <<logsChan, dbVars, historyVars, fetcherVars, processorVars>>
    BY <1>4 DEF Grow
  <2>2. Accounted' = Accounted /\ ckpt' = ckpt
    BY <2>1 DEF Accounted, InMemory, dbVars, historyVars, fetcherVars,
                processorVars
  <2>3. head' \in Nat /\ head' >= head
    BY <1>0, <1>4 DEF Grow, NewBlock
  <2> QED  BY <2>1, <2>2, <2>3, PipelineFrame
<1>5. CASE Stop \/ Panic
  BY <1>5, PipelineRestart DEF Stop, Panic
<1>6. CASE UNCHANGED vars
  <2>1. UNCHANGED <<chainVars, logsChan, dbVars, historyVars, fetcherVars,
                    processorVars>>
    BY <1>6 DEF vars
  <2>2. Accounted' = Accounted /\ ckpt' = ckpt /\ head' = head
    BY <2>1 DEF Accounted, InMemory, chainVars, dbVars, historyVars,
                fetcherVars, processorVars
  <2> QED  BY <1>0, <2>1, <2>2, PipelineFrame
<1> QED  BY <1>1, <1>2, <1>3, <1>4, <1>5, <1>6 DEF Next

LEMMA PipelineInit == Init => BatchFinished /\ PipelineInv
<1> SUFFICES ASSUME Init PROVE BatchFinished /\ PipelineInv
  OBVIOUS
<1> USE DEF Init, StateInit, FetcherInit, ProcessorInit, Threads
<1>1. head \in Nat /\ \A l \in Logs : BlockOf[l] \in Nat /\ BlockOf[l] >= 1
  BY ConstantFacts
<1>2. CheckpointSound
  BY <1>1 DEF CheckpointSound, Before
<1>3. pc["recover"] = "off" /\ pc["realtime"] = "start"
  BY DEF InitPc, At
<1> QED  BY <1>1, <1>2, <1>3 DEF BatchFinished, PipelineInv, WindowSound,
            Fetching, FetchStates, NoGap, RecoveryComplete, Zero, NoLogs

(* When recovery and the realtime loop do not run at the same time, and    *)
(* whatever fails, however often the process stops: each window in         *)
(* progress extends a prefix of the chain that is accounted for, and the   *)
(* query the two goroutines share still holds that window.                 *)
THEOREM PipelineInvariant ==
    ASSUME ~Overlap
    PROVE  Spec => []PipelineInv
<1>1. Init => TypeOK /\ BatchFinished /\ PipelineInv
  BY PipelineInit, TypeInit
<1>2. TypeOK /\ BatchFinished /\ PipelineInv /\ [Next]_vars
        => TypeOK' /\ BatchFinished' /\ PipelineInv'
  BY TypeInductive, BatchFinishedInductive, PipelineInductive
<1> QED  BY <1>1, <1>2, PTL DEF Spec

(* Then every log below the checkpoint and every log recoverLogs was to    *)
(* find has been fetched, and is stored, on its way, or was given up.      *)
THEOREM FetchingIsComplete ==
    ASSUME ~Overlap
    PROVE  Spec => [](CheckpointSound /\ RecoveryComplete)
<1>1. PipelineInv => CheckpointSound /\ RecoveryComplete
  BY DEF PipelineInv
<1> QED  BY <1>1, PipelineInvariant, PTL

(* And so has, once recoverLogs has returned, every log below the block    *)
(* the realtime loop is to fetch next: the two leave no gap between them.  *)
THEOREM NoGapBetweenFetchers ==
    ASSUME ~Overlap
    PROVE  Spec => []NoGap
<1>1. PipelineInv => NoGap
  BY DEF PipelineInv
<1> QED  BY <1>1, PipelineInvariant, PTL

-----------------------------------------------------------------------------
(* The next three theorems hold even when the two fetchers overlap and     *)
(* race on the query they share; the last one needs, like                  *)
(* FetchingIsComplete, that they do not.                                   *)

(* Where a block number that was handed to fetchBlocks may be.             *)
Reached == headers \cup BlocksInMemory \cup missed

(* The inductive invariant behind SavedHasHeader: the records of a batch   *)
(* reach the saving loop only after the block numbers of the same batch    *)
(* have left the processor.                                                *)
HandOver ==
    /\ SavedHasHeader
    /\ ppc = "heights" => BlocksOf(toSave) \subseteq heights
    /\ ppc = "save" => BlocksOf(toSave \cup saving) \subseteq Reached

Elements == {queue[i] : i \in 1..Len(queue)}

LEMMA PushElements ==
    ASSUME queue \in Seq(Blocks), NEW b \in Blocks, Push(b)
    PROVE  b \in Elements' /\ Elements \subseteq Elements'
<1>0. /\ Len(queue) \in Nat
      /\ \A i \in 1..Len(queue) : queue[i] \in Blocks
  BY LenProperties, ElementOfSeq
<1>1. PICK n \in 1..(Len(queue) + 1) :
          queue' = IF n <= Len(queue) /\ queue[n] = b
                   THEN queue ELSE ShiftIn(n, b)
  BY DEF Push
<1>2. CASE n <= Len(queue) /\ queue[n] = b
  <2>1. n \in 1..Len(queue) /\ queue' = queue
    BY <1>0, <1>1, <1>2
  <2> QED  BY <1>2, <2>1 DEF Elements
<1>3. CASE ~(n <= Len(queue) /\ queue[n] = b)
  <2>1. \A i \in 1..(Len(queue) + 1) :
            /\ i < n => queue'[i] = queue[i]
            /\ i = n => queue'[i] = b
            /\ i > n => queue'[i] = queue[i - 1]
    BY <1>0, <1>1, <1>3 DEF ShiftIn
  <2>2. queue' \in [1..(Len(queue) + 1) -> Blocks]
    <3>1. \A i \in 1..(Len(queue) + 1) : ShiftIn(n, b)[i] \in Blocks
      BY <1>0 DEF ShiftIn
    <3> QED  BY <1>1, <1>3, <3>1 DEF ShiftIn
  <2>3. Len(queue') = Len(queue) + 1
    BY <1>0, <2>2, IsASeq, LenProperties
  <2>4. b \in Elements'
    BY <1>0, <2>1, <2>3 DEF Elements
  <2>5. ASSUME NEW k \in 1..Len(queue) PROVE queue[k] \in Elements'
    <3>1. CASE k < n
      BY <3>1, <1>0, <2>1, <2>3 DEF Elements
    <3>2. CASE k >= n
      <4>1. k + 1 \in 1..(Len(queue) + 1) /\ k + 1 > n /\ (k + 1) - 1 = k
        BY <3>2, <1>0
      <4>2. queue'[k + 1] = queue[k]
        BY <4>1, <2>1
      <4> QED  BY <4>1, <4>2, <2>3 DEF Elements
    <3> QED  BY <3>1, <3>2, <1>0
  <2> QED  BY <2>4, <2>5 DEF Elements
<1> QED  BY <1>2, <1>3

LEMMA PopElements ==
    ASSUME queue \in Seq(Blocks), NEW b \in Blocks, Pop(b)
    PROVE  Elements \subseteq Elements' \cup {b}
<1>1. /\ Len(queue) \in Nat /\ Len(queue) >= 1 /\ b = queue[1]
      /\ Len(queue') = Len(queue) - 1
      /\ \A i \in 1..(Len(queue) - 1) : queue'[i] = queue[i + 1]
  BY HeadTailProperties, LenProperties, EmptySeq DEF Pop
<1>2. ASSUME NEW k \in 1..Len(queue) PROVE queue[k] \in Elements' \cup {b}
  <2>1. CASE k = 1
    BY <2>1, <1>1
  <2>2. CASE k # 1
    <3>1. k - 1 \in 1..(Len(queue) - 1) /\ (k - 1) + 1 = k
      BY <2>2, <1>1
    <3>2. queue'[k - 1] = queue[k]
      BY <3>1, <1>1
    <3> QED  BY <3>1, <3>2, <1>1 DEF Elements
  <2> QED  BY <2>1, <2>2
<1> QED  BY <1>2 DEF Elements

LEMMA ReachedParts ==
    Reached = headers \cup missed \cup Queued(heightsChan) \cup pushing
                \cup Elements \cup UNION {working[w] : w \in Workers}
BY DEF Reached, BlocksInMemory, Elements

(* The dispatcher and the workers pass block numbers on; none disappears.  *)
LEMMA BlocksStepKeepsReached ==
    ASSUME TypeOK, DispatcherStep \/ \E w \in Workers : WorkerStep(w)
    PROVE  Reached \subseteq Reached'
<1> USE ReachedParts DEF TypeOK, StateTypeOK, BlocksTypeOK
<1>0. Reached' = headers' \cup missed' \cup Queued(heightsChan') \cup pushing'
                    \cup Elements' \cup UNION {working'[w] : w \in Workers}
  BY DEF Reached, BlocksInMemory, Elements
<1>1. CASE ReceiveHeights
  <2>1. Queued(heightsChan) = Head(heightsChan) \cup Queued(Tail(heightsChan))
    BY <1>1, QueuedTail DEF ReceiveHeights
  <2>2. Elements' = Elements /\ UNCHANGED <<headers, missed, working>>
    BY <1>1 DEF ReceiveHeights, Elements
  <2>3. pushing = {} /\ pushing' = Head(heightsChan) /\ heightsChan' = Tail(heightsChan)
    BY <1>1 DEF ReceiveHeights
  <2> QED  BY <1>0, <2>1, <2>2, <2>3
<1>2. ASSUME NEW b \in Blocks, PushHeight(b) PROVE Reached \subseteq Reached'
  <2>1. b \in Elements' /\ Elements \subseteq Elements'
    BY <1>2, PushElements DEF PushHeight
  <2>2. pushing' = pushing \ {b} /\ UNCHANGED <<headers, missed, working, heightsChan>>
    BY <1>2 DEF PushHeight
  <2> QED  BY <1>0, <2>1, <2>2
<1>3. ASSUME NEW w \in Workers, WorkerStep(w) PROVE Reached \subseteq Reached'
  <2>1. CASE StoreHeader(w)
    <3>1. /\ headers' = headers \cup working[w]
          /\ \A v \in Workers : v # w => working'[v] = working[v]
          /\ UNCHANGED <<missed, queue, pushing, heightsChan>>
      BY <2>1 DEF StoreHeader, CreateBlockHeaders
    <3>2. Elements' = Elements
      BY <3>1 DEF Elements
    <3> QED  BY <1>0, <3>1, <3>2
  <2>2. CASE SkipBlock(w)
    <3>1. /\ missed' = missed \cup working[w]
          /\ \A v \in Workers : v # w => working'[v] = working[v]
          /\ UNCHANGED <<headers, queue, pushing, heightsChan>>
      BY <2>2 DEF SkipBlock
    <3>2. Elements' = Elements
      BY <3>1 DEF Elements
    <3> QED  BY <1>0, <3>1, <3>2
  <2>3. ASSUME NEW b \in Blocks, PopBlock(w, b) PROVE Reached \subseteq Reached'
    <3>1. Elements \subseteq Elements' \cup {b}
      BY <2>3, PopElements DEF PopBlock
    <3>2. /\ working[w] = {} /\ working'[w] = {b}
          /\ \A v \in Workers : v # w => working'[v] = working[v]
          /\ UNCHANGED <<headers, missed, pushing, heightsChan>>
      BY <2>3 DEF PopBlock
    <3>3. b \in Reached'
      BY <1>0, <3>2
    <3> QED  BY <1>0, <3>1, <3>2, <3>3
  <2> QED  BY <1>3, <2>1, <2>2, <2>3 DEF WorkerStep
<1> QED  BY <1>1, <1>2, <1>3 DEF DispatcherStep

(* A step that leaves the processor and the records alone.                 *)
LEMMA HandOverFrame ==
    ASSUME HandOver, UNCHANGED <<saved, processorVars>>,
           Reached \subseteq Reached'
    PROVE  HandOver'
BY DEF HandOver, SavedHasHeader, Reached, processorVars, BlocksOf

LEMMA HandOverProcess ==
    ASSUME TypeOK, BatchFinished, HandOver, Process
    PROVE  HandOver'
<1> USE DEF HandOver, SavedHasHeader, BlocksOf
<1>0. UNCHANGED <<headers, missed, queue, pushing, working>>
  BY DEF Process, blocksVars
<1>1. CASE ReceiveLogs
  <2>1. saved' = saved /\ heightsChan' = heightsChan /\ ppc' = "heights"
    BY <1>1 DEF ReceiveLogs
  <2>2. Reached' = Reached
    BY <1>0, <2>1 DEF Reached, BlocksInMemory
  <2>3. BlocksOf(toSave') \subseteq heights'
    BY <1>1 DEF ReceiveLogs, Parsed
  <2> QED  BY <2>1, <2>2, <2>3 DEF Reached
<1>2. CASE SendHeights
  <2>1. /\ saved' = saved /\ toSave' = toSave /\ saving' = saving
        /\ ppc = "heights" /\ ppc' # "heights"
    BY <1>2 DEF SendHeights
  <2>2. Queued(heightsChan') = Queued(heightsChan) \cup heights
    BY <1>2, QueuedAppend DEF SendHeights, TypeOK, StateTypeOK, ProcessorTypeOK
  <2>3. Reached' = Reached \cup heights
    BY <1>0, <2>2 DEF Reached, BlocksInMemory
  <2>4. saving = {}
    BY <2>1 DEF BatchFinished
  <2> QED  BY <2>1, <2>3, <2>4 DEF Reached
<1>3. CASE SaveBatchRecords \/ SaveFails \/ \E t \in Topics : SaveRecords(t)
  <2>1. ppc = "save" /\ ppc' # "heights" /\ heightsChan' = heightsChan
    BY <1>3 DEF SaveBatchRecords, SaveFails, SaveRecords, AfterSave
  <2>2. Reached' = Reached
    BY <1>0, <2>1 DEF Reached, BlocksInMemory
  <2>3. /\ toSave' \cup saving' \subseteq toSave \cup saving
        /\ saved' \subseteq saved \cup saving
    <3>1. CASE SaveBatchRecords
      BY <3>1 DEF SaveBatchRecords, InsertRecords, NextChunk
    <3>2. CASE SaveFails
      BY <3>2 DEF SaveFails
    <3>3. ASSUME NEW t \in Topics, SaveRecords(t)
          PROVE  toSave' \cup saving' \subseteq toSave \cup saving
                 /\ saved' = saved
      BY <3>3 DEF SaveRecords, OfTopic
    <3> QED  BY <1>3, <3>1, <3>2, <3>3
  <2> QED  BY <2>1, <2>2, <2>3 DEF Reached
<1> QED  BY <1>1, <1>2, <1>3 DEF Process, ProcessorStep

LEMMA HandOverInductive ==
    ASSUME TypeOK, BatchFinished, HandOver, [Next]_vars
    PROVE  HandOver'
<1>1. ASSUME NEW t \in Threads, Fetch(t) PROVE HandOver'
  <2>1. UNCHANGED <<heightsChan, saved, headers, processorVars, blocksVars, missed>>
    BY <1>1 DEF Fetch
  <2>2. Reached' = Reached
    BY <2>1 DEF Reached, BlocksInMemory, blocksVars
  <2> QED  BY <2>1, <2>2, HandOverFrame
<1>2. CASE Process
  BY <1>2, HandOverProcess
<1>3. CASE Dispatch \/ \E w \in Workers : Work(w)
  <2>1. UNCHANGED <<saved, processorVars>>
    BY <1>3 DEF Dispatch, Work
  <2>2. Reached \subseteq Reached'
    BY <1>3, BlocksStepKeepsReached DEF Dispatch, Work
  <2> QED  BY <2>1, <2>2, HandOverFrame
<1>4. CASE Grow
  <2>1. UNCHANGED <<heightsChan, saved, headers, processorVars, blocksVars, missed>>
    BY <1>4 DEF Grow, dbVars
  <2>2. Reached' = Reached
    BY <2>1 DEF Reached, BlocksInMemory, blocksVars
  <2> QED  BY <2>1, <2>2, HandOverFrame
<1>5. CASE Stop \/ Panic
  <2>1. /\ UNCHANGED <<saved, headers>> /\ ppc' = "receive"
        /\ missed' = missed \cup BlocksInMemory \cup heights
    BY <1>5 DEF Stop, Panic, Restarted, dbVars
  <2>2. Reached \subseteq Reached'
    BY <2>1 DEF Reached
  <2> QED  BY <2>1, <2>2 DEF HandOver, SavedHasHeader, Reached, BlocksOf
<1>6. CASE UNCHANGED vars
  <2>1. UNCHANGED <<heightsChan, saved, headers, processorVars, blocksVars, missed>>
    BY <1>6 DEF vars, dbVars
  <2>2. Reached' = Reached
    BY <2>1 DEF Reached, BlocksInMemory, blocksVars
  <2> QED  BY <2>1, <2>2, HandOverFrame
<1> QED  BY <1>1, <1>2, <1>3, <1>4, <1>5, <1>6 DEF Next

(* No event is stored whose block was never handed to fetchBlocks, for any *)
(* interleaving of the processor, the dispatcher and the workers, and      *)
(* across stops and panics: the header is stored, on its way, or given up. *)
THEOREM HeadersFollowEvents == Spec => []SavedHasHeader
<1>1. Init => TypeOK /\ BatchFinished /\ HandOver
  <2>1. Init => HandOver
    BY DEF Init, StateInit, ProcessorInit, HandOver, SavedHasHeader, BlocksOf
  <2> QED  BY <2>1, TypeInit, PipelineInit
<1>2. TypeOK /\ BatchFinished /\ HandOver /\ [Next]_vars
        => TypeOK' /\ BatchFinished' /\ HandOver'
  BY TypeInductive, BatchFinishedInductive, HandOverInductive
<1>3. HandOver => SavedHasHeader
  BY DEF HandOver
<1> QED  BY <1>1, <1>2, <1>3, PTL DEF Spec

-----------------------------------------------------------------------------
(* Every head a goroutine has read, and the end of every window, is a      *)
(* block that exists.                                                      *)
WithinChain ==
    /\ CheckpointWithinChain
    /\ qto <= head
    /\ \A t \in Threads : cur[t] <= head

LEMMA ReadHeadBound ==
    ASSUME TypeOK, WithinChain, NEW n \in Blocks, BlockNumber(n) \/ HeadForTick(n)
    PROVE  n <= head
<1>1. n \in Nat /\ head \in Nat
  BY ConstantFacts, FetcherNumbers
<1>2. cur["realtime"] <= head
  BY DEF WithinChain, Threads
<1> QED  BY <1>1, <1>2 DEF BlockNumber, HeadForTick

LEMMA WithinChainFetch ==
    ASSUME TypeOK, WithinChain, NEW t \in Threads, FetchStep(t), head' = head
    PROVE  WithinChain'
<1> USE DEF WithinChain, CheckpointWithinChain
<1>1. CASE SetTo(t)
  <2>1. /\ head \in Nat /\ from[t] \in Nat /\ range[t] \in Nat
        /\ cur[t] \in Nat /\ cur[t] <= head
    BY FetcherNumbers
  <2>2. qto' = RangeEnd(from[t], range[t], cur[t])
    BY <1>1 DEF SetTo
  <2>3. qto' \in Nat /\ qto' <= cur[t]
    BY <2>1, <2>2, RangeEndBound
  <2>4. qto' <= head'
    BY <2>1, <2>3
  <2> QED  BY <1>1, <2>4 DEF SetTo, shared
<1>2. CASE UNCHANGED <<qto, cur, ckpt>>
  BY <1>2
<1> QED  BY <1>1, <1>2 DEF FetchStep, SetFrom, CopyFrom, FilterLogs,
            FilterRangeError, FilterError, SendLogs, Advance, shared, query

LEMMA WithinChainInductive ==
    ASSUME TypeOK, WithinChain, [Next]_vars
    PROVE  WithinChain'
<1> USE DEF WithinChain, CheckpointWithinChain
<1>0. /\ head \in Nat /\ ckpt \in Nat /\ qto \in Nat
      /\ \A t \in Threads : cur[t] \in Nat
  BY FetcherNumbers
<1>1. ASSUME NEW t \in Threads, Fetch(t) PROVE WithinChain'
  <2>0. head' = head /\ (RecoverStep \/ RealtimeStep)
    BY <1>1 DEF Fetch
  <2>1. ASSUME NEW u \in Threads, FetchStep(u) PROVE WithinChain'
    BY <2>0, <2>1, WithinChainFetch
  <2>2. CASE RecoverLogs \/ FinishRecovery
    BY <2>0, <2>2 DEF RecoverLogs, FinishRecovery, shared, query
  <2>3. CASE StoreCheckpoint
    BY <2>0, <2>3 DEF StoreCheckpoint, UpdateLatestFetchedBlock, query
  <2>4. CASE LoopFetchLogs
    <3>1. PICK n \in Blocks : /\ BlockNumber(n)
                              /\ cur' = [cur EXCEPT !["recover"] = n]
      BY <2>4 DEF LoopFetchLogs
    <3>2. n <= head
      BY <3>1, ReadHeadBound
    <3> QED  BY <2>0, <2>4, <3>1, <3>2 DEF LoopFetchLogs, query, TypeOK, FetcherTypeOK
  <2>5. CASE FetchRealtimeLogs \/ RealtimeFetch \/ RealtimeSkip
    <3>1. PICK n \in Blocks : /\ BlockNumber(n) \/ HeadForTick(n)
                              /\ cur' = [cur EXCEPT !["realtime"] = n]
      BY <2>5 DEF FetchRealtimeLogs, RealtimeFetch, RealtimeSkip
    <3>2. n <= head
      BY <3>1, ReadHeadBound
    <3>3. ckpt' = ckpt /\ qto' = qto
      BY <2>5 DEF FetchRealtimeLogs, RealtimeFetch, RealtimeSkip, query
    <3> QED  BY <2>0, <3>1, <3>2, <3>3 DEF TypeOK, FetcherTypeOK
  <2>6. CASE FinishRealtime
    BY <2>0, <2>6 DEF FinishRealtime, query
  <2> QED  BY <2>0, <2>1, <2>2, <2>3, <2>4, <2>5, <2>6
           DEF RecoverStep, RealtimeStep, Threads
<1>2. CASE Process \/ Dispatch \/ \E w \in Workers : Work(w)
  BY <1>2 DEF Process, Dispatch, Work, fetcherVars
<1>3. CASE Grow
  BY <1>0, <1>3 DEF Grow, NewBlock, dbVars, fetcherVars
<1>4. CASE Stop \/ Panic
  <2>1. Restarted
    BY <1>4 DEF Stop, Panic
  <2> QED  BY <1>0, <2>1 DEF Restarted, chainVars, dbVars, Zero
<1>5. CASE UNCHANGED vars
  BY <1>5 DEF vars, chainVars, dbVars, fetcherVars
<1> QED  BY <1>1, <1>2, <1>3, <1>4, <1>5 DEF Next

(* The checkpoint never passes the newest block of the chain, even when    *)
(* recoverLogs stores an end that fetchRealtimeLogs wrote into the shared  *)
(* query, and whatever a failed BlockNumber call returned.                 *)
THEOREM CheckpointInChain == Spec => []CheckpointWithinChain
<1>1. Init => TypeOK /\ WithinChain
  <2>1. Init => WithinChain
    BY ConstantFacts DEF Init, StateInit, FetcherInit, Zero, WithinChain,
       CheckpointWithinChain
  <2> QED  BY <2>1, TypeInit
<1>2. TypeOK /\ WithinChain /\ [Next]_vars => TypeOK' /\ WithinChain'
  BY TypeInductive, WithinChainInductive
<1>3. WithinChain => CheckpointWithinChain
  BY DEF WithinChain
<1> QED  BY <1>1, <1>2, <1>3, PTL DEF Spec

-----------------------------------------------------------------------------
(* SaveRecords takes the records of one topic at a time.                   *)
OneTopic == \A l, m \in saving : TopicOf[l] = TopicOf[m]

LEMMA PoisonProcess ==
    ASSUME TypeOK, OneTopic, PoisonInTopic, Process
    PROVE  OneTopic' /\ PoisonInTopic'
<1> USE DEF OneTopic, PoisonInTopic
<1>0. faults' = 0 => faults = 0
  <2>1. faults \in Nat
    BY ConstantFacts DEF TypeOK, StateTypeOK
  <2> QED  BY <2>1 DEF Process, ProcessorStep, ReceiveLogs, SendHeights,
              SaveRecords, SaveBatchRecords, SaveFails, Fault, NoFault
<1>1. CASE ReceiveLogs
  <2>1. Head(logsChan) \subseteq Logs
    BY <1>1, HeadTailProperties DEF ReceiveLogs, TypeOK, StateTypeOK
  <2>2. \A l \in Head(logsChan) \ Parsed(Head(logsChan)) : KindOf[l] = "bad"
    BY DEF Parsed
  <2> QED  BY <1>0, <1>1, <2>1, <2>2 DEF ReceiveLogs
<1>2. CASE SendHeights
  BY <1>2 DEF SendHeights
<1>3. CASE SaveBatchRecords
  <2>1. saving' \subseteq saving /\ UNCHANGED <<dropped, faults>>
    BY <1>3 DEF SaveBatchRecords
  <2> QED  BY <2>1
<1>4. CASE SaveFails
  <2>1. saving' = {} /\ dropped' = dropped \cup saving
    BY <1>4 DEF SaveFails
  <2>2. ASSUME faults' = 0, NEW l \in saving
        PROVE  \E m \in Logs : TopicOf[m] = TopicOf[l] /\ KindOf[m] \in {"bad", "nil"}
    <3>1. Rejected(NextChunk)
      <4>1. faults \in Nat
        BY ConstantFacts DEF TypeOK, StateTypeOK
      <4> QED  BY <1>4, <2>2, <4>1 DEF SaveFails, Fault
    <3>2. PICK m \in saving : KindOf[m] = "nil"
      BY <3>1 DEF Rejected, NextChunk
    <3> QED  BY <2>2, <3>2 DEF TypeOK, ProcessorTypeOK
  <2> QED  BY <1>0, <2>1, <2>2
<1>5. ASSUME NEW t \in Topics, SaveRecords(t) PROVE OneTopic' /\ PoisonInTopic'
  BY <1>5 DEF SaveRecords, OfTopic
<1> QED  BY <1>1, <1>2, <1>3, <1>4, <1>5 DEF Process, ProcessorStep

(* Faults are counted, never forgotten.                                    *)
LEMMA FaultsKept ==
    ASSUME TypeOK, [Next]_vars, faults' = 0
    PROVE  faults = 0
<1>0. faults \in Nat
  BY ConstantFacts DEF TypeOK, StateTypeOK
<1>1. Fault \/ NoFault
  <2>1. ASSUME NEW t \in Threads, Fetch(t) PROVE Fault \/ NoFault
    BY <2>1 DEF Fetch, RecoverStep, RealtimeStep, FetchStep, RecoverLogs,
       GetLatestFetchedBlock, SetFrom, SetTo, CopyFrom, FilterLogs,
       FilterRangeError, FilterError, SendLogs, Advance, StoreCheckpoint,
       UpdateLatestFetchedBlock, FinishRecovery, LoopFetchLogs, BlockNumber,
       FetchRealtimeLogs, RealtimeFetch, RealtimeSkip, HeadForTick,
       FinishRealtime, NoFault, shared
  <2>2. CASE Process
    BY <2>2 DEF Process, ProcessorStep, ReceiveLogs, SendHeights, SaveRecords,
       SaveBatchRecords, SaveFails, NoFault
  <2>3. CASE Dispatch \/ \E w \in Workers : Work(w)
    BY <2>3 DEF Dispatch, DispatcherStep, ReceiveHeights, PushHeight, Work,
       WorkerStep, StoreHeader, SkipBlock, PopBlock, NoFault
  <2>4. CASE Grow \/ Stop \/ Panic \/ UNCHANGED vars
    BY <2>4 DEF Grow, Stop, Panic, Restarted, vars, chainVars, NoFault
  <2> QED  BY <2>1, <2>2, <2>3, <2>4 DEF Next
<1> QED  BY <1>0, <1>1 DEF Fault, NoFault

LEMMA PoisonInductive ==
    ASSUME TypeOK, OneTopic, PoisonInTopic, [Next]_vars
    PROVE  OneTopic' /\ PoisonInTopic'
<1>1. CASE Process
  BY <1>1, PoisonProcess
<1>2. CASE Stop \/ Panic
  BY <1>2 DEF Stop, Panic, Restarted, chainVars, OneTopic, PoisonInTopic
<1>3. CASE UNCHANGED <<saving, dropped>>
  BY <1>3, FaultsKept DEF OneTopic, PoisonInTopic
<1> QED  BY <1>1, <1>2, <1>3 DEF Next, Fetch, Dispatch, Work, Grow, vars,
            historyVars, processorVars

(* The panic finds its log in the channel, or its block in a worker, and   *)
(* both are in memory when the process dies.                               *)
LEMMA PanicLoses ==
    ASSUME TypeOK, Panic
    PROVE  (\E m \in lost' : KindOf[m] = "panic") \/ missed' \cap NoBeacon # {}
<1>1. lost' = lost \cup InMemory /\ missed' = missed \cup BlocksInMemory \cup heights
  BY DEF Panic, Restarted
<1>2. CASE ParsePanics
  <2>1. PICK l \in Head(logsChan) : KindOf[l] = "panic"
    BY <1>2 DEF ParsePanics
  <2>2. Len(logsChan) \in Nat /\ 1 <= Len(logsChan) /\ Head(logsChan) = logsChan[1]
    BY <1>2 DEF ParsePanics, TypeOK, StateTypeOK
  <2>3. 1 \in 1..Len(logsChan)
    BY <2>2
  <2>4. l \in Queued(logsChan)
    BY <2>1, <2>2, <2>3 DEF Queued
  <2> QED  BY <1>1, <2>1, <2>4 DEF InMemory
<1>3. CASE \E w \in Workers : Panics(w)
  BY <1>1, <1>3 DEF Panics, BlocksInMemory
<1> QED  BY <1>2, <1>3 DEF Panic

LEMMA LostInductive ==
    ASSUME TypeOK, LostWithPoison, [Next]_vars
    PROVE  LostWithPoison'
<1> USE DEF LostWithPoison
<1>1. CASE Panic
  BY <1>1, PanicLoses
<1>2. CASE Stop
  <2>1. stops' = stops + 1 /\ stops \in Nat
    BY <1>2, MaxStopsAssumption DEF Stop, TypeOK
  <2>2. stops' # 0
    BY <2>1
  <2> QED  BY <2>2
<1>3. CASE UNCHANGED <<stops, lost>> /\ missed \subseteq missed'
  BY <1>3
<1>4. ASSUME ~Panic, ~Stop
      PROVE  UNCHANGED <<stops, lost>> /\ missed \subseteq missed'
  <2>1. CASE Dispatch \/ \E w \in Workers : Work(w)
    BY <2>1 DEF Dispatch, DispatcherStep, ReceiveHeights, PushHeight, Work,
       WorkerStep, StoreHeader, SkipBlock, PopBlock, historyVars
  <2>2. CASE ~(Dispatch \/ \E w \in Workers : Work(w))
    BY <1>4, <2>2 DEF Next, Fetch, Process, Grow, vars, historyVars
  <2> QED  BY <2>1, <2>2
<1> QED  BY <1>1, <1>2, <1>3, <1>4

(* While no call fails, an event a converter rejects takes with it records *)
(* of its own topic only, however the logs are batched and chunked; and    *)
(* while the process is not stopped, logs in memory are lost only with an  *)
(* event or a block that makes the code panic.                             *)
THEOREM PoisonStaysInTopic == Spec => []PoisonContained
<1> DEFINE Inv == TypeOK /\ OneTopic /\ PoisonInTopic /\ LostWithPoison
<1>1. Init => Inv
  <2>1. Init => OneTopic /\ PoisonInTopic /\ LostWithPoison
    BY DEF Init, StateInit, ProcessorInit, OneTopic, PoisonInTopic, LostWithPoison
  <2> QED  BY <2>1, TypeInit
<1>2. Inv /\ [Next]_vars => Inv'
  BY TypeInductive, PoisonInductive, LostInductive
<1>3. Inv => PoisonContained
  BY DEF PoisonContained
<1> QED  BY <1>1, <1>2, <1>3, PTL DEF Spec

-----------------------------------------------------------------------------
(* While no call has failed, the window recoverLogs works on lies above    *)
(* the checkpoint, and once the query is set it ends at or above it.       *)
WindowAhead ==
    faults = 0 =>
        /\ pc["recover"] \in FetchStates \ {"advance"} =>
                /\ ckpt < from["recover"]
                /\ from["recover"] <= cur["recover"]
        /\ pc["recover"] \in {"copyFrom", "call", "send", "store", "advance"} =>
                ckpt <= qto

LEMMA ResumeAhead ==
    ASSUME NEW last \in Nat
    PROVE  ResumeAt(last) \in Nat /\ last < ResumeAt(last)
BY RangeAssumption DEF ResumeAt

LEMMA WindowAheadFetch ==
    ASSUME TypeOK, PipelineInv, WindowAhead, faults = 0,
           NEW t \in Threads, FetchStep(t)
    PROVE  WindowAhead' /\ ckpt' = ckpt
<1> USE DEF WindowAhead, FetchStates, TypeOK, FetcherTypeOK, Threads
<1>0. /\ ckpt \in Nat /\ qto \in Nat /\ from[t] \in Nat /\ cur[t] \in Nat
      /\ range[t] \in Nat
  BY FetcherNumbers
<1>1. ckpt' = ckpt /\ cur' = cur
  BY DEF FetchStep, SetFrom, SetTo, CopyFrom, FilterLogs, FilterRangeError,
         FilterError, SendLogs, Advance, shared
<1>2. CASE t = "realtime"
  <2>1. pc[t] \in FetchStates
    BY DEF FetchStep, SetFrom, SetTo, CopyFrom, FilterLogs, FilterRangeError,
           FilterError, SendLogs, Advance
  <2>2. pc["recover"] = "done"
    BY <1>2, <2>1 DEF PipelineInv, Fetching
  <2>3. pc'["recover"] = "done"
    BY <1>2, <2>2 DEF FetchStep, SetFrom, SetTo, CopyFrom, FilterLogs,
           FilterRangeError, FilterError, SendLogs, Advance
  <2> QED  BY <1>1, <2>3
<1>3. CASE t = "recover"
  <2>1. CASE SetFrom(t)
    BY <1>1, <1>3, <2>1 DEF SetFrom
  <2>2. CASE SetTo(t)
    <3>1. ckpt < from[t] /\ from[t] <= cur[t]
      BY <1>3, <2>2 DEF SetTo
    <3>2. qto' = RangeEnd(from[t], range[t], cur[t])
      BY <2>2 DEF SetTo
    <3>3. qto' \in Nat /\ (qto' + 1 >= from[t] \/ qto' = cur[t])
      <4>1. /\ RangeEnd(from[t], range[t], cur[t]) \in Nat
            /\ from[t] > 0 =>
                  \/ RangeEnd(from[t], range[t], cur[t]) + 1 >= from[t]
                  \/ RangeEnd(from[t], range[t], cur[t]) = cur[t]
        BY <1>0, RangeEndBound
      <4>2. from[t] > 0
        BY <1>0, <3>1
      <4> QED  BY <3>2, <4>1, <4>2
    <3>4. ckpt <= qto'
      BY <1>0, <3>1, <3>3
    <3>5. from' = from /\ pc'[t] \in {"copyFrom", "setFrom"}
      BY <2>2 DEF SetTo
    <3> QED  BY <1>1, <1>3, <3>1, <3>4, <3>5
  <2>3. CASE CopyFrom(t)
    BY <1>1, <1>3, <2>3 DEF CopyFrom, query
  <2>4. CASE FilterLogs(t)
    BY <1>1, <1>3, <2>4 DEF FilterLogs, query, AfterSend
  <2>5. CASE FilterRangeError(t) \/ FilterError(t)
    BY <1>1, <1>3, <2>5 DEF FilterRangeError, FilterError, query
  <2>6. CASE SendLogs(t)
    BY <1>1, <1>3, <2>6 DEF SendLogs, query, AfterSend
  <2>7. CASE Advance(t)
    <3>1. ckpt <= qto
      BY <1>3, <2>7 DEF Advance
    <3>2. /\ from'[t] = qto + 1 /\ qto + 1 <= cur[t] /\ qto' = qto
          /\ pc'[t] = "setFrom"
      BY <2>7 DEF Advance, query
    <3> QED  BY <1>0, <1>1, <1>3, <3>1, <3>2
  <2> QED  BY <2>1, <2>2, <2>3, <2>4, <2>5, <2>6, <2>7 DEF FetchStep
<1> QED  BY <1>2, <1>3

(* The other steps of the fetchers.                                        *)
LEMMA WindowAheadLoops ==
    ASSUME ~Overlap, TypeOK, PipelineInv, WindowAhead, faults = 0,
           RecoverStep \/ RealtimeStep,
           ~FetchStep("recover"), ~FetchStep("realtime")
    PROVE  WindowAhead' /\ ckpt' >= ckpt
<1> USE DEF WindowAhead, FetchStates, TypeOK, FetcherTypeOK, Threads
<1>0. /\ ckpt \in Nat /\ qto \in Nat /\ cur["recover"] \in Nat
      /\ from["recover"] \in Nat
  BY FetcherNumbers
<1>1. CASE RecoverLogs
  <2>1. PICK last \in {ckpt, 0} :
            /\ (last = ckpt /\ NoFault) \/ (last = 0 /\ Fault)
            /\ from' = [from EXCEPT !["recover"] = ResumeAt(last)]
            /\ pc' = [pc EXCEPT !["recover"] =
                  IF ResumeAt(last) <= cur["recover"] THEN "setFrom" ELSE "done"]
    BY <1>1 DEF RecoverLogs, GetLatestFetchedBlock
  <2>2. UNCHANGED <<cur, ckpt>>
    BY <1>1 DEF RecoverLogs
  <2>3. faults' = 0 => last = ckpt
    BY <2>1 DEF Fault
  <2>4. ckpt < ResumeAt(ckpt)
    BY <1>0, ResumeAhead
  <2>5. /\ from'["recover"] = ResumeAt(last)
        /\ pc'["recover"] \in {"setFrom", "done"}
        /\ pc'["recover"] = "setFrom" => ResumeAt(last) <= cur["recover"]
    BY <2>1
  <2> QED  BY <1>0, <2>2, <2>3, <2>4, <2>5
<1>2. CASE StoreCheckpoint
  <2>1. ckpt <= qto
    BY <1>2 DEF StoreCheckpoint
  <2>2. ckpt' = qto \/ ckpt' = ckpt
    BY <1>2 DEF StoreCheckpoint, UpdateLatestFetchedBlock
  <2>3. pc'["recover"] = "advance" /\ qto' = qto
    BY <1>2 DEF StoreCheckpoint, query
  <2> QED  BY <1>0, <2>1, <2>2, <2>3
<1>3. CASE FinishRecovery
  <2>1. pc'["recover"] = "done" /\ ckpt' = ckpt
    BY <1>3 DEF FinishRecovery, shared
  <2> QED  BY <1>0, <2>1
<1>4. CASE LoopFetchLogs
  <2>1. pc'["recover"] = "init" /\ ckpt' = ckpt
    BY <1>4 DEF LoopFetchLogs, At
  <2> QED  BY <1>0, <2>1
<1>5. CASE FetchRealtimeLogs \/ RealtimeFetch \/ RealtimeSkip \/ FinishRealtime
  <2>1. /\ pc'["recover"] = pc["recover"] /\ from'["recover"] = from["recover"]
        /\ cur'["recover"] = cur["recover"] /\ UNCHANGED <<ckpt, qto>>
    BY <1>5 DEF FetchRealtimeLogs, RealtimeFetch, RealtimeSkip, FinishRealtime,
                query
  <2> QED  BY <1>0, <2>1
<1> QED  BY <1>1, <1>2, <1>3, <1>4, <1>5 DEF RecoverStep, RealtimeStep

LEMMA WindowAheadStep ==
    ASSUME ~Overlap, TypeOK, PipelineInv, WindowAhead, [Next]_vars
    PROVE  WindowAhead' /\ [faults = 0 => ckpt' >= ckpt]_vars
<1>0. faults \in Nat /\ ckpt \in Nat
  BY ConstantFacts, FetcherNumbers DEF TypeOK, StateTypeOK
<1>1. faults' = 0 => faults = 0
  BY <1>0, FaultsKept
<1>2. CASE faults # 0
  BY <1>1, <1>2 DEF WindowAhead
<1>3. ASSUME faults = 0, NEW t \in Threads, Fetch(t)
      PROVE  WindowAhead' /\ ckpt' >= ckpt
  <2>1. RecoverStep \/ RealtimeStep
    BY <1>3 DEF Fetch
  <2>2. ASSUME NEW u \in Threads, FetchStep(u)
        PROVE  WindowAhead' /\ ckpt' >= ckpt
    <3>1. WindowAhead' /\ ckpt' = ckpt
      BY <1>3, <2>2, WindowAheadFetch
    <3> QED  BY <1>0, <3>1
  <2> QED  BY <1>3, <2>1, <2>2, WindowAheadLoops DEF Threads
<1>4. CASE UNCHANGED <<fetcherVars, ckpt>>
  BY <1>0, <1>1, <1>4 DEF WindowAhead, fetcherVars
<1>5. CASE Process \/ Dispatch \/ (\E w \in Workers : Work(w)) \/ Grow \/ UNCHANGED vars
  BY <1>4, <1>5 DEF Process, Dispatch, Work, Grow, vars, dbVars
<1>6. CASE Stop \/ Panic
  <2>1. Restarted
    BY <1>6 DEF Stop, Panic
  <2>2. pc'["recover"] = "off" /\ ckpt' = ckpt
    BY <2>1 DEF Restarted, InitPc, At, Threads, dbVars
  <2> QED  BY <1>0, <2>2 DEF WindowAhead, FetchStates
<1> QED  BY <1>2, <1>3, <1>4, <1>5, <1>6 DEF Next

(* While no call has failed and the fetchers do not overlap, the stored    *)
(* checkpoint never moves back, within a run and across restarts.          *)
THEOREM CheckpointNeverMovesBack ==
    ASSUME ~Overlap
    PROVE  Spec => CheckpointForward
<1>1. Init => WindowAhead
  BY DEF Init, FetcherInit, InitPc, At, Threads, WindowAhead, FetchStates
<1>2. TypeOK /\ PipelineInv /\ WindowAhead /\ [Next]_vars
        => WindowAhead' /\ [faults = 0 => ckpt' >= ckpt]_vars
  BY WindowAheadStep
<1> QED  BY <1>1, <1>2, TypeCorrect, PipelineInvariant, PTL
         DEF Spec, CheckpointForward
=============================================================================
