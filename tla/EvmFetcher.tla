----------------------------- MODULE EvmFetcher -----------------------------
(***************************************************************************)
(* The two goroutines of EvmClient.LoopFetchLogs (pkg/evm/client.go) that  *)
(* read logs from the node: recoverLogs ("recover") fetches from the       *)
(* checkpoint up to the head seen at start and advances the checkpoint;    *)
(* fetchRealtimeLogs ("realtime") fetches from that head on, one interval  *)
(* after the other, and never touches the checkpoint.  Both run the loop   *)
(* of FetchRangeLogs (pkg/evm/fetcher.go) on the SAME FilterQuery, which   *)
(* no lock protects: each read and each write of its two words is a step.  *)
(***************************************************************************)
EXTENDS EvmState

CONSTANTS
    StartBlock,        \* EvmConfig.StartBlock
    RecoverRange,      \* EvmConfig.RecoverRange
    MaxRecoverRange,   \* 1000000, the default window of recoverLogs
    MaxRealtimeRange,  \* 1000, the largest window of fetchRealtimeLogs
    NodeLimit,         \* the widest eth_getLogs range the node answers
    MaxUint64,         \* 2^64 - 1: fromBlock + range - 1 wraps to it
    Overlap            \* may realtime fetch while recovery is running?

ASSUME RangeAssumption ==
    /\ StartBlock \in Nat
    /\ RecoverRange \in Nat
    /\ MaxRecoverRange \in Nat \ {0}
    /\ MaxRealtimeRange \in Nat \ {0}
    /\ NodeLimit \in Nat \ {0}
ASSUME MaxUint64Assumption == MaxUint64 \in Nat /\ MaxUint64 >= MaxHead
ASSUME OverlapAssumption == Overlap \in BOOLEAN

Threads == {"recover", "realtime"}

VARIABLES
    pc,      \* where each goroutine is
    from,    \* fromBlock
    cur,     \* currentBlockNumber
    range,   \* recoverRange, fetchRange
    qfrom,   \* query.FromBlock, shared
    qto,     \* query.ToBlock, shared
    cfrom,   \* FromBlock in the copy of the query given to FilterLogs
    got,     \* the logs of the last answer, until they are in logsChan
    due      \* has the fetch interval elapsed since lastExecutionTime?

fetcherVars == <<pc, from, cur, range, qfrom, qto, cfrom, got, due>>
query == <<qfrom, qto>>
shared == <<faults, logsChan, ckpt>>   \* what these goroutines may change

FetchStates == {"setFrom", "setTo", "copyFrom", "call", "resetFrom",
                "resetTo", "send", "store", "advance"}
Fetching(t) == pc[t] \in FetchStates

At(r, s) == [t \in Threads |-> IF t = "recover" THEN r ELSE s]
InitPc == At("off", "start")
Zero == [t \in Threads |-> 0]
NoLogs == [t \in Threads |-> {}]

FetcherTypeOK ==
    /\ pc \in [Threads -> FetchStates \cup
                    {"off", "init", "done", "start", "enter", "tick"}]
    /\ from \in [Threads -> Nat] /\ range \in [Threads -> Nat]
    /\ cur \in [Threads -> Blocks] /\ cfrom \in [Threads -> Nat]
    /\ qfrom \in Nat /\ qto \in Blocks
    /\ got \in [Threads -> SUBSET Logs]
    /\ due \in BOOLEAN

FetcherInit ==
    /\ pc = InitPc
    /\ from = Zero /\ cur = Zero /\ range = Zero /\ cfrom = Zero
    /\ qfrom = 0 /\ qto = 0
    /\ got = NoLogs
    /\ due = FALSE

-----------------------------------------------------------------------------
(* External: eth_blockNumber.  On an error the client library returns 0,   *)
(* which the callers use as it is; a node that is behind returns less than *)
(* the head.                                                               *)
BlockNumber(n) ==
    \/ n = head /\ NoFault
    \/ n \in 0..head /\ Fault

(* LoopFetchLogs: one BlockNumber for both goroutines.                     *)
LoopFetchLogs ==
    /\ pc["realtime"] = "start"
    /\ \E n \in Blocks :
        /\ BlockNumber(n)
        /\ pc' = At("init", "enter")
        /\ cur' = [cur EXCEPT !["recover"] = n]
        /\ from' = [from EXCEPT !["realtime"] = n]
    /\ UNCHANGED <<range, query, cfrom, got, due, logsChan, ckpt>>

-----------------------------------------------------------------------------
(* Deviations used to test the properties: the resumed window starts one   *)
(* block late; or it always starts at the configured block.                *)
MutResumeLate(last) == IF last < StartBlock THEN StartBlock ELSE last + 2
MutResumeConfig(last) == IF StartBlock > 0 THEN StartBlock ELSE last + 1

(* recoverLogs: where to resume.                                           *)
ResumeAt(last) ==
    LET first == IF last > 0 THEN last + 1 ELSE 0
    IN  IF first < StartBlock THEN StartBlock ELSE last + 1

RecoveryWindow == IF 0 < RecoverRange /\ RecoverRange < MaxRecoverRange
                  THEN RecoverRange ELSE MaxRecoverRange

RecoverLogs ==
    /\ pc["recover"] = "init"
    /\ \E last \in {ckpt, 0} :
        /\ GetLatestFetchedBlock(last)
        /\ from' = [from EXCEPT !["recover"] = ResumeAt(last)]
        /\ pc' = [pc EXCEPT !["recover"] =
                    IF ResumeAt(last) <= cur["recover"] THEN "setFrom" ELSE "done"]
    /\ range' = [range EXCEPT !["recover"] = RecoveryWindow]
    /\ UNCHANGED <<cur, query, cfrom, got, due, logsChan, ckpt>>

-----------------------------------------------------------------------------
(* fetchRealtimeLogs.  Entering it reads the head a second time; then each *)
(* turn of its loop sleeps until the interval has elapsed, unless it is    *)
(* over already or a whole window is waiting, and reads the head again     *)
(* only if it slept.  lastExecutionTime moves only when a fetch starts.    *)
RealtimeWindow == IF 0 < RecoverRange /\ RecoverRange < MaxRealtimeRange
                  THEN RecoverRange ELSE MaxRealtimeRange

FetchRealtimeLogs ==
    /\ pc["realtime"] = "enter"
    /\ \E n \in Blocks :
        BlockNumber(n) /\ cur' = [cur EXCEPT !["realtime"] = n]
    /\ range' = [range EXCEPT !["realtime"] = RealtimeWindow]
    /\ pc' = [pc EXCEPT !["realtime"] = "tick"]
    /\ due' = FALSE
    /\ UNCHANGED <<from, query, cfrom, got, logsChan, ckpt>>

(* calculateSleepTime > 0 *)
Sleeps ==
    /\ from["realtime"] + range["realtime"] > cur["realtime"]
    /\ ~due

HeadForTick(n) ==
    IF Sleeps THEN BlockNumber(n) ELSE n = cur["realtime"] /\ NoFault

(* Overlap = FALSE is the timing under which the recovery of the backlog   *)
(* ends before the first interval does (a minute at least).                *)
RealtimeFetch ==
    /\ pc["realtime"] = "tick"
    /\ Overlap \/ pc["recover"] = "done"
    /\ \E n \in Blocks :
        /\ HeadForTick(n)
        /\ from["realtime"] <= n
        /\ cur' = [cur EXCEPT !["realtime"] = n]
    /\ pc' = [pc EXCEPT !["realtime"] = "setFrom"]
    /\ due' = FALSE
    /\ UNCHANGED <<from, range, query, cfrom, got, logsChan, ckpt>>

RealtimeSkip ==
    /\ pc["realtime"] = "tick"
    /\ \E n \in Blocks :
        /\ HeadForTick(n)
        /\ from["realtime"] > n
        /\ cur' = [cur EXCEPT !["realtime"] = n]
        /\ from' = [from EXCEPT !["realtime"] = n + 1]
    /\ due' = (due \/ Sleeps)
    /\ UNCHANGED <<pc, range, query, cfrom, got, logsChan, ckpt>>
-----------------------------------------------------------------------------
(* Deviation used to test the properties: the window is not cut at the     *)
(* current block.                                                          *)
MutRangeEnd(f, r, c) == IF f + r = 0 THEN c ELSE (f + r) - 1

(* FetchRangeLogs, for either goroutine t.  setQueryRange writes the two   *)
(* words of the shared query; with a range of 0 the end is one below the   *)
(* start, and wraps around when the start is 0.                            *)
RangeEnd(f, r, c) ==
    LET end == IF f + r = 0 THEN MaxUint64 ELSE (f + r) - 1
    IN  IF end > c THEN c ELSE end

SetFrom(t) ==
    /\ pc[t] \in {"setFrom", "resetFrom"}
    /\ qfrom' = from[t]
    /\ pc' = [pc EXCEPT ![t] = IF @ = "setFrom" THEN "setTo" ELSE "resetTo"]
    /\ UNCHANGED <<from, cur, range, qto, cfrom, got, due, shared>>

SetTo(t) ==
    /\ pc[t] \in {"setTo", "resetTo"}
    /\ qto' = RangeEnd(from[t], range[t], cur[t])
    /\ pc' = [pc EXCEPT ![t] = IF @ = "setTo" THEN "copyFrom" ELSE "setFrom"]
    /\ UNCHANGED <<from, cur, range, qfrom, cfrom, got, due, shared>>

(* FilterLogs takes a copy of the query: FromBlock, then ToBlock and the   *)
(* answer to the call.                                                     *)
CopyFrom(t) ==
    /\ pc[t] = "copyFrom"
    /\ cfrom' = [cfrom EXCEPT ![t] = qfrom]
    /\ pc' = [pc EXCEPT ![t] = "call"]
    /\ UNCHANGED <<from, cur, range, query, got, due, shared>>

AfterSend(t) == IF t = "recover" THEN "store" ELSE "advance"

(* External: eth_getLogs answers with the logs of the range.               *)
Answer(t) == {l \in InBlocks(cfrom[t], qto) : BlockOf[l] <= head}

FilterLogs(t) ==
    /\ pc[t] = "call"
    /\ qto + 1 <= cfrom[t] + NodeLimit
    /\ got' = [got EXCEPT ![t] = Answer(t)]
    /\ pc' = [pc EXCEPT ![t] = IF Answer(t) = {} THEN AfterSend(t) ELSE "send"]
    /\ UNCHANGED <<from, cur, range, query, cfrom, due, shared>>

(* Deviation used to test the properties: the limit is not applied.        *)
MutFilterRangeError(t) ==
    /\ pc[t] = "call"
    /\ qto + 1 > cfrom[t] + NodeLimit
    /\ pc' = [pc EXCEPT ![t] = "resetFrom"]
    /\ UNCHANGED <<from, cur, range, query, cfrom, got, due, shared>>

(* The node refuses the width and names its limit: extractRecoverRange     *)
(* finds it, the query is set again, and the loop continues.               *)
FilterRangeError(t) ==
    /\ pc[t] = "call"
    /\ qto + 1 > cfrom[t] + NodeLimit
    /\ range' = [range EXCEPT ![t] = NodeLimit]
    /\ pc' = [pc EXCEPT ![t] = "resetFrom"]
    /\ UNCHANGED <<from, cur, query, cfrom, got, due, shared>>

(* Any other error: extractRecoverRange finds no limit and returns 0,      *)
(* which becomes the range.  A node may also refuse an inverted range      *)
(* (or answer it with no logs, as FilterLogs does).                        *)
FilterError(t) ==
    /\ pc[t] = "call"
    /\ Fault \/ (cfrom[t] > qto /\ NoFault)
    /\ range' = [range EXCEPT ![t] = 0]
    /\ pc' = [pc EXCEPT ![t] = "setFrom"]
    /\ UNCHANGED <<from, cur, query, cfrom, got, due, logsChan, ckpt>>

(* Deviations used to test the properties: the send does not wait for      *)
(* room; or it drops the batch when there is none.                         *)
MutSendAnyway(t) ==
    /\ pc[t] = "send"
    /\ logsChan' = Append(logsChan, got[t])
    /\ got' = [got EXCEPT ![t] = {}]
    /\ pc' = [pc EXCEPT ![t] = AfterSend(t)]
    /\ UNCHANGED <<from, cur, range, query, cfrom, due, faults, ckpt>>
MutSendOrDrop(t) ==
    /\ pc[t] = "send"
    /\ logsChan' = IF Len(logsChan) < ChanCap
                   THEN Append(logsChan, got[t]) ELSE logsChan
    /\ got' = [got EXCEPT ![t] = {}]
    /\ pc' = [pc EXCEPT ![t] = AfterSend(t)]
    /\ UNCHANGED <<from, cur, range, query, cfrom, due, faults, ckpt>>

(* logsChan <- logs blocks while the channel is full.                      *)
SendLogs(t) ==
    /\ pc[t] = "send"
    /\ Len(logsChan) < ChanCap
    /\ logsChan' = Append(logsChan, got[t])
    /\ got' = [got EXCEPT ![t] = {}]
    /\ pc' = [pc EXCEPT ![t] = AfterSend(t)]
    /\ UNCHANGED <<from, cur, range, query, cfrom, due, faults, ckpt>>

(* Deviation used to test the properties: the head is stored instead of    *)
(* the end of the window.                                                  *)
MutStoreHead ==
    /\ pc["recover"] = "store"
    /\ ckpt' = cur["recover"] /\ NoFault
    /\ pc' = [pc EXCEPT !["recover"] = "advance"]
    /\ UNCHANGED <<from, cur, range, query, cfrom, got, due, logsChan>>

(* The checkpoint is query.ToBlock, read from the shared query.            *)
StoreCheckpoint ==
    /\ pc["recover"] = "store"
    /\ UpdateLatestFetchedBlock(qto)
    /\ pc' = [pc EXCEPT !["recover"] = "advance"]
    /\ UNCHANGED <<from, cur, range, query, cfrom, got, due, logsChan>>

(* The next window starts after query.ToBlock, read again.                 *)
Advance(t) ==
    /\ pc[t] = "advance"
    /\ qto + 1 <= cur[t]
    /\ from' = [from EXCEPT ![t] = qto + 1]
    /\ pc' = [pc EXCEPT ![t] = "setFrom"]
    /\ UNCHANGED <<cur, range, query, cfrom, got, due, shared>>

FinishRecovery ==
    /\ pc["recover"] = "advance"
    /\ qto + 1 > cur["recover"]
    /\ from' = [from EXCEPT !["recover"] = qto + 1]
    /\ pc' = [pc EXCEPT !["recover"] = "done"]
    /\ UNCHANGED <<cur, range, query, cfrom, got, due, shared>>

(* Deviation used to test the properties: one block too far.               *)
MutFinishRealtime ==
    /\ pc["realtime"] = "advance"
    /\ qto + 1 > cur["realtime"]
    /\ from' = [from EXCEPT !["realtime"] = cur["realtime"] + 2]
    /\ pc' = [pc EXCEPT !["realtime"] = "tick"]
    /\ due' = due /\ NoFault
    /\ UNCHANGED <<cur, range, query, cfrom, got, logsChan, ckpt>>

(* Back in fetchRealtimeLogs; a fetch that took longer than the interval   *)
(* leaves it elapsed.                                                      *)
FinishRealtime ==
    /\ pc["realtime"] = "advance"
    /\ qto + 1 > cur["realtime"]
    /\ from' = [from EXCEPT !["realtime"] = cur["realtime"] + 1]
    /\ pc' = [pc EXCEPT !["realtime"] = "tick"]
    /\ (due' = due /\ NoFault) \/ (due' = TRUE /\ Fault)
    /\ UNCHANGED <<cur, range, query, cfrom, got, logsChan, ckpt>>

-----------------------------------------------------------------------------
FetchStep(t) ==
    \/ SetFrom(t) \/ SetTo(t) \/ CopyFrom(t)
    \/ FilterLogs(t) \/ FilterRangeError(t) \/ FilterError(t)
    \/ SendLogs(t) \/ Advance(t)

RecoverStep ==
    RecoverLogs \/ FetchStep("recover") \/ StoreCheckpoint \/ FinishRecovery

RealtimeStep ==
    \/ LoopFetchLogs \/ FetchRealtimeLogs \/ RealtimeFetch \/ RealtimeSkip
    \/ FetchStep("realtime") \/ FinishRealtime
=============================================================================
