--------------------------- MODULE ElectrumProofs ---------------------------
(***************************************************************************)
(* Proofs about Electrum, for every height of the chain, content of the    *)
(* table, number of faults and capacity of the sockets.                    *)
(***************************************************************************)
EXTENDS Electrum, SequenceTheorems, TLAPS

(* Type correctness, with what the types rest on: who may be in a call,    *)
(* that the ping never gets past the lock, that an indexing loop asks for  *)
(* the height it is at, and that the loops sleep until Launch.             *)
InCall == {"check", "write", "read", "answered"}
Blocks == 0..TopHeight
ReqSet == Requests \cup {NoRequest}
AnsSet == Replies \cup {NoRequest, Error}

LinkType ==
    /\ conn \in {"nil", "up", "broken"} /\ isConnected \in BOOLEAN
    /\ wire \in Seq(Replies) /\ (conn # "up" => wire = << >>)
    /\ ConnConsistent

LockType ==
    /\ readers \subseteq {"monitor"}
    /\ pc["monitor"] \notin {"read", "answered"}
    /\ pc["monitor"] \in {"check", "write"} => readers = {"monitor"}
    /\ readers # {} => isConnected

FlagType ==
    /\ waiting \in BOOLEAN /\ reconnectChan \in BOOLEAN /\ stopped \in BOOLEAN
    /\ panicked \in BOOLEAN /\ crossed \in BOOLEAN /\ suspect \in BOOLEAN

FaultType ==
    /\ faults \in [used : Nat, left : Nat]
    /\ faults.used + faults.left <= MaxFaults

CallType ==
    /\ pc \in [Threads -> Labels]
    /\ req \in [Callers -> ReqSet] /\ ans \in [Callers -> AnsSet]
    /\ \A t \in Callers : pc[t] \in InCall => req[t] \in Requests
    /\ \A t \in Callers \ {"monitor"} : req[t].m # "ping"

IndexingType ==
    /\ span \in [Indexers -> [next : 0..(TopHeight + 1), last : Blocks]]
    /\ dbLatest \in Blocks /\ lastHeight \in Blocks /\ head \in Blocks
    /\ rows \subseteq Blocks /\ logged \subseteq Blocks
    /\ vaults \subseteq [block : Blocks, height : Blocks]

LoopType ==
    /\ \A t \in Indexers : req[t].m \in {"header", "block"} =>
          span[t].next <= span[t].last /\ req[t].h = span[t].next
    /\ pc["start"] # "done" =>
          lastHeight = 0 /\ \A t \in Indexers : pc[t] = "off"
    /\ \A t \in Indexers : pc[t] = "off" => req[t] = NoRequest

ElectrumInv ==
    /\ LinkType /\ LockType /\ FlagType /\ FaultType
    /\ CallType /\ IndexingType /\ LoopType

-----------------------------------------------------------------------------
LEMMA ElectrumConstants ==
    /\ TopHeight \in Nat /\ MaxFaults \in Nat /\ MaxWire \in Nat
    /\ 0 \in Blocks /\ Blocks \subseteq Nat
    /\ \A S \in DbRows : S \subseteq Blocks
    /\ WithVault \subseteq Blocks
BY ElectrumAssumption DEF Blocks

LEMMA AskFacts ==
    /\ NoRequest \in ReqSet /\ NoRequest \in AnsSet /\ Error \in AnsSet
    /\ NoRequest.m = "none" /\ NoRequest.h = 0
    /\ Error.m = "error"
    /\ \A m, h : Ask(m, h).m = m /\ Ask(m, h).h = h
    /\ \A h \in Blocks : \A m \in {"tip", "header", "block", "ping"} :
          Ask(m, h) \in Requests
    /\ \A h \in Blocks : \A m \in {"tip", "header", "block", "rest"} :
          Ask(m, h) \in Replies
BY DEF Ask, NoRequest, Error, ReqSet, AnsSet, Requests, Replies, Blocks

LEMMA AnswerFacts ==
    /\ \A a \in AnsSet : a.m \in {"tip", "header", "block"} => a.h \in Blocks
    /\ \A r \in Requests : r.m # "ping" => r \in Replies
    /\ \A r \in Requests : r.h \in Blocks /\ r # NoRequest
BY DEF Ask, NoRequest, Error, AnsSet, Requests, Replies, Blocks

LEMMA FaultFacts ==
    ASSUME FaultType
    PROVE  /\ NoFault => FaultType' /\ faults' = faults
           /\ Fault => FaultType' /\ faults'.used > 0
BY DEF FaultType, NoFault, Fault

LEMMA ThreadNames ==
    /\ Callers \subseteq Threads /\ Indexers \subseteq Callers
    /\ "start" \in Callers /\ "monitor" \in Callers
    /\ "start" \notin Indexers /\ "monitor" \notin Indexers
    /\ "live" \in Indexers /\ "catchup" \in Indexers
    /\ "connector" \in Threads /\ "handler" \in Threads /\ "stopper" \in Threads
    /\ "connector" \notin Callers /\ "handler" \notin Callers
    /\ "stopper" \notin Callers
BY DEF Callers, Indexers, Threads

LEMMA ElectrumInvInit == ElectrumInit => ElectrumInv
<1> SUFFICES ASSUME ElectrumInit PROVE ElectrumInv
  OBVIOUS
<1> USE DEF ElectrumInit
<1>1. PICK run \in {"run", "off"} :
         pc = [t \in Threads |->
                  CASE t = "start" -> "wait" [] t = "connector" -> "select"
                    [] t = "stopper" -> run [] OTHER -> "off"]
  OBVIOUS
<1>2. /\ pc \in [Threads -> Labels] /\ pc["start"] = "wait"
      /\ \A t \in Indexers \cup {"monitor"} : pc[t] = "off"
      /\ \A t \in Callers : pc[t] \notin InCall
  BY <1>1 DEF Threads, Callers, Indexers, Labels, InCall
<1>3. LinkType /\ LockType /\ FlagType
  BY <1>2, EmptySeq DEF LinkType, LockType, FlagType, ConnConsistent
<1>4. FaultType
  BY ElectrumConstants DEF FaultType
<1>5. CallType
  BY <1>2, AskFacts, ThreadNames DEF CallType
<1>6. IndexingType
  BY ElectrumConstants DEF IndexingType, Blocks
<1>7. LoopType
  BY <1>2, AskFacts, ThreadNames DEF LoopType
<1> QED  BY <1>3, <1>4, <1>5, <1>6, <1>7 DEF ElectrumInv

-----------------------------------------------------------------------------
(* The environment, the mutex and Stop.                                    *)
LEMMA NodeStepInv ==
    ASSUME ElectrumInv, NewBlock \/ Drop \/ Await
    PROVE  ElectrumInv'
<1> USE DEF ElectrumInv
<1>1. CASE NewBlock
  <2>1. IndexingType'
    BY <1>1, ElectrumConstants DEF NewBlock, IndexingType, indexVars, Blocks
  <2> QED  BY <1>1, <2>1 DEF NewBlock, LinkType, ConnConsistent, LockType, FlagType,
              FaultType, CallType, LoopType, linkVars, muVars, indexVars, histVars
<1>2. CASE Drop
  <2>1. FaultType'
    BY <1>2, FaultFacts DEF Drop
  <2>2. LinkType' /\ LockType'
    BY <1>2, EmptySeq DEF Drop, LinkType, ConnConsistent, LockType, muVars
  <2> QED  BY <1>2, <2>1, <2>2 DEF Drop, FlagType, CallType, IndexingType,
              LoopType, muVars, indexVars, histVars
<1>3. CASE Await
  BY <1>3 DEF Await, LinkType, ConnConsistent, LockType, FlagType, FaultType,
     CallType, IndexingType, LoopType, linkVars, indexVars, histVars
<1> QED  BY <1>1, <1>2, <1>3

LEMMA StopStepInv ==
    ASSUME ElectrumInv, StopStep
    PROVE  ElectrumInv'
<1> USE DEF ElectrumInv
<1>1. /\ UNCHANGED <<reconnectChan, panicked, req, ans, indexVars, head, faults,
                     histVars>>
  BY DEF StopStep
<1>2. FaultType' /\ IndexingType'
  BY <1>1 DEF FaultType, IndexingType, indexVars
<1>3. CASE Stop
  <2>1. LinkType' /\ UNCHANGED muVars /\ stopped' \in BOOLEAN
    <3>1. UNCHANGED muVars /\ stopped' \in BOOLEAN
      BY <1>3 DEF Stop, MuLocked, FlagType
    <3>2. CASE UNCHANGED linkVars
      BY <3>1, <3>2 DEF LinkType, ConnConsistent, linkVars
    <3>3. CASE conn' = "nil" /\ isConnected' = FALSE /\ wire' = << >>
      BY <3>1, <3>3, EmptySeq DEF LinkType, ConnConsistent
    <3> QED  BY <1>3, <3>2, <3>3 DEF Stop
  <2>2. readers # {} => isConnected' = isConnected
    BY <1>3 DEF Stop, MuLocked, CanLock, linkVars
  <2>3. /\ pc' \in [Threads -> Labels]
        /\ \A t \in Threads \ {"stopper"} : pc'[t] = pc[t]
    BY <1>3, ThreadNames DEF Stop, Goto, CallType, Labels
  <2>4. LockType'
    BY <2>1, <2>2, <2>3, ThreadNames DEF LockType, muVars
  <2>5. CallType'
    BY <1>1, <2>3, ThreadNames DEF CallType
  <2>6. LoopType'
    BY <1>1, <2>3, ThreadNames DEF LoopType, indexVars
  <2>7. FlagType'
    BY <1>1, <2>1 DEF FlagType, muVars, histVars
  <2> QED  BY <1>2, <2>1, <2>4, <2>5, <2>6, <2>7
<1>4. CASE LeaveOnStop
  <2>1. PICK t \in {"connector", "monitor", "handler", "live"} :
            /\ At(t, "select") \/ At(t, "tick") \/ At(t, "idle")
            /\ Goto(t, "done")
    BY <1>4 DEF LeaveOnStop
  <2>2. UNCHANGED <<linkVars, muVars, stopped>>
    BY <1>4 DEF LeaveOnStop
  <2>3. /\ pc' \in [Threads -> Labels] /\ pc'[t] = "done" /\ pc[t] # "off"
        /\ \A u \in Threads \ {t} : pc'[u] = pc[u]
    BY <2>1, ThreadNames DEF At, Goto, CallType, Labels
  <2>4. LinkType' /\ FlagType'
    BY <1>1, <2>2 DEF LinkType, ConnConsistent, FlagType, linkVars, muVars, histVars
  <2>5. LockType'
    BY <2>2, <2>3, ThreadNames DEF LockType, linkVars, muVars
  <2>6. CallType'
    BY <1>1, <2>3, ThreadNames DEF CallType, InCall
  <2>7. LoopType'
    BY <1>1, <2>1, <2>3, ThreadNames DEF LoopType, indexVars
  <2> QED  BY <1>2, <2>4, <2>5, <2>6, <2>7
<1> QED  BY <1>3, <1>4 DEF StopStep

(* The goroutines that make and replace the connection.                    *)
LEMMA ConnectorStepInv ==
    ASSUME ElectrumInv, ConnectWithRetry
    PROVE  ElectrumInv'
<1> USE DEF ElectrumInv
<1>1. /\ UNCHANGED <<reconnectChan, stopped, panicked, req, ans, indexVars,
                     head, histVars>>
      /\ UNCHANGED muVars
  BY DEF ConnectWithRetry, MuLocked
<1>2. IndexingType' /\ FlagType'
  BY <1>1 DEF IndexingType, FlagType, indexVars, histVars, muVars
<1>3. FaultType' /\ LinkType'
  <2>1. FaultType'
    BY FaultFacts DEF ConnectWithRetry, Connect
  <2>2. CASE UNCHANGED linkVars
    BY <2>1, <2>2 DEF LinkType, ConnConsistent, linkVars
  <2>3. CASE conn' = "up" /\ isConnected' = TRUE /\ wire' = << >>
    BY <2>1, <2>3, EmptySeq DEF LinkType, ConnConsistent
  <2> QED  BY <2>2, <2>3 DEF ConnectWithRetry, Connect
<1>4. isConnected => isConnected'
  BY DEF ConnectWithRetry, Connect, linkVars
<1>5. /\ pc' \in [Threads -> Labels]
      /\ \A t \in Threads \ {"connector", "monitor"} : pc'[t] = pc[t]
      /\ pc'["monitor"] = pc["monitor"] \/ pc'["monitor"] = "tick"
  BY ThreadNames DEF ConnectWithRetry, Goto, CallType, Labels
<1>6. LockType'
  BY <1>1, <1>4, <1>5 DEF LockType, muVars
<1>7. CallType'
  BY <1>1, <1>5, ThreadNames DEF CallType, InCall
<1>8. LoopType'
  BY <1>1, <1>5, ThreadNames DEF LoopType, indexVars
<1> QED  BY <1>2, <1>3, <1>6, <1>7, <1>8

LEMMA HandlerStepInv ==
    ASSUME ElectrumInv, HandlerStep
    PROVE  ElectrumInv'
<1> USE DEF ElectrumInv
<1>1. /\ UNCHANGED <<stopped, panicked, req, ans, indexVars, head>>
      /\ UNCHANGED muVars
  BY DEF HandlerStep, HandleReconnection, MuLocked
<1>2. IndexingType'
  BY <1>1 DEF IndexingType, indexVars
<1>3. FlagType'
  BY <1>1 DEF HandlerStep, HandleReconnection, NoTrigger, FlagType, histVars, muVars
<1>4. FaultType' /\ LinkType'
  <2>1. CASE UNCHANGED <<linkVars, muVars, faults, histVars>>
    BY <2>1 DEF FaultType, LinkType, ConnConsistent, linkVars
  <2>2. CASE Reconnect
    BY <2>2, FaultFacts, EmptySeq DEF Reconnect, LinkType, ConnConsistent
  <2> QED  BY <2>1, <2>2 DEF HandlerStep, HandleReconnection
<1>5. readers # {} => isConnected' = isConnected
  BY DEF HandlerStep, HandleReconnection, MuLocked, CanLock, linkVars
<1>6. /\ pc' \in [Threads -> Labels]
      /\ \A t \in Threads \ {"handler"} : pc'[t] = pc[t]
  BY ThreadNames DEF HandlerStep, HandleReconnection, Goto, CallType, Labels
<1>7. LockType'
  BY <1>1, <1>5, <1>6, ThreadNames DEF LockType, muVars
<1>8. CallType'
  BY <1>1, <1>6, ThreadNames DEF CallType
<1>9. LoopType'
  BY <1>1, <1>6, ThreadNames DEF LoopType, indexVars
<1> QED  BY <1>2, <1>3, <1>4, <1>7, <1>8, <1>9

(* The monitor and the start-up.                                           *)
LEMMA MonitorStepInv ==
    ASSUME ElectrumInv, MonitorTick
    PROVE  ElectrumInv'
<1> USE DEF ElectrumInv
<1>1. UNCHANGED <<linkVars, waiting, stopped, panicked, indexVars, head, faults,
                  histVars>>
  BY DEF MonitorTick
<1>2. LinkType' /\ IndexingType' /\ FaultType'
  BY <1>1 DEF LinkType, ConnConsistent, IndexingType, FaultType, linkVars, indexVars
<1>3. FlagType'
  BY <1>1 DEF MonitorTick, TriggerReconnect, NoTrigger, FlagType, histVars
<1>4. CASE UNCHANGED <<readers, pc, req, ans>>
  BY <1>1, <1>2, <1>3, <1>4 DEF LockType, CallType, LoopType, linkVars, indexVars
<1>5. CASE /\ isConnected /\ readers' = {"monitor"}
           /\ BeginCall("monitor", Ask("ping", 0))
  <2>1. /\ pc' = [pc EXCEPT !["monitor"] = "check"]
        /\ req' = [req EXCEPT !["monitor"] = Ask("ping", 0)]
        /\ ans' = [ans EXCEPT !["monitor"] = NoRequest]
    BY <1>5 DEF BeginCall, Goto
  <2>2. Ask("ping", 0) \in Requests
    BY AskFacts, ElectrumConstants
  <2>3. CallType'
    BY <2>1, <2>2, AskFacts, ThreadNames DEF CallType, ReqSet, Labels, InCall
  <2>4. LockType'
    BY <1>1, <1>5, <2>1, ThreadNames DEF LockType, CallType, linkVars
  <2>5. LoopType'
    BY <1>1, <2>1, ThreadNames DEF LoopType, CallType, indexVars
  <2> QED  BY <1>2, <1>3, <2>3, <2>4, <2>5
<1> QED  BY <1>4, <1>5 DEF MonitorTick

LEMMA StartStepInv ==
    ASSUME ElectrumInv, StartStep
    PROVE  ElectrumInv'
<1> USE DEF ElectrumInv
<1>1. UNCHANGED <<linkVars, reconnectChan, muVars, stopped, panicked, rows,
                  vaults, logged, head, histVars>>
  BY DEF StartStep
<1>2. LinkType' /\ FlagType'
  BY <1>1 DEF LinkType, ConnConsistent, FlagType, linkVars, muVars, histVars
<1>3. FaultType'
  BY FaultFacts DEF StartStep, WaitForConnection, ReadDbLatest, Launch
<1>4. pc["start"] # "done"
  BY DEF StartStep, WaitForConnection, ReadDbLatest, Launch, At
<1>5. lastHeight = 0 /\ \A t \in Indexers : pc[t] = "off" /\ req[t] = NoRequest
  BY <1>4 DEF LoopType
<1>6. ASSUME NEW l \in {"db", "failed"}, Goto("start", l),
             \/ UNCHANGED <<req, ans>> \/ EndCalls("start"),
             UNCHANGED <<span, dbLatest, lastHeight>>
      PROVE  ElectrumInv'
  <2>1. /\ pc' \in [Threads -> Labels] /\ pc'["start"] = l
        /\ \A u \in Threads \ {"start"} : pc'[u] = pc[u]
    BY <1>6, ThreadNames DEF Goto, CallType, Labels
  <2>2. /\ req' \in [Callers -> ReqSet] /\ ans' \in [Callers -> AnsSet]
        /\ \A u \in Callers \ {"start"} : req'[u] = req[u]
        /\ req'["start"].m # "ping"
    BY <1>6, ThreadNames, AskFacts DEF EndCalls, CallType
  <2>3. CallType'
    BY <2>1, <2>2, ThreadNames DEF CallType, InCall
  <2>4. LockType'
    BY <1>1, <2>1, ThreadNames DEF LockType, muVars, linkVars
  <2>5. LoopType'
    BY <1>5, <1>6, <2>1, <2>2, ThreadNames, AskFacts DEF LoopType
  <2>6. IndexingType'
    BY <1>1, <1>6 DEF IndexingType
  <2> QED  BY <1>2, <1>3, <2>3, <2>4, <2>5, <2>6
<1>7. CASE WaitForConnection
  BY <1>6, <1>7 DEF WaitForConnection
<1>8. CASE ReadDbLatest
  <2>1. CASE Goto("start", "failed") /\ UNCHANGED <<req, ans, dbLatest>>
    BY <1>6, <1>8, <2>1 DEF ReadDbLatest
  <2>2. CASE dbLatest' \in rows /\ BeginCall("start", Ask("tip", 0))
    <3>1. /\ pc' = [pc EXCEPT !["start"] = "check"]
          /\ req' = [req EXCEPT !["start"] = Ask("tip", 0)]
          /\ ans' = [ans EXCEPT !["start"] = NoRequest]
      BY <2>2 DEF BeginCall, Goto
    <3>2. Ask("tip", 0) \in Requests /\ Ask("tip", 0).m # "ping"
      BY AskFacts, ElectrumConstants
    <3>3. CallType'
      BY <3>1, <3>2, AskFacts, ThreadNames DEF CallType, ReqSet, Labels, InCall
    <3>4. LockType'
      BY <1>1, <3>1, ThreadNames DEF LockType, CallType, muVars, linkVars
    <3>5. LoopType'
      BY <1>5, <1>8, <3>1, ThreadNames, AskFacts
         DEF LoopType, CallType, ReadDbLatest
    <3>6. IndexingType'
      BY <1>1, <1>8, <2>2 DEF IndexingType, ReadDbLatest
    <3> QED  BY <1>2, <1>3, <3>3, <3>4, <3>5, <3>6
  <2> QED  BY <1>8, <2>1, <2>2 DEF ReadDbLatest
<1>9. CASE Launch
  <2>1. CASE Goto("start", "failed") /\ UNCHANGED <<span, lastHeight>>
    BY <1>6, <1>9, <2>1 DEF Launch
  <2>2. CASE /\ ans["start"].m = "tip"
             /\ span' = [span EXCEPT !["catchup"] =
                            [next |-> dbLatest + 1, last |-> ans["start"].h]]
             /\ lastHeight' = dbLatest
             /\ pc' = [pc EXCEPT !["start"] = "done", !["catchup"] = "loop",
                                 !["live"] = "tick", !["handler"] = "idle"]
    <3>1. /\ pc' \in [Threads -> Labels]
          /\ pc'["start"] = "done" /\ pc'["catchup"] = "loop"
          /\ pc'["live"] = "tick" /\ pc'["monitor"] = pc["monitor"]
      BY <2>2, ThreadNames DEF CallType, Labels, Threads, Callers, Indexers
    <3>2. /\ req' = [req EXCEPT !["start"] = NoRequest]
          /\ ans' = [ans EXCEPT !["start"] = NoRequest]
      BY <1>9 DEF Launch, EndCalls
    <3>3. Callers = {"start", "catchup", "live", "monitor"}
          /\ Indexers = {"catchup", "live"}
      BY DEF Callers, Indexers
    <3>4. CallType'
      BY <3>1, <3>2, <3>3, AskFacts DEF CallType, InCall
    <3>5. LockType'
      BY <1>1, <3>1 DEF LockType, muVars, linkVars
    <3>6. LoopType'
      BY <1>5, <3>1, <3>2, <3>3, AskFacts DEF LoopType, CallType
    <3>7. IndexingType'
      <4>1. ans["start"].h \in Blocks
        BY <2>2, AnswerFacts, ThreadNames DEF CallType
      <4>2. dbLatest + 1 \in 0..(TopHeight + 1)
        BY ElectrumConstants DEF IndexingType, Blocks
      <4>3. span' \in [Indexers -> [next : 0..(TopHeight + 1), last : Blocks]]
        BY <2>2, <4>1, <4>2 DEF IndexingType
      <4> QED  BY <1>1, <1>9, <2>2, <4>3 DEF IndexingType, Launch
    <3> QED  BY <1>2, <1>3, <3>4, <3>5, <3>6, <3>7
  <2> QED  BY <1>9, <2>1, <2>2 DEF Launch
<1> QED  BY <1>7, <1>8, <1>9 DEF StartStep

-----------------------------------------------------------------------------
(* A call: the parts of the state that it leaves alone.                    *)
LEMMA CallStepInv ==
    ASSUME ElectrumInv, NEW t \in Callers, RpcStep(t)
    PROVE  ElectrumInv'
<1> USE DEF ElectrumInv
<1>1. UNCHANGED <<stopped, req, indexVars, head, conn, isConnected, muVars>>
  BY DEF RpcStep, CallCheck, CallWrite, CallRead, MuLocked, linkVars
<1>2. pc[t] \in {"check", "write", "read"}
  BY DEF RpcStep, CallCheck, CallWrite, CallRead, At
<1>3. IndexingType'
  BY <1>1 DEF IndexingType, indexVars
<1>4. FaultType'
  <2>1. faults' = faults \/ Fault
    BY DEF RpcStep, CallCheck, CallWrite, CallRead, NoFault
  <2> QED  BY <2>1, FaultFacts DEF NoFault
<1>5. /\ req[t] \in Requests /\ (t # "monitor" => req[t] \in Replies)
  BY <1>2, AnswerFacts DEF CallType, InCall
<1>6. t = "monitor" => CallCheck(t) /\ readers = {"monitor"} /\ isConnected
  BY <1>2 DEF RpcStep, CallWrite, CallRead, LockType, MuLocked, CanLock
<1>7. /\ wire' \in Seq(Replies) /\ FlagType'
      /\ \/ pc' = pc /\ ans' = ans
         \/ /\ \E l \in {"write", "read", "answered"} :
                  /\ Goto(t, l) /\ (t = "monitor" => l = "write")
            /\ \E a \in AnsSet : ans' = ans \/ ans' = [ans EXCEPT ![t] = a]
  <2>1. CASE CallCheck(t)
    <3>1. UNCHANGED <<linkVars, reconnectChan, muVars, panicked, histVars>>
      BY <2>1 DEF CallCheck
    <3>2. wire' \in Seq(Replies) /\ FlagType'
      BY <1>1, <3>1 DEF LinkType, FlagType, linkVars, muVars, histVars
    <3>3. CASE isConnected
      <4>1. Goto(t, "write") /\ ans' = ans
        BY <2>1, <3>3 DEF CallCheck
      <4> QED  BY <3>2, <4>1, AskFacts
    <3>4. CASE ~isConnected
      <4>1. Goto(t, "answered") /\ ans' = [ans EXCEPT ![t] = Error]
        BY <2>1, <3>4 DEF CallCheck, Return
      <4> QED  BY <1>6, <3>2, <3>4, <4>1, AskFacts
    <3> QED  BY <3>3, <3>4
  <2>2. CASE CallWrite(t)
    <3>1. panicked' = panicked /\ req[t] \in Replies /\ t # "monitor"
      BY <1>5, <1>6, <2>2 DEF CallWrite, CallCheck, At
    <3>2. CASE /\ Send(t) /\ Goto(t, "read")
               /\ suspect' = (suspect \/ \E u \in Callers \ {t} : pc[u] = "read")
               /\ NoTrigger /\ UNCHANGED <<ans, crossed>>
      <4>1. Reply(req[t]) \in Replies
        BY <3>1, AskFacts DEF Reply, IndexingType
      <4>2. wire' \in Seq(Replies)
        BY <3>2, <4>1, AppendProperties DEF Send, LinkType
      <4>3. FlagType'
        BY <1>1, <3>1, <3>2 DEF FlagType, NoTrigger, muVars
      <4> QED  BY <3>1, <3>2, <4>2, <4>3, AskFacts
    <3>3. CASE /\ Return(t, Error) /\ TriggerReconnect
               /\ UNCHANGED <<wire, histVars>>
      BY <1>1, <3>1, <3>3, AskFacts
         DEF Return, TriggerReconnect, LinkType, FlagType, muVars, histVars
    <3> QED  BY <2>2, <3>2, <3>3 DEF CallWrite
  <2>3. CASE CallRead(t)
    <3>0. t # "monitor"
      BY <1>6, <2>3 DEF CallRead, CallCheck, At
    <3>1. CASE /\ panicked' = TRUE
               /\ NoTrigger /\ UNCHANGED <<wire, pc, ans, faults, histVars>>
      BY <1>1, <3>1 DEF NoTrigger, LinkType, FlagType, muVars, histVars
    <3>2. CASE Take(t) /\ UNCHANGED <<faults, panicked>>
      <4> DEFINE Long(i) == wire[i].m = "block" /\ wire[i].h \in Big
                 left(k) == SubSeq(wire, k + 1, Len(wire))
      <4>1. PICK k \in 1..Len(wire) :
                /\ wire' = IF Long(k) THEN <<Ask("rest", 0)>> \o left(k) ELSE left(k)
                /\ Return(t, IF k = 1 /\ ~Long(k) THEN wire[1] ELSE Error)
                /\ suspect' = (suspect \/ Long(k))
                /\ crossed' = \/ crossed
                              \/ /\ k = 1 /\ ~Long(k)
                                 /\ wire[1].m = req[t].m /\ wire[1].m # "tip"
                                 /\ wire[1].h # req[t].h
        BY <3>2 DEF Take
      <4>2. /\ Len(wire) \in Nat /\ wire \in Seq(Replies)
            /\ \A i \in 1..Len(wire) : wire[i] \in Replies
        BY ElementOfSeq, LenProperties DEF LinkType
      <4>3. left(k) \in Seq(Replies)
        BY <4>2, SubSeqProperties
      <4>4. <<Ask("rest", 0)>> \o left(k) \in Seq(Replies)
        <5>1. <<Ask("rest", 0)>> \in Seq(Replies)
          BY AskFacts, ElectrumConstants
        <5> QED  BY <4>3, <5>1, ConcatProperties
      <4>5. wire' \in Seq(Replies)
        BY <4>1, <4>3, <4>4
      <4>6. reconnectChan' = reconnectChan
        BY <3>2 DEF Take, NoTrigger
      <4>7. FlagType'
        BY <1>1, <3>2, <4>1, <4>6 DEF FlagType, muVars
      <4>8. \E a \in AnsSet : ans' = [ans EXCEPT ![t] = a]
        BY <4>1, <4>2, AskFacts DEF Return, AnsSet
      <4>9. Goto(t, "answered")
        BY <4>1 DEF Return
      <4> QED  BY <3>0, <4>5, <4>7, <4>8, <4>9
    <3>3. CASE /\ Return(t, Error) /\ TriggerReconnect
               /\ UNCHANGED <<wire, panicked, crossed>>
               /\ suspect' \in BOOLEAN
      BY <1>1, <3>0, <3>3, AskFacts
         DEF Return, TriggerReconnect, LinkType, FlagType, muVars
    <3> QED  BY <2>3, <3>1, <3>2, <3>3 DEF CallRead, histVars, FlagType
  <2> QED  BY <2>1, <2>2, <2>3 DEF RpcStep
<1>8. /\ pc' \in [Threads -> Labels]
      /\ \A u \in Threads \ {t} : pc'[u] = pc[u]
      /\ pc'[t] \in InCall /\ (t = "monitor" => pc'[t] \in {"check", "write"})
  BY <1>2, <1>6, <1>7, ThreadNames
     DEF Goto, CallType, Labels, InCall, LockType
<1>9. CallType'
  <2>1. ans' \in [Callers -> AnsSet]
    BY <1>7 DEF CallType
  <2> QED  BY <1>1, <1>5, <1>8, <2>1, ThreadNames DEF CallType
<1>10. LockType'
  BY <1>1, <1>6, <1>8, ThreadNames DEF LockType, muVars
<1>11. LoopType'
  BY <1>1, <1>2, <1>8, ThreadNames DEF LoopType, InCall, indexVars
<1>12. LinkType'
  <2>1. conn # "up" => wire' = wire
    BY DEF RpcStep, CallCheck, CallWrite, Send, CallRead, linkVars
  <2> QED  BY <1>1, <1>7, <2>1 DEF LinkType, ConnConsistent
<1> QED  BY <1>3, <1>4, <1>7, <1>9, <1>10, <1>11, <1>12

-----------------------------------------------------------------------------
(* The indexing loops: a call begins, or the loop ends.                    *)
LEMMA LoopCallInv ==
    ASSUME ElectrumInv, NEW t \in Indexers, pc[t] # "off",
           UNCHANGED <<linkVars, muVars>>, NEW r \in Requests, r.m # "ping",
           BeginCall(t, r), IndexingType',
           \A u \in Indexers \ {t} : span'[u] = span[u],
           r.m \in {"header", "block"} =>
              span'[t].next <= span'[t].last /\ r.h = span'[t].next
    PROVE  CallType' /\ LoopType' /\ LockType'
<1> USE DEF ElectrumInv
<1>1. /\ pc' = [pc EXCEPT ![t] = "check"] /\ req' = [req EXCEPT ![t] = r]
      /\ ans' = [ans EXCEPT ![t] = NoRequest] /\ t # "monitor" /\ t # "start"
  BY ThreadNames DEF BeginCall, Goto
<1>2. CallType'
  BY <1>1, AskFacts, ThreadNames DEF CallType, ReqSet, Labels, InCall
<1>3. LockType'
  BY <1>1, ThreadNames DEF LockType, CallType, muVars, linkVars
<1>4. LoopType'
  BY <1>1, ThreadNames DEF LoopType, CallType
<1> QED  BY <1>2, <1>3, <1>4

LEMMA LoopEndInv ==
    ASSUME ElectrumInv, NEW t \in Indexers, pc[t] # "off",
           UNCHANGED <<linkVars, muVars>>, NEW l \in {"tick", "done"},
           Goto(t, l), EndCalls(t), IndexingType',
           \A u \in Indexers \ {t} : span'[u] = span[u]
    PROVE  CallType' /\ LoopType' /\ LockType'
<1> USE DEF ElectrumInv
<1>1. /\ pc' = [pc EXCEPT ![t] = l] /\ req' = [req EXCEPT ![t] = NoRequest]
      /\ ans' = [ans EXCEPT ![t] = NoRequest] /\ t # "monitor" /\ t # "start"
  BY ThreadNames DEF EndCalls, Goto
<1>2. CallType'
  BY <1>1, AskFacts, ThreadNames DEF CallType, Labels, InCall
<1>3. LockType'
  BY <1>1, ThreadNames DEF LockType, CallType, muVars, linkVars
<1>4. LoopType'
  BY <1>1, AskFacts, ThreadNames DEF LoopType, CallType
<1> QED  BY <1>2, <1>3, <1>4

(* The loop head, whatever the step does to the tables.                    *)
LEMMA LoopHeadInv ==
    ASSUME ElectrumInv, NEW t \in Indexers, pc[t] # "off",
           UNCHANGED <<linkVars, muVars, dbLatest, head>>,
           NEW n \in Nat, NEW last \in Blocks, IndexFrom(t, n, last),
           lastHeight' \in Blocks, rows' \subseteq Blocks, logged' \subseteq Blocks,
           vaults' \subseteq [block : Blocks, height : Blocks]
    PROVE  CallType' /\ LoopType' /\ LockType' /\ IndexingType'
<1> USE DEF ElectrumInv
<1>1. CASE n <= last /\ span' = [span EXCEPT ![t] = [next |-> n, last |-> last]]
           /\ BeginCall(t, Ask("header", n))
  <2>1. n \in Blocks /\ n \in 0..(TopHeight + 1)
    BY <1>1, ElectrumConstants DEF Blocks
  <2>2. IndexingType'
    BY <1>1, <2>1 DEF IndexingType
  <2>3. /\ span'[t].next = n /\ span'[t].last = last
        /\ \A u \in Indexers \ {t} : span'[u] = span[u]
    BY <1>1 DEF IndexingType
  <2>4. /\ Ask("header", n) \in Requests /\ Ask("header", n).m = "header"
        /\ Ask("header", n).h = n
    BY <2>1, AskFacts
  <2> QED  BY <1>1, <2>2, <2>3, <2>4, LoopCallInv
<1>2. CASE /\ span' = [span EXCEPT ![t] = [next |-> 0, last |-> 0]]
           /\ Goto(t, IF t = "live" THEN "tick" ELSE "done") /\ EndCalls(t)
  <2>1. IndexingType'
    BY <1>2, ElectrumConstants DEF IndexingType
  <2>2. \A u \in Indexers \ {t} : span'[u] = span[u]
    BY <1>2 DEF IndexingType
  <2> QED  BY <1>2, <2>1, <2>2, LoopEndInv
<1> QED  BY <1>1, <1>2 DEF IndexFrom

LEMMA IndexStepInv ==
    ASSUME ElectrumInv, NEW t \in Indexers, IndexStep(t)
    PROVE  ElectrumInv'
<1> USE DEF ElectrumInv
<1>1. UNCHANGED <<linkVars, reconnectChan, muVars, stopped, panicked, head,
                  histVars>>
  BY DEF IndexStep
<1>2. LinkType' /\ FlagType'
  BY <1>1 DEF LinkType, ConnConsistent, FlagType, linkVars, muVars, histVars
<1>3. FaultType'
  <2>1. NoFault \/ Fault
    BY DEF IndexStep, HeaderAnswered, BlockAnswered
  <2> QED  BY <2>1, FaultFacts
<1>4. t \in Callers /\ req[t] \in ReqSet /\ ans[t] \in AnsSet
  BY ThreadNames DEF CallType
<1>5. /\ span[t].next \in Nat /\ span[t].next + 1 \in Nat /\ span[t].last \in Blocks
      /\ span[t].next \in 0..(TopHeight + 1)
      /\ lastHeight \in Nat /\ lastHeight + 1 \in Nat /\ dbLatest \in Blocks
  BY ElectrumConstants DEF IndexingType
<1>6. req[t].m \in {"header", "block"} => span[t].next \in Blocks
  <2>1. req[t].m \in {"header", "block"} => span[t].next <= span[t].last
    BY DEF LoopType
  <2> QED  BY <1>5, <2>1, ElectrumConstants DEF Blocks
<1>7. SUFFICES CallType' /\ LoopType' /\ LockType' /\ IndexingType'
  BY <1>2, <1>3
<1>8. CASE t = "catchup" /\ CatchUp
  <2>1. pc[t] # "off" /\ IndexFrom(t, span[t].next, span[t].last)
        /\ UNCHANGED <<dbLatest, lastHeight, rows, vaults, logged>>
    BY <1>8 DEF CatchUp, At
  <2> QED  BY <1>1, <1>5, <2>1, LoopHeadInv DEF IndexingType
<1>9. CASE t = "live" /\ LiveTick
  <2>1. /\ pc[t] # "off" /\ BeginCall(t, Ask("tip", 0)) /\ UNCHANGED indexVars
    BY <1>9 DEF LiveTick, At
  <2>2. IndexingType' /\ span' = span
    BY <1>1, <2>1 DEF IndexingType, indexVars
  <2>3. Ask("tip", 0) \in Requests /\ Ask("tip", 0).m = "tip"
    BY AskFacts, ElectrumConstants
  <2> QED  BY <1>1, <2>1, <2>2, <2>3, LoopCallInv
<1>10. CASE t = "live" /\ LiveTip
  <2>1. /\ pc[t] # "off" /\ UNCHANGED <<dbLatest, lastHeight, rows, vaults, logged>>
    BY <1>10 DEF LiveTip, At
  <2>2. CASE ans[t].m = "tip" /\ IndexFrom(t, lastHeight + 1, ans[t].h)
    <3>1. ans[t].h \in Blocks
      BY <1>4, <2>2, AnswerFacts
    <3> QED  BY <1>1, <1>5, <2>1, <2>2, <3>1, LoopHeadInv DEF IndexingType
  <2>3. CASE Goto(t, "tick") /\ EndCalls(t) /\ UNCHANGED span
    <3>1. IndexingType'
      BY <1>1, <2>1, <2>3 DEF IndexingType
    <3> QED  BY <1>1, <2>1, <2>3, <3>1, LoopEndInv
  <2> QED  BY <1>10, <2>2, <2>3 DEF LiveTip
<1>11. ASSUME SkipHeight(t), pc[t] # "off", span[t].next \in Blocks
       PROVE  CallType' /\ LoopType' /\ LockType' /\ IndexingType'
  <2>1. /\ IndexFrom(t, span[t].next + 1, span[t].last)
        /\ logged' = logged \cup {span[t].next}
        /\ UNCHANGED <<dbLatest, lastHeight, rows, vaults>>
    BY <1>11 DEF SkipHeight, NextHeight
  <2>2. logged' \subseteq Blocks
    BY <1>11, <2>1 DEF IndexingType
  <2> QED  BY <1>1, <1>5, <1>11, <2>1, <2>2, LoopHeadInv DEF IndexingType
<1>12. CASE HeaderAnswered(t)
  <2>1. pc[t] # "off" /\ span[t].next \in Blocks
    BY <1>6, <1>12 DEF HeaderAnswered, At
  <2>2. CASE /\ ans[t].m = "header" /\ rows' = rows \cup {ans[t].h}
             /\ BeginCall(t, Ask("block", span[t].next))
             /\ UNCHANGED <<span, dbLatest, lastHeight, vaults, logged>>
    <3>1. ans[t].h \in Blocks
      BY <1>4, <2>2, AnswerFacts
    <3>2. IndexingType'
      BY <1>1, <2>2, <3>1 DEF IndexingType
    <3>3. /\ Ask("block", span[t].next) \in Requests
          /\ Ask("block", span[t].next).m = "block"
          /\ Ask("block", span[t].next).h = span[t].next
      BY <2>1, AskFacts
    <3>4. span[t].next <= span[t].last
      BY <1>12 DEF HeaderAnswered, LoopType
    <3> QED  BY <1>1, <2>1, <2>2, <3>2, <3>3, <3>4, LoopCallInv
  <2> QED  BY <1>11, <1>12, <2>1, <2>2 DEF HeaderAnswered
<1>13. CASE BlockAnswered(t)
  <2>1. pc[t] # "off" /\ span[t].next \in Blocks
    BY <1>6, <1>13 DEF BlockAnswered, At
  <2>2. CASE /\ ans[t].m = "block" /\ lastHeight' = span[t].next
             /\ NextHeight(t) /\ UNCHANGED <<dbLatest, rows>>
             /\ \/ UNCHANGED logged \/ logged' = logged \cup {span[t].next}
             /\ \/ UNCHANGED vaults
                \/ vaults' = vaults \cup {[block |-> ans[t].h,
                                           height |-> span[t].next]}
    <3>1. ans[t].h \in Blocks
      BY <1>4, <2>2, AnswerFacts
    <3>2. /\ logged' \subseteq Blocks
          /\ vaults' \subseteq [block : Blocks, height : Blocks]
      BY <2>1, <2>2, <3>1 DEF IndexingType
    <3> QED  BY <1>1, <1>5, <2>1, <2>2, <3>2, LoopHeadInv
             DEF NextHeight, IndexingType
  <2> QED  BY <1>11, <1>13, <2>1, <2>2 DEF BlockAnswered
<1> QED  BY <1>8, <1>9, <1>10, <1>12, <1>13 DEF IndexStep

LEMMA ElectrumInvStep == ElectrumInv /\ [ElectrumNext]_electrumVars => ElectrumInv'
<1> SUFFICES ASSUME ElectrumInv, [ElectrumNext]_electrumVars PROVE ElectrumInv'
  OBVIOUS
<1>1. CASE UNCHANGED electrumVars
  BY <1>1 DEF electrumVars, ElectrumInv, LinkType, ConnConsistent, LockType,
     FlagType, FaultType, CallType, IndexingType, LoopType, linkVars, muVars,
     indexVars, histVars
<1>2. ASSUME NEW t \in Threads, ThreadStep(t) PROVE ElectrumInv'
  BY <1>2, ConnectorStepInv, HandlerStepInv, MonitorStepInv, StartStepInv,
     CallStepInv, IndexStepInv DEF ThreadStep
<1> QED  BY <1>1, <1>2, NodeStepInv, StopStepInv DEF ElectrumNext

(* The inductive invariant of the Electrum client: the types, an empty     *)
(* wire without a connection, a ping that never gets past the lock, and a  *)
(* read lock that is only held while isConnected is set.                   *)
THEOREM ElectrumInvariant == ElectrumSpec => []ElectrumInv
BY ElectrumInvInit, ElectrumInvStep, PTL DEF ElectrumSpec

(* Type correctness of the Electrum client: requests, replies, heights and *)
(* the flags of the connection stay in their types whatever fails, and the *)
(* monitor's ping never reaches the wire.                                  *)
THEOREM ElectrumTypeCorrect == ElectrumSpec => []ElectrumTypeOK
<1>1. ElectrumInv => ElectrumTypeOK
  <2> SUFFICES ASSUME ElectrumInv PROVE ElectrumTypeOK
    OBVIOUS
  <2> USE DEF ElectrumInv
  <2>1. {waiting, isConnected, reconnectChan, stopped, panicked, crossed, suspect}
           \subseteq BOOLEAN
    BY Zenon DEF FlagType, LinkType
  <2>2. faults \in [used : 0..MaxFaults, left : 0..MaxFaults]
    BY ElectrumConstants DEF FaultType
  <2> QED  BY <2>1, <2>2 DEF ElectrumTypeOK, LinkType, LockType, CallType,
              IndexingType, ReqSet, AnsSet, Blocks
<1> QED  BY <1>1, ElectrumInvariant, PTL

(* isConnected tells the truth: Connect, Disconnect and Reconnect change   *)
(* it with the connection on every path.                                   *)
THEOREM ConnectionFlagTrue == ElectrumSpec => []ConnConsistent
<1>1. ElectrumInv => ConnConsistent
  BY DEF ElectrumInv, LinkType
<1> QED  BY <1>1, ElectrumInvariant, PTL

-----------------------------------------------------------------------------
(* Without a failed dial or Stop, a call that was let through finds the    *)
(* connection it was let through for.                                      *)
Calm == ~stopped /\ faults.used = 0
LiveLink ==
    Calm => /\ ~panicked /\ pc["stopper"] # "disconnect"
            /\ \A t \in Callers : pc[t] \in {"write", "read"} => conn # "nil"

LEMMA LiveLinkStep ==
    ASSUME ElectrumInv, LiveLink, [ElectrumNext]_electrumVars
    PROVE  LiveLink'
<1> SUFFICES ASSUME Calm'
             PROVE  /\ ~panicked' /\ pc'["stopper"] # "disconnect"
                    /\ \A t \in Callers : pc'[t] \in {"write", "read"} => conn' # "nil"
  BY DEF LiveLink
<1> USE DEF ElectrumInv
<1>0. ~Fault
  BY FaultFacts DEF Calm, FaultType, Fault
<1>1. CASE Calm
  <2>1. /\ ~panicked /\ pc["stopper"] # "disconnect"
        /\ \A t \in Callers : pc[t] \in {"write", "read"} => conn # "nil"
    BY <1>1 DEF LiveLink
  <2>2. ASSUME pc' = pc, conn' = conn, panicked' = panicked
        PROVE  /\ ~panicked' /\ pc'["stopper"] # "disconnect"
               /\ \A t \in Callers : pc'[t] \in {"write", "read"} => conn' # "nil"
    BY <2>1, <2>2
  <2>3. ASSUME NEW u \in Threads, NEW l, l \notin {"write", "read", "disconnect"},
               Goto(u, l), conn' = conn, panicked' = panicked
        PROVE  /\ ~panicked' /\ pc'["stopper"] # "disconnect"
               /\ \A t \in Callers : pc'[t] \in {"write", "read"} => conn' # "nil"
    BY <2>1, <2>3, ThreadNames DEF Goto, CallType
  <2>4. CASE NewBlock \/ Await \/ UNCHANGED electrumVars
    BY <2>2, <2>4 DEF NewBlock, Await, electrumVars, linkVars
  <2>5. CASE Drop
    BY <1>0, <2>5 DEF Drop
  <2>6. CASE StopStep
    <3>1. ~Stop
      BY <2>1, <2>6 DEF Stop, At, StopStep, Calm
    <3>2. ~LeaveOnStop
      BY <1>1 DEF LeaveOnStop, Calm
    <3> QED  BY <2>6, <3>1, <3>2 DEF StopStep
  <2>7. CASE ConnectWithRetry
    <3>1. panicked' = panicked /\ (conn # "nil" => conn' # "nil")
      BY <2>7 DEF ConnectWithRetry, Connect, linkVars
    <3>2. \A t \in Threads : pc'[t] = pc[t] \/ pc'[t] \in {"connect", "done", "tick", "select"}
      BY <2>7, ThreadNames DEF ConnectWithRetry, Goto, CallType
    <3> QED  BY <2>1, <3>1, <3>2, ThreadNames
  <2>8. CASE HandlerStep
    <3>1. panicked' = panicked /\ (conn # "nil" => conn' # "nil")
      BY <1>0, <2>8 DEF HandlerStep, HandleReconnection, Reconnect, linkVars
    <3>2. \A t \in Threads : pc'[t] = pc[t] \/ pc'[t] \in {"reconnect", "idle"}
      BY <2>8, ThreadNames DEF HandlerStep, HandleReconnection, Goto, CallType
    <3> QED  BY <2>1, <3>1, <3>2, ThreadNames
  <2>9. CASE MonitorTick
    <3>1. panicked' = panicked /\ conn' = conn
      BY <2>9 DEF MonitorTick, linkVars
    <3>2. CASE pc' = pc
      BY <2>2, <3>1, <3>2
    <3>3. CASE Goto("monitor", "check")
      BY <2>3, <3>1, <3>3, ThreadNames
    <3> QED  BY <2>9, <3>2, <3>3 DEF MonitorTick, BeginCall
  <2>10. CASE StartStep
    <3>1. panicked' = panicked /\ conn' = conn
      BY <2>10 DEF StartStep, linkVars
    <3>2. \A t \in Threads : pc'[t] = pc[t]
             \/ pc'[t] \in {"db", "failed", "check", "done", "loop", "tick", "idle"}
      BY <2>10, ThreadNames DEF StartStep, WaitForConnection, ReadDbLatest, Launch,
         BeginCall, Goto, CallType
    <3> QED  BY <2>1, <3>1, <3>2, ThreadNames
  <2>11. ASSUME NEW u \in Callers, RpcStep(u)
         PROVE  /\ ~panicked' /\ pc'["stopper"] # "disconnect"
                /\ \A t \in Callers : pc'[t] \in {"write", "read"} => conn' # "nil"
    <3>1. conn' = conn
      BY <2>11 DEF RpcStep, CallCheck, CallWrite, CallRead, linkVars
    <3>2. CASE CallCheck(u)
      <4>1. panicked' = panicked
        BY <3>2 DEF CallCheck
      <4>2. CASE isConnected /\ Goto(u, "write")
        BY <2>1, <3>1, <4>1, <4>2, ThreadNames DEF Goto, CallType, LinkType, ConnConsistent
      <4>3. CASE Goto(u, "answered")
        BY <2>3, <3>1, <4>1, <4>3, ThreadNames
      <4> QED  BY <3>2, <4>2, <4>3 DEF CallCheck, Return
    <3>3. CASE CallWrite(u)
      <4>1. panicked' = panicked /\ conn # "nil"
        BY <2>1, <3>3 DEF CallWrite, At
      <4>2. \A t \in Threads : pc'[t] = pc[t] \/ pc'[t] \in {"read", "answered"}
        BY <3>3, ThreadNames DEF CallWrite, Return, Goto, CallType
      <4> QED  BY <2>1, <3>1, <4>1, <4>2, ThreadNames
    <3>4. CASE CallRead(u)
      <4>1. conn # "nil"
        BY <2>1, <3>4 DEF CallRead, At
      <4>2. panicked' = panicked /\ Goto(u, "answered")
        BY <3>4, <4>1 DEF CallRead, Take, Return
      <4> QED  BY <2>3, <3>1, <4>2, ThreadNames
    <3> QED  BY <2>11, <3>2, <3>3, <3>4 DEF RpcStep
  <2>12. ASSUME NEW u \in Indexers, IndexStep(u)
         PROVE  /\ ~panicked' /\ pc'["stopper"] # "disconnect"
                /\ \A t \in Callers : pc'[t] \in {"write", "read"} => conn' # "nil"
    <3>1. panicked' = panicked /\ conn' = conn
      BY <2>12 DEF IndexStep, linkVars
    <3>2. \E l \in {"check", "tick", "done"} : Goto(u, l)
      BY <2>12 DEF IndexStep, CatchUp, LiveTick, LiveTip, HeaderAnswered,
         BlockAnswered, SkipHeight, NextHeight, IndexFrom, BeginCall
    <3> QED  BY <2>3, <3>1, <3>2, ThreadNames
  <2>13. ASSUME NEW u \in Threads, ThreadStep(u)
         PROVE  /\ ~panicked' /\ pc'["stopper"] # "disconnect"
                /\ \A t \in Callers : pc'[t] \in {"write", "read"} => conn' # "nil"
    BY <2>7, <2>8, <2>9, <2>10, <2>11, <2>12, <2>13 DEF ThreadStep
  <2> QED  BY <2>4, <2>5, <2>6, <2>13 DEF ElectrumNext
<1>2. Calm
  <2>1. faults' = faults
    <3>1. CASE ~StopStep
      <4>1. ASSUME NEW u \in Threads, ThreadStep(u) PROVE faults' = faults \/ Fault
        BY <4>1 DEF ThreadStep, ConnectWithRetry, Connect, HandlerStep,
           HandleReconnection, Reconnect, MonitorTick, StartStep,
           WaitForConnection, ReadDbLatest, Launch, RpcStep, CallCheck,
           CallWrite, CallRead, IndexStep, HeaderAnswered, BlockAnswered, NoFault
      <4> QED  BY <1>0, <3>1, <4>1
               DEF ElectrumNext, NewBlock, Drop, Await, electrumVars
    <3> QED  BY <3>1 DEF StopStep
  <2>2. stopped => stopped'
    <3>1. ASSUME NEW u \in Threads, ThreadStep(u) PROVE stopped' = stopped
      BY <3>1 DEF ThreadStep, ConnectWithRetry, HandlerStep, MonitorTick,
         StartStep, RpcStep, IndexStep
    <3> QED  BY <3>1 DEF ElectrumNext, NewBlock, Drop, Await, StopStep, Stop,
             LeaveOnStop, electrumVars
  <2> QED  BY <2>1, <2>2 DEF Calm
<1> QED  BY <1>1, <1>2

(* callRPCMethod reads from the connection without a nil check; only a     *)
(* call that failed, or Stop, lets that end the process.                   *)
THEOREM DiesOnlyOfFaults == ElectrumSpec => []DiesOfFaultsOnly
<1>1. ElectrumInit => LiveLink
  BY ThreadNames DEF ElectrumInit, LiveLink, Threads, Callers, Indexers
<1>2. ElectrumInv /\ LiveLink /\ [ElectrumNext]_electrumVars => LiveLink'
  BY LiveLinkStep
<1>3. ElectrumInv /\ LiveLink => DiesOfFaultsOnly
  BY DEF ElectrumInv, FaultType, LiveLink, Calm, DiesOfFaultsOnly
<1> QED  BY <1>1, <1>2, <1>3, ElectrumInvariant, PTL DEF ElectrumSpec

-----------------------------------------------------------------------------
(* While nothing is suspect about the connection, one caller at most waits *)
(* for a reply, and what is on the wire is the reply to its request.       *)
ReplyOwned ==
    ~suspect =>
        /\ \A t, u \in Callers : pc[t] = "read" /\ pc[u] = "read" => t = u
        /\ wire # << >> =>
              \E t \in Callers : /\ pc[t] = "read" /\ Len(wire) = 1
                                 /\ wire[1].m = "tip" \/ wire[1] = req[t]

SameReaders ==
    /\ \A t \in Callers : (pc'[t] = "read") <=> (pc[t] = "read")
    /\ \A t \in Callers : pc[t] = "read" => req'[t] = req[t]

LEMMA SameReadersOwned ==
    ASSUME ReplyOwned, SameReaders, wire' = wire \/ wire' = << >>,
           suspect' = suspect
    PROVE  ReplyOwned'
BY DEF ReplyOwned, SameReaders

(* The steps that are not part of a call.                                  *)
LEMMA OthersOwned ==
    ASSUME ElectrumInv, ReplyOwned,
           \/ NewBlock \/ Drop \/ Await \/ StopStep \/ ConnectWithRetry
           \/ MonitorTick \/ StartStep \/ UNCHANGED electrumVars
    PROVE  ReplyOwned' /\ crossed' = crossed
<1> USE DEF ElectrumInv
<1>1. suspect' = suspect /\ crossed' = crossed /\ (wire' = wire \/ wire' = << >>)
  BY DEF NewBlock, Drop, Await, StopStep, Stop, LeaveOnStop, ConnectWithRetry,
     Connect, MonitorTick, StartStep, electrumVars, histVars, linkVars
<1>2. SameReaders
  <2>1. CASE NewBlock \/ Drop \/ Await \/ UNCHANGED electrumVars
    BY <2>1 DEF NewBlock, Drop, Await, electrumVars, SameReaders
  <2>2. CASE StopStep
    <3>1. req' = req
      BY <2>2 DEF StopStep
    <3>2. CASE Stop
      BY <3>1, <3>2, ThreadNames DEF Stop, At, Goto, CallType, SameReaders
    <3>3. CASE LeaveOnStop
      BY <3>1, <3>3, ThreadNames DEF LeaveOnStop, At, Goto, CallType, SameReaders
    <3> QED  BY <2>2, <3>2, <3>3 DEF StopStep
  <2>3. CASE ConnectWithRetry
    <3>1. req' = req
      BY <2>3 DEF ConnectWithRetry
    <3>2. /\ \A t \in Threads \ {"connector", "monitor"} : pc'[t] = pc[t]
          /\ pc'["monitor"] = pc["monitor"] \/ pc'["monitor"] = "tick"
      BY <2>3, ThreadNames DEF ConnectWithRetry, Goto, CallType
    <3>3. pc["monitor"] # "read"
      BY DEF LockType
    <3> QED  BY <3>1, <3>2, <3>3, ThreadNames DEF SameReaders
  <2>4. CASE MonitorTick
    BY <2>4, ThreadNames DEF MonitorTick, At, BeginCall, Goto, CallType, SameReaders
  <2>5. CASE StartStep
    <3>1. pc["start"] \in {"wait", "db", "answered"}
      BY <2>5 DEF StartStep, WaitForConnection, ReadDbLatest, Launch, At
    <3>2. \A t \in Callers \ {"start"} : req'[t] = req[t]
      BY <2>5, ThreadNames DEF StartStep, WaitForConnection, ReadDbLatest, Launch,
         BeginCall, EndCalls, CallType
    <3>3. \A t \in Indexers : pc[t] = "off"
      BY <3>1 DEF LoopType
    <3>4. \A t \in Threads : pc'[t] = pc[t]
             \/ pc'[t] \in {"db", "failed", "check", "done", "loop", "tick", "idle"}
      BY <2>5, ThreadNames DEF StartStep, WaitForConnection, ReadDbLatest, Launch,
         BeginCall, Goto, CallType
    <3>5. pc'["monitor"] = pc["monitor"]
      BY <2>5, ThreadNames DEF StartStep, WaitForConnection, ReadDbLatest, Launch,
         BeginCall, Goto, CallType
    <3>6. Callers = {"start", "monitor"} \cup Indexers
      BY DEF Callers
    <3> QED  BY <3>1, <3>2, <3>3, <3>4, <3>5, <3>6, ThreadNames DEF SameReaders
  <2> QED  BY <2>1, <2>2, <2>3, <2>4, <2>5
<1> QED  BY <1>1, <1>2, SameReadersOwned

LEMMA HandlerOwned ==
    ASSUME ElectrumInv, ReplyOwned, HandlerStep
    PROVE  ReplyOwned' /\ crossed' = crossed
<1> USE DEF ElectrumInv
<1>1. SameReaders
  BY ThreadNames DEF HandlerStep, HandleReconnection, Goto, CallType, SameReaders
<1>2. CASE UNCHANGED <<linkVars, muVars, faults, histVars>>
  BY <1>1, <1>2, SameReadersOwned DEF linkVars, histVars
<1>3. CASE /\ Reconnect /\ suspect' = \E t \in Callers : pc[t] = "read"
           /\ UNCHANGED crossed
  <2>1. wire' = << >>
    BY <1>3 DEF Reconnect
  <2> QED  BY <1>1, <1>3, <2>1 DEF ReplyOwned, SameReaders
<1> QED  BY <1>2, <1>3 DEF HandlerStep, HandleReconnection

LEMMA IndexOwned ==
    ASSUME ElectrumInv, ReplyOwned, NEW t \in Indexers, IndexStep(t)
    PROVE  ReplyOwned' /\ crossed' = crossed
<1> USE DEF ElectrumInv
<1>1. wire' = wire /\ suspect' = suspect /\ crossed' = crossed
  BY DEF IndexStep, linkVars, histVars
<1>2. pc[t] # "read"
  BY DEF IndexStep, CatchUp, LiveTick, LiveTip, HeaderAnswered, BlockAnswered, At
<1>3. \E l \in {"check", "tick", "done"} : Goto(t, l)
  BY DEF IndexStep, CatchUp, LiveTick, LiveTip, HeaderAnswered,
     BlockAnswered, SkipHeight, NextHeight, IndexFrom, BeginCall
<1>4. \E r : req' = [req EXCEPT ![t] = r]
  BY DEF IndexStep, CatchUp, LiveTick, LiveTip, HeaderAnswered,
     BlockAnswered, SkipHeight, NextHeight, IndexFrom, BeginCall, EndCalls
<1>5. SameReaders
  BY <1>2, <1>3, <1>4, ThreadNames DEF Goto, CallType, SameReaders
<1> QED  BY <1>1, <1>5, SameReadersOwned

LEMMA CallOwned ==
    ASSUME ElectrumInv, ReplyOwned, NEW t \in Callers, RpcStep(t)
    PROVE  ReplyOwned' /\ (crossed' /\ ~crossed => suspect)
<1> USE DEF ElectrumInv
<1>1. req' = req /\ t \in Threads /\ wire \in Seq(Replies) /\ Len(wire) \in Nat
  BY ThreadNames, LenProperties DEF RpcStep, LinkType
<1>2. CASE CallCheck(t)
  <2>1. wire' = wire /\ suspect' = suspect /\ crossed' = crossed
    BY <1>2 DEF CallCheck, linkVars, histVars
  <2>2. SameReaders
    BY <1>1, <1>2, ThreadNames DEF CallCheck, Return, Goto, At, CallType, SameReaders
  <2> QED  BY <2>1, <2>2, SameReadersOwned
<1>3. CASE CallWrite(t)
  <2>1. pc[t] = "write"
    BY <1>3 DEF CallWrite, At
  <2>2. CASE /\ Send(t) /\ Goto(t, "read")
             /\ suspect' = (suspect \/ \E u \in Callers \ {t} : pc[u] = "read")
             /\ UNCHANGED <<ans, crossed>>
    <3>1. SUFFICES ASSUME ~suspect' PROVE ReplyOwned'
      BY <2>2 DEF ReplyOwned
    <3>2. ~suspect /\ \A u \in Callers : pc[u] # "read"
      BY <2>1, <2>2, <3>1
    <3>3. wire = << >>
      BY <3>2 DEF ReplyOwned
    <3>4. pc'[t] = "read" /\ \A u \in Callers : pc'[u] = "read" => u = t
      BY <1>1, <2>2, <3>2, ThreadNames DEF Goto, CallType
    <3>5. wire' # << >> => Len(wire') = 1 /\ wire'[1] = Reply(req[t])
      BY <2>2, <3>3 DEF Send
    <3>6. Reply(req[t]).m = "tip" \/ Reply(req[t]) = req[t]
      BY AskFacts DEF Reply
    <3> QED  BY <1>1, <3>4, <3>5, <3>6 DEF ReplyOwned
  <2>3. CASE Return(t, Error) /\ UNCHANGED <<wire, histVars>>
    <3>1. SameReaders
      BY <1>1, <2>1, <2>3, ThreadNames DEF Return, Goto, CallType, SameReaders
    <3> QED  BY <2>3, <3>1, SameReadersOwned DEF histVars
  <2> QED  BY <1>3, <2>2, <2>3 DEF CallWrite
<1>4. CASE CallRead(t)
  <2>1. pc[t] = "read"
    BY <1>4 DEF CallRead, At
  <2>3. ASSUME Goto(t, "answered"), wire' = << >>, ~suspect' => ~suspect
        PROVE  ReplyOwned'
    BY <1>1, <2>3, ThreadNames DEF ReplyOwned, Goto, CallType
  <2>4. CASE UNCHANGED <<wire, pc, ans, faults, histVars>>
    BY <1>1, <2>4 DEF ReplyOwned, histVars
  <2>5. CASE Take(t)
    <3> DEFINE Long(i) == wire[i].m = "block" /\ wire[i].h \in Big
               left(k) == SubSeq(wire, k + 1, Len(wire))
    <3>1. PICK k \in 1..Len(wire) :
              /\ wire' = IF Long(k) THEN <<Ask("rest", 0)>> \o left(k) ELSE left(k)
              /\ Goto(t, "answered")
              /\ suspect' = (suspect \/ Long(k))
              /\ crossed' = \/ crossed
                            \/ /\ k = 1 /\ ~Long(k)
                               /\ wire[1].m = req[t].m /\ wire[1].m # "tip"
                               /\ wire[1].h # req[t].h
      BY <2>5 DEF Take, Return
    <3>2. CASE suspect
      BY <3>1, <3>2 DEF ReplyOwned
    <3>3. CASE ~suspect
      <4>1. wire # << >>
        BY <1>1, <3>1, EmptySeq
      <4>2. /\ Len(wire) = 1 /\ k = 1
            /\ wire[1].m = "tip" \/ wire[1] = req[t]
        BY <1>1, <2>1, <3>1, <3>3, <4>1 DEF ReplyOwned
      <4>3. ~(crossed' /\ ~crossed)
        BY <3>1, <4>2
      <4>4. CASE Long(k)
        BY <3>1, <4>3, <4>4 DEF ReplyOwned
      <4>5. CASE ~Long(k)
        <5>1. wire' = << >>
          BY <1>1, <3>1, <4>2, <4>5, SubSeqProperties, EmptySeq
        <5> QED  BY <2>3, <3>1, <3>3, <4>3, <5>1
      <4> QED  BY <4>4, <4>5
    <3> QED  BY <3>2, <3>3
  <2>6. CASE /\ Return(t, Error) /\ UNCHANGED <<wire, crossed>>
             /\ suspect' = (suspect \/ wire # << >>)
    <3>1. CASE wire = << >>
      <4>1. ~suspect' => ~suspect
        BY <2>6
      <4> QED  BY <2>3, <2>6, <3>1, <4>1 DEF Return
    <3>2. CASE wire # << >>
      BY <2>6, <3>2 DEF ReplyOwned
    <3> QED  BY <3>1, <3>2
  <2>7. CASE conn = "broken" /\ Return(t, Error) /\ UNCHANGED <<wire, histVars>>
    <3>1. wire = << >>
      BY <2>7 DEF LinkType
    <3> QED  BY <2>3, <2>7, <3>1 DEF Return, histVars
  <2> QED  BY <1>4, <2>4, <2>5, <2>6, <2>7 DEF CallRead
<1> QED  BY <1>2, <1>3, <1>4 DEF RpcStep

LEMMA ReplyOwnedStep ==
    ASSUME ElectrumInv, ReplyOwned, [ElectrumNext]_electrumVars
    PROVE  ReplyOwned' /\ (crossed' /\ ~crossed => suspect)
<1>1. ASSUME NEW t \in Threads, ThreadStep(t)
      PROVE  ReplyOwned' /\ (crossed' /\ ~crossed => suspect)
  BY <1>1, OthersOwned, HandlerOwned, IndexOwned, CallOwned DEF ThreadStep
<1> QED  BY <1>1, OthersOwned DEF ElectrumNext

(* A reply is taken for another height's only on a connection on which     *)
(* calls overlapped, or one left something to read: sequential calls never *)
(* mix up their replies, and a reconnection between calls starts afresh.   *)
THEOREM CrossedOnlyWhenSuspect == ElectrumSpec => NoCrossing
<1>1. ElectrumInit => ReplyOwned
  <2> SUFFICES ASSUME ElectrumInit PROVE ReplyOwned
    OBVIOUS
  <2>1. wire = << >> /\ \A t \in Callers : pc[t] # "read"
    BY ThreadNames DEF ElectrumInit, Threads, Callers, Indexers
  <2> QED  BY <2>1 DEF ReplyOwned
<1>2. ElectrumInv /\ ReplyOwned /\ [ElectrumNext]_electrumVars => ReplyOwned'
  BY ReplyOwnedStep
<1>3. ElectrumInv /\ ReplyOwned /\ [ElectrumNext]_electrumVars
         => [crossed' /\ ~crossed => suspect]_electrumVars
  BY ReplyOwnedStep
<1> QED  BY <1>1, <1>2, <1>3, ElectrumInvariant, PTL DEF ElectrumSpec, NoCrossing

-----------------------------------------------------------------------------
(* The heights above d and below n are indexed, or their failure logged,   *)
(* in tables of rows r and vault transactions v, with the log l.           *)
Indexed(h, r, l, v) ==
    /\ h \in r \cup l
    /\ h \in WithVault => h \in l \cup {w.height : w \in v}
Covered(d, n, r, l, v) ==
    \A h \in Blocks : d < h /\ h < n => Indexed(h, r, l, v)

LEMMA CoveredGrows ==
    ASSUME NEW d, NEW n, NEW r, NEW l, NEW v, NEW r2, NEW l2, NEW v2,
           Covered(d, n, r, l, v), r \subseteq r2, l \subseteq l2, v \subseteq v2
    PROVE  Covered(d, n, r2, l2, v2)
BY DEF Covered, Indexed

LEMMA CoveredNext ==
    ASSUME NEW d, NEW n \in Nat, NEW r, NEW l, NEW v,
           Covered(d, n, r, l, v), Indexed(n, r, l, v)
    PROVE  Covered(d, n + 1, r, l, v)
<1>1. \A h \in Blocks : h < n + 1 => h < n \/ h = n
  BY ElectrumConstants
<1> QED  BY <1>1 DEF Covered

(* What the two loops keep: everything below the height they are at, and   *)
(* up to lastHeight, is covered; and no reply they hold is another's.      *)
CoveredTo(n) == Covered(dbLatest, n, rows, logged, vaults)
LoopCovered(t) ==
    req[t].m \in {"header", "block"} =>
        /\ CoveredTo(span[t].next)
        /\ ans[t].m = req[t].m => ans[t].h = req[t].h
        /\ req[t].m = "block" => span[t].next \in rows
VaultsTrue(v) == \A w \in v : w.block = w.height
LoopsCovered ==
    /\ CoveredTo(lastHeight + 1)
    /\ pc["catchup"] = "loop" => CoveredTo(span["catchup"].next)
    /\ \A t \in Indexers : LoopCovered(t)
    /\ VaultsTrue(vaults)
IndexCovered == ~crossed => LoopsCovered

LEMMA OthersCovered ==
    ASSUME ElectrumInv, LoopsCovered,
           UNCHANGED <<req, ans, span, dbLatest, lastHeight, rows, vaults, logged>>,
           pc'["catchup"] = "loop" => pc["catchup"] = "loop"
    PROVE  LoopsCovered'
BY DEF LoopsCovered, LoopCovered, CoveredTo

LEMMA ThreadsCovered ==
    ASSUME ElectrumInv, LoopsCovered,
           \/ NewBlock \/ Drop \/ Await \/ StopStep \/ ConnectWithRetry
           \/ HandlerStep \/ UNCHANGED electrumVars
    PROVE  LoopsCovered'
<1>1. UNCHANGED <<req, ans, span, dbLatest, lastHeight, rows, vaults, logged>>
  BY DEF NewBlock, Drop, Await, StopStep, ConnectWithRetry, HandlerStep,
     electrumVars, indexVars
<1>2. pc'["catchup"] = pc["catchup"]
  <2>1. CASE NewBlock \/ Drop \/ Await \/ UNCHANGED electrumVars
    BY <2>1 DEF NewBlock, Drop, Await, electrumVars
  <2>2. CASE StopStep
    BY <2>2, ThreadNames DEF StopStep, Stop, LeaveOnStop, Goto, ElectrumInv, CallType
  <2>3. CASE ConnectWithRetry
    BY <2>3, ThreadNames DEF ConnectWithRetry, Goto, ElectrumInv, CallType
  <2>4. CASE HandlerStep
    BY <2>4, ThreadNames DEF HandlerStep, HandleReconnection, Goto, ElectrumInv,
       CallType
  <2> QED  BY <2>1, <2>2, <2>3, <2>4
<1> QED  BY <1>1, <1>2, OthersCovered

LEMMA MonitorCovered ==
    ASSUME ElectrumInv, LoopsCovered, MonitorTick
    PROVE  LoopsCovered'
<1>1. UNCHANGED <<span, dbLatest, lastHeight, rows, vaults, logged>>
  BY DEF MonitorTick, indexVars
<1>2. /\ pc'["catchup"] = pc["catchup"]
      /\ \A t \in Indexers : req'[t] = req[t] /\ ans'[t] = ans[t]
  BY ThreadNames DEF MonitorTick, BeginCall, Goto, ElectrumInv, CallType
<1> QED  BY <1>1, <1>2 DEF LoopsCovered, LoopCovered, CoveredTo

LEMMA StartCovered ==
    ASSUME ElectrumInv, LoopsCovered, StartStep
    PROVE  LoopsCovered'
<1> USE DEF ElectrumInv
<1>1. UNCHANGED <<rows, vaults, logged>>
  BY DEF StartStep
<1>2. pc["start"] # "done"
  BY DEF StartStep, WaitForConnection, ReadDbLatest, Launch, At
<1>3. lastHeight = 0 /\ \A t \in Indexers : pc[t] = "off" /\ req[t] = NoRequest
  BY <1>2 DEF LoopType
<1>4. \A t \in Indexers : req'[t] = NoRequest
  BY <1>3, ThreadNames DEF StartStep, WaitForConnection, ReadDbLatest, Launch,
     BeginCall, EndCalls, CallType
<1>5. \A t \in Indexers : LoopCovered(t)'
  BY <1>4, AskFacts DEF LoopCovered
<1>6. VaultsTrue(vaults')
  BY <1>1 DEF LoopsCovered, VaultsTrue
<1>7. ASSUME NEW d \in Blocks, NEW n \in Nat, n <= d + 1
      PROVE  Covered(d, n, rows', logged', vaults')
  BY <1>7, ElectrumConstants DEF Covered
<1>8. CASE WaitForConnection \/ ReadDbLatest
  <2>1. lastHeight' = 0 /\ pc'["catchup"] # "loop" /\ dbLatest' \in Blocks
    BY <1>3, <1>8, ThreadNames DEF WaitForConnection, ReadDbLatest, BeginCall, Goto,
       CallType, IndexingType
  <2>2. CoveredTo(lastHeight + 1)'
    BY <1>7, <2>1, ElectrumConstants DEF CoveredTo
  <2> QED  BY <1>5, <1>6, <2>1, <2>2 DEF LoopsCovered
<1>9. CASE Launch
  <2>1. dbLatest' = dbLatest /\ dbLatest \in Blocks /\ dbLatest + 1 \in Nat
        /\ 1 <= dbLatest + 1
    BY <1>9, ElectrumConstants DEF Launch, IndexingType
  <2>2. CASE /\ span' = [span EXCEPT !["catchup"] =
                            [next |-> dbLatest + 1, last |-> ans["start"].h]]
             /\ lastHeight' = dbLatest
    <3>1. span'["catchup"].next = dbLatest + 1
      BY <2>2, ThreadNames DEF IndexingType
    <3>2. CoveredTo(lastHeight + 1)' /\ CoveredTo(span["catchup"].next)'
      BY <1>7, <2>1, <2>2, <3>1 DEF CoveredTo
    <3> QED  BY <1>5, <1>6, <3>2 DEF LoopsCovered
  <2>3. CASE Goto("start", "failed") /\ UNCHANGED <<span, lastHeight>>
    <3>1. pc'["catchup"] # "loop"
      BY <1>3, <2>3, ThreadNames DEF Goto, CallType
    <3>2. CoveredTo(lastHeight + 1)'
      BY <1>3, <1>7, <2>1, <2>3 DEF CoveredTo
    <3> QED  BY <1>5, <1>6, <3>1, <3>2 DEF LoopsCovered
  <2> QED  BY <1>9, <2>2, <2>3 DEF Launch
<1> QED  BY <1>8, <1>9 DEF StartStep

(* A call brings the reply to its own request, unless it is crossed.       *)
LEMMA CallCovered ==
    ASSUME ElectrumInv, IndexCovered, NEW t \in Callers, RpcStep(t)
    PROVE  IndexCovered'
<1> SUFFICES ASSUME ~crossed' PROVE LoopsCovered'
  BY DEF IndexCovered
<1> USE DEF ElectrumInv
<1>1. UNCHANGED <<req, span, dbLatest, lastHeight, rows, vaults, logged>>
  BY DEF RpcStep, indexVars
<1>2. pc'["catchup"] = "loop" => pc["catchup"] = "loop"
  BY ThreadNames DEF RpcStep, CallCheck, CallWrite, CallRead, Take, Return, Goto,
     CallType
<1>3. ~crossed /\ \E a : /\ ans' = ans \/ ans' = [ans EXCEPT ![t] = a]
                         /\ a.m = req[t].m /\ a.m # "tip" => a.h = req[t].h
                         /\ a.m \in {"none", "error"} \/ a \in Replies
  <2>1. CASE ans' = ans /\ crossed' = crossed
    BY <2>1, AskFacts, AnswerFacts
  <2>0. req[t].m # "error" /\ Error.m = "error"
    BY AskFacts DEF CallType, ReqSet, Requests
  <2>2. CASE ans' = [ans EXCEPT ![t] = Error] /\ crossed' = crossed
    BY <2>0, <2>2
  <2>3. CASE Take(t)
    <3> DEFINE Long(i) == wire[i].m = "block" /\ wire[i].h \in Big
    <3>1. PICK k \in 1..Len(wire) :
              /\ ans' = [ans EXCEPT ![t] =
                            IF k = 1 /\ ~Long(k) THEN wire[1] ELSE Error]
              /\ crossed' = \/ crossed
                            \/ /\ k = 1 /\ ~Long(k)
                               /\ wire[1].m = req[t].m /\ wire[1].m # "tip"
                               /\ wire[1].h # req[t].h
      BY <2>3 DEF Take, Return
    <3>2. ~crossed
      BY <3>1
    <3>3. CASE k = 1 /\ ~Long(k)
      <4>1. wire[1] \in Replies
        BY <3>1, <3>3, ElementOfSeq DEF LinkType
      <4> QED  BY <3>1, <3>2, <3>3, <4>1
    <3>4. CASE ~(k = 1 /\ ~Long(k))
      <4>1. ans' = [ans EXCEPT ![t] = Error]
        BY <3>1, <3>4
      <4> QED  BY <2>0, <3>2, <4>1
    <3> QED  BY <3>3, <3>4
  <2> QED  BY <2>1, <2>2, <2>3
           DEF RpcStep, CallCheck, CallWrite, CallRead, Return, histVars
<1>4. \A u \in Indexers : ans'[u].m = req[u].m /\ req[u].m \in {"header", "block"}
                             => ans'[u].h = req[u].h
  BY <1>3, ThreadNames DEF IndexCovered, LoopsCovered, LoopCovered, CallType
<1> QED  BY <1>1, <1>2, <1>3, <1>4
         DEF IndexCovered, LoopsCovered, LoopCovered, CoveredTo

(* The loop head keeps the cover, given that the tables only grew and that *)
(* everything below the height it starts at is covered.                    *)
LEMMA LoopHeadCovered ==
    ASSUME ElectrumInv, LoopsCovered, NEW t \in Indexers,
           NEW n \in Nat, NEW last \in Blocks, IndexFrom(t, n, last),
           dbLatest' = dbLatest, rows \subseteq rows', logged \subseteq logged',
           vaults \subseteq vaults',
           Covered(dbLatest, n, rows', logged', vaults'),
           Covered(dbLatest, lastHeight' + 1, rows', logged', vaults'),
           VaultsTrue(vaults')
    PROVE  LoopsCovered'
<1> USE DEF ElectrumInv
<1>1. ASSUME NEW u \in Indexers \ {t}
      PROVE  /\ req'[u] = req[u] /\ ans'[u] = ans[u] /\ span'[u] = span[u]
             /\ pc'[u] = pc[u]
  BY <1>1, ThreadNames DEF IndexFrom, BeginCall, EndCalls, Goto, CallType, IndexingType
<1>2. pc'[t] # "loop"
  BY ThreadNames DEF IndexFrom, BeginCall, Goto, CallType
<1>3. LoopCovered(t)'
  <2>1. CASE /\ span' = [span EXCEPT ![t] = [next |-> n, last |-> last]]
             /\ BeginCall(t, Ask("header", n))
    <3>1. /\ span'[t].next = n /\ req'[t].m = "header" /\ ans'[t].m = "none"
      BY <2>1, ThreadNames, AskFacts DEF BeginCall, CallType, IndexingType
    <3> QED  BY <3>1 DEF LoopCovered, CoveredTo
  <2>2. CASE EndCalls(t)
    <3>1. req'[t].m = "none"
      BY <2>2, ThreadNames, AskFacts DEF EndCalls, CallType
    <3> QED  BY <3>1 DEF LoopCovered
  <2> QED  BY <2>1, <2>2 DEF IndexFrom
<1>4. ASSUME NEW u \in Indexers \ {t} PROVE LoopCovered(u)'
  BY <1>1, CoveredGrows DEF LoopsCovered, LoopCovered, CoveredTo
<1>5. pc'["catchup"] = "loop" => CoveredTo(span["catchup"].next)'
  <2>1. CASE t = "catchup"
    BY <1>2, <2>1
  <2>2. CASE t # "catchup"
    <3>1. pc'["catchup"] = pc["catchup"] /\ span'["catchup"] = span["catchup"]
      BY <1>1, <2>2, ThreadNames
    <3> QED  BY <3>1, CoveredGrows DEF LoopsCovered, CoveredTo
  <2> QED  BY <2>1, <2>2
<1> QED  BY <1>3, <1>4, <1>5 DEF LoopsCovered, CoveredTo

LEMMA IndexStepCovered ==
    ASSUME ElectrumInv, LoopsCovered, NEW t \in Indexers, IndexStep(t)
    PROVE  LoopsCovered'
<1> USE DEF ElectrumInv
<1> DEFINE n == span[t].next
<1>1. t \in Callers /\ req[t] \in ReqSet /\ ans[t] \in AnsSet
  BY ThreadNames DEF CallType
<1>2. /\ n \in Nat /\ n + 1 \in Nat /\ span[t].last \in Blocks
      /\ lastHeight \in Nat /\ lastHeight + 1 \in Nat
  BY ElectrumConstants DEF IndexingType
<1>3. CASE t = "catchup" /\ CatchUp
  <2>1. /\ IndexFrom(t, n, span[t].last)
        /\ UNCHANGED <<dbLatest, lastHeight, rows, vaults, logged>>
    BY <1>3 DEF CatchUp
  <2>2. CoveredTo(n) /\ CoveredTo(lastHeight + 1) /\ VaultsTrue(vaults)
    BY <1>3 DEF CatchUp, At, LoopsCovered
  <2> QED  BY <1>2, <2>1, <2>2, LoopHeadCovered DEF CoveredTo
<1>4. CASE t = "live" /\ LiveTick
  <2>1. UNCHANGED <<span, dbLatest, lastHeight, rows, vaults, logged>>
    BY <1>4 DEF LiveTick, indexVars
  <2>2. /\ pc'["catchup"] = pc["catchup"] /\ req'["live"].m = "tip"
        /\ req'["catchup"] = req["catchup"] /\ ans'["catchup"] = ans["catchup"]
    BY <1>4, ThreadNames, AskFacts DEF LiveTick, BeginCall, Goto, CallType
  <2>3. Indexers = {"catchup", "live"}
    BY DEF Indexers
  <2> QED  BY <2>1, <2>2, <2>3 DEF LoopsCovered, LoopCovered, CoveredTo
<1>5. CASE t = "live" /\ LiveTip
  <2>1. UNCHANGED <<dbLatest, lastHeight, rows, vaults, logged>>
    BY <1>5 DEF LiveTip
  <2>2. CASE ans[t].m = "tip" /\ IndexFrom(t, lastHeight + 1, ans[t].h)
    <3>1. ans[t].h \in Blocks
      BY <1>1, <2>2, AnswerFacts
    <3>2. CoveredTo(lastHeight + 1) /\ VaultsTrue(vaults)
      BY DEF LoopsCovered
    <3> QED  BY <1>2, <2>1, <2>2, <3>1, <3>2, LoopHeadCovered DEF CoveredTo
  <2>3. CASE Goto(t, "tick") /\ EndCalls(t) /\ UNCHANGED span
    <3>1. /\ pc'["catchup"] = pc["catchup"] /\ req'["live"].m = "none"
          /\ req'["catchup"] = req["catchup"] /\ ans'["catchup"] = ans["catchup"]
      BY <1>5, <2>3, ThreadNames, AskFacts DEF EndCalls, Goto, CallType
    <3>2. Indexers = {"catchup", "live"}
      BY DEF Indexers
    <3> QED  BY <2>1, <2>3, <3>1, <3>2 DEF LoopsCovered, LoopCovered, CoveredTo
  <2> QED  BY <1>5, <2>2, <2>3 DEF LiveTip
<1>6. ASSUME SkipHeight(t), req[t].m \in {"header", "block"}
      PROVE  LoopsCovered'
  <2>1. /\ IndexFrom(t, n + 1, span[t].last) /\ logged' = logged \cup {n}
        /\ UNCHANGED <<dbLatest, lastHeight, rows, vaults>>
    BY <1>6 DEF SkipHeight, NextHeight
  <2>2. CoveredTo(n) /\ CoveredTo(lastHeight + 1) /\ VaultsTrue(vaults)
    BY <1>6 DEF LoopsCovered, LoopCovered
  <2> HIDE DEF n
  <2>3. /\ Covered(dbLatest, n, rows', logged', vaults')
        /\ Covered(dbLatest, lastHeight + 1, rows', logged', vaults')
    BY <2>1, <2>2, CoveredGrows DEF CoveredTo
  <2>4. Indexed(n, rows', logged', vaults')
    BY <2>1 DEF Indexed
  <2>5. Covered(dbLatest, n + 1, rows', logged', vaults')
    BY <1>2, <2>3, <2>4, CoveredNext
  <2> QED  BY <1>2, <2>1, <2>2, <2>3, <2>5, LoopHeadCovered
<1>7. CASE HeaderAnswered(t)
  <2>1. CASE /\ ans[t].m = "header" /\ rows' = rows \cup {ans[t].h}
             /\ BeginCall(t, Ask("block", span[t].next))
             /\ UNCHANGED <<span, dbLatest, lastHeight, vaults, logged>>
    <3>1. ans[t].h = n /\ CoveredTo(n)
      BY <1>7, <2>1 DEF HeaderAnswered, LoopsCovered, LoopCovered, LoopType
    <3>2. /\ req'[t].m = "block" /\ ans'[t].m = "none"
          /\ pc'["catchup"] = "loop" => pc["catchup"] = "loop"
          /\ \A u \in Indexers \ {t} : req'[u] = req[u] /\ ans'[u] = ans[u]
      BY <1>1, <2>1, ThreadNames, AskFacts DEF BeginCall, Goto, CallType
    <3>3. \A u \in Indexers : CoveredTo(span[u].next) => CoveredTo(span[u].next)'
      BY <2>1, CoveredGrows DEF CoveredTo
    <3>4. CoveredTo(lastHeight + 1)'
      BY <2>1, CoveredGrows DEF CoveredTo, LoopsCovered
    <3>5. LoopCovered(t)'
      BY <2>1, <3>1, <3>2, <3>3 DEF LoopCovered
    <3>6. ASSUME NEW u \in Indexers \ {t} PROVE LoopCovered(u)'
      BY <2>1, <3>2, <3>3, <3>6 DEF LoopsCovered, LoopCovered
    <3> QED  BY <2>1, <3>2, <3>3, <3>4, <3>5, <3>6, ThreadNames DEF LoopsCovered
  <2> QED  BY <1>6, <1>7, <2>1 DEF HeaderAnswered
<1>8. CASE BlockAnswered(t)
  <2>1. req[t].m = "block"
    BY <1>8 DEF BlockAnswered
  <2>2. CASE /\ ans[t].m = "block" /\ lastHeight' = n
             /\ \/ /\ vaults' = IF ans[t].h \in WithVault \ {v.block : v \in vaults}
                                THEN vaults \cup {[block |-> ans[t].h, height |-> n]}
                                ELSE vaults
                   /\ UNCHANGED logged
                \/ logged' = logged \cup {n} /\ UNCHANGED vaults
             /\ NextHeight(t) /\ UNCHANGED <<dbLatest, rows>>
    <3>1. ans[t].h = n /\ n \in rows /\ CoveredTo(n)
      BY <2>1, <2>2 DEF LoopsCovered, LoopCovered, LoopType
    <3>2. VaultsTrue(vaults)
      BY DEF LoopsCovered
    <3>3. IndexFrom(t, n + 1, span[t].last)
      BY <2>2 DEF NextHeight
    <3> HIDE DEF n
    <3>4. rows \subseteq rows' /\ logged \subseteq logged' /\ vaults \subseteq vaults'
      BY <2>2
    <3>5. VaultsTrue(vaults')
      BY <2>2, <3>1, <3>2 DEF VaultsTrue
    <3>6. Indexed(n, rows', logged', vaults')
      <4>1. CASE n \in WithVault /\ logged' = logged
        <5>1. CASE n \in {v.block : v \in vaults}
          BY <2>2, <3>1, <3>2, <3>4, <4>1, <5>1 DEF Indexed, VaultsTrue
        <5>2. CASE n \notin {v.block : v \in vaults} /\ n \notin logged
          <6>1. [block |-> n, height |-> n] \in vaults'
            BY <2>2, <3>1, <4>1, <5>2
          <6> QED  BY <2>2, <3>1, <6>1 DEF Indexed
        <5>3. CASE n \in logged
          BY <3>1, <3>4, <5>3 DEF Indexed
        <5> QED  BY <5>1, <5>2, <5>3
      <4>2. CASE n \notin WithVault \/ n \in logged'
        BY <3>1, <3>4, <4>2 DEF Indexed
      <4> QED  BY <2>2, <4>1, <4>2
    <3>7. Covered(dbLatest, n, rows', logged', vaults')
      BY <3>1, <3>4, CoveredGrows DEF CoveredTo
    <3>8. Covered(dbLatest, n + 1, rows', logged', vaults')
      BY <1>2, <3>6, <3>7, CoveredNext
    <3> QED  BY <1>2, <2>2, <3>3, <3>4, <3>5, <3>8, LoopHeadCovered
  <2> QED  BY <1>6, <1>8, <2>1, <2>2 DEF BlockAnswered
<1> QED  BY <1>3, <1>4, <1>5, <1>7, <1>8 DEF IndexStep

LEMMA IndexCoveredStep ==
    ASSUME ElectrumInv, IndexCovered, [ElectrumNext]_electrumVars
    PROVE  IndexCovered'
<1>1. ASSUME NEW t \in Threads, ThreadStep(t) PROVE IndexCovered'
  <2>1. CASE t \in Callers /\ RpcStep(t)
    BY <2>1, CallCovered
  <2>2. CASE ConnectWithRetry \/ HandlerStep \/ MonitorTick \/ StartStep
    <3>1. crossed' = crossed
      BY <2>2 DEF ConnectWithRetry, HandlerStep, HandleReconnection, MonitorTick,
         StartStep, histVars
    <3> QED  BY <2>2, <3>1, ThreadsCovered, MonitorCovered, StartCovered DEF IndexCovered
  <2>3. CASE t \in Indexers /\ IndexStep(t)
    <3>1. crossed' = crossed
      BY <2>3 DEF IndexStep, histVars
    <3> QED  BY <2>3, <3>1, IndexStepCovered DEF IndexCovered
  <2> QED  BY <1>1, <2>1, <2>2, <2>3 DEF ThreadStep
<1>2. CASE NewBlock \/ Drop \/ Await \/ StopStep \/ UNCHANGED electrumVars
  <2>1. crossed' = crossed
    BY <1>2 DEF NewBlock, Drop, Await, StopStep, electrumVars, histVars
  <2> QED  BY <1>2, <2>1, ThreadsCovered DEF IndexCovered
<1> QED  BY <1>1, <1>2 DEF ElectrumNext

(* Nothing is skipped silently: unless a reply was crossed, each height up *)
(* to lastHeight is stored or its failure logged, with its vault           *)
(* transactions, although two loops move lastHeight at the same time; and  *)
(* a vault transaction carries the height of its block.                    *)
THEOREM NothingSkipped == ElectrumSpec => []IndexFaithful
<1>1. ElectrumInit => IndexCovered
  <2> SUFFICES ASSUME ElectrumInit PROVE LoopsCovered
    BY DEF IndexCovered
  <2>1. CoveredTo(lastHeight + 1)
    BY ElectrumConstants DEF ElectrumInit, CoveredTo, Covered
  <2>2. pc["catchup"] # "loop"
    BY ThreadNames DEF ElectrumInit, Threads, Callers, Indexers
  <2>3. \A t \in Indexers : LoopCovered(t)
    BY AskFacts, ThreadNames DEF ElectrumInit, LoopCovered
  <2> QED  BY <2>1, <2>2, <2>3 DEF LoopsCovered, ElectrumInit, VaultsTrue
<1>2. ElectrumInv /\ IndexCovered /\ [ElectrumNext]_electrumVars => IndexCovered'
  BY IndexCoveredStep
<1>3. ElectrumInv /\ IndexCovered => IndexFaithful
  <2> SUFFICES ASSUME ElectrumInv, LoopsCovered PROVE IndexFaithful
    BY DEF IndexCovered, IndexFaithful
  <2>1. ASSUME NEW h \in (dbLatest + 1)..lastHeight
        PROVE  h \in Blocks /\ dbLatest < h /\ h < lastHeight + 1
    BY <2>1, ElectrumConstants DEF ElectrumInv, IndexingType, Blocks
  <2>2. \A h \in (dbLatest + 1)..lastHeight : Indexed(h, rows, logged, vaults)
    BY <2>1 DEF LoopsCovered, CoveredTo, Covered
  <2> QED  BY <2>2 DEF IndexFaithful, Indexed, LoopsCovered, VaultsTrue
<1> QED  BY <1>1, <1>2, <1>3, ElectrumInvariant, PTL DEF ElectrumSpec
=============================================================================
