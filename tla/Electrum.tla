------------------------------ MODULE Electrum ------------------------------
(***************************************************************************)
(* A BtcClient run by StartElectrumIndexer (pkg/btc/electrum.go): one TCP  *)
(* connection behind one sync.RWMutex, shared by the goroutines that       *)
(* connect, ping, reconnect, catch up and follow the tip.                  *)
(*                                                                         *)
(* A section under mu.Lock is one step: the goroutine that holds the lock  *)
(* always leaves the section again (every call in it has a deadline), and  *)
(* nobody else touches what it guards meanwhile.  The read lock that       *)
(* isConnectionAlive keeps while it calls callRPCMethod spans steps, so    *)
(* the readers of the mutex are state, and so is whether a goroutine waits *)
(* in Lock: it keeps new readers out, as Go's mutex does.                  *)
(***************************************************************************)
EXTENDS Naturals, Sequences, FiniteSets

CONSTANTS
    DbRows,      \* what btc_block_headers may hold at the start
    TopHeight,   \* the server's chain grows up to this height
    WithVault,   \* heights whose blocks hold a vault transaction
    Big,         \* heights whose block does not fit the buffer of one Read
    MaxWire,     \* replies the sockets hold before a Write times out
    MaxFaults    \* bound on failing calls and lost connections

ASSUME ElectrumAssumption ==
    /\ TopHeight \in Nat /\ MaxFaults \in Nat /\ MaxWire \in Nat
    /\ DbRows \subseteq SUBSET (0..TopHeight)
    /\ WithVault \subseteq 0..TopHeight /\ Big \subseteq 0..TopHeight

Indexers == {"catchup", "live"}
Callers == Indexers \cup {"start", "monitor"}
Threads == Callers \cup {"connector", "handler", "stopper"}

Requests == [m : {"tip", "header", "block", "ping"}, h : 0..TopHeight]
Replies == [m : {"tip", "header", "block", "rest"}, h : 0..TopHeight]
Ask(m, h) == [m |-> m, h |-> h]
Error == Ask("error", 0)
NoRequest == Ask("none", 0)

VARIABLES
    conn,          \* c.conn: "nil", "up", or "broken" by the peer
    isConnected,   \* c.isConnected
    wire,          \* replies the connection will deliver, in order
    reconnectChan, \* is there a token in the channel of capacity one
    readers,       \* goroutines that hold mu.RLock between two steps
    waiting,       \* some goroutine is blocked in mu.Lock
    stopped,       \* stopChan is closed
    panicked,      \* the process died of a nil connection
    pc, req, ans,  \* where each goroutine is; the call it makes; its result
    span,          \* the heights an indexing loop still goes through
    dbLatest, lastHeight, rows, vaults,
    head,          \* the server's height
    faults,        \* calls that failed, and how many more may
    logged,        \* history: heights whose failure went to the log
    crossed,       \* history: a reply was taken for another height's
    suspect        \* history: on this connection calls overlapped, or left
                   \* something to read

linkVars == <<conn, isConnected, wire>>
muVars == <<readers, waiting>>
indexVars == <<span, dbLatest, lastHeight, rows, vaults, logged>>
histVars == <<crossed, suspect>>
electrumVars == <<linkVars, reconnectChan, muVars, stopped, panicked, pc, req,
                  ans, indexVars, head, faults, histVars>>

Fault ==
    /\ faults.left > 0
    /\ faults' = [used |-> faults.used + 1, left |-> faults.left - 1]
NoFault == faults' = faults

ElectrumInit ==
    /\ conn = "nil" /\ isConnected = FALSE /\ wire = << >>
    /\ reconnectChan = FALSE /\ readers = {} /\ waiting = FALSE
    /\ stopped = FALSE /\ panicked = FALSE
    /\ \E run \in {"run", "off"} :  \* does the service ever call Stop
         pc = [t \in Threads |->
                  CASE t = "start" -> "wait" [] t = "connector" -> "select"
                    [] t = "stopper" -> run [] OTHER -> "off"]
    /\ req = [t \in Callers |-> NoRequest]
    /\ ans = [t \in Callers |-> NoRequest]
    /\ span = [t \in Indexers |-> [next |-> 0, last |-> 0]]
    /\ lastHeight = 0 /\ dbLatest = 0 /\ rows \in DbRows /\ vaults = {}
    /\ head \in {h \in 0..TopHeight : rows \subseteq 0..h}
    /\ \E n \in 0..MaxFaults : faults = [used |-> 0, left |-> n]
    /\ logged = {} /\ crossed = FALSE /\ suspect = FALSE

-----------------------------------------------------------------------------
(* External: the server's chain grows; the server drops the connection.    *)
NewBlock ==
    /\ head < TopHeight
    /\ head' = head + 1
    /\ UNCHANGED <<linkVars, reconnectChan, muVars, stopped, panicked, pc,
                   req, ans, indexVars, faults, histVars>>

Drop ==
    /\ conn = "up"
    /\ Fault
    /\ conn' = "broken"
    /\ wire' = << >>
    /\ UNCHANGED <<isConnected, reconnectChan, muVars, stopped, panicked, pc,
                   req, ans, indexVars, head, histVars>>

-----------------------------------------------------------------------------
(* The mutex.                                                              *)
CanLock == readers = {}
CanRLock == ~waiting
AtLock(t) == pc[t] \in {"connect", "reconnect", "disconnect", "write", "read"}
MuLocked == CanLock /\ UNCHANGED muVars

Await ==
    /\ \E t \in Threads : AtLock(t)
    /\ ~CanLock /\ ~waiting /\ waiting' = TRUE
    /\ UNCHANGED <<linkVars, reconnectChan, readers, stopped, panicked, pc,
                   req, ans, indexVars, head, faults, histVars>>

At(t, label) == pc[t] = label /\ ~panicked
Goto(t, label) == pc' = [pc EXCEPT ![t] = label]

(* Deviation used to test the properties: a blocking send.                 *)
MutTriggerReconnect == ~reconnectChan /\ reconnectChan' = TRUE

(* The non-blocking send on the channel of capacity one.                   *)
TriggerReconnect == reconnectChan' = TRUE
NoTrigger == UNCHANGED reconnectChan

-----------------------------------------------------------------------------
(* ConnectWithRetry: tries until Connect succeeds, then starts the monitor.*)
Connect ==
    \/ /\ isConnected /\ NoFault /\ UNCHANGED linkVars
    \/ /\ ~isConnected /\ NoFault
       /\ conn' = "up" /\ isConnected' = TRUE /\ wire' = << >>

ConnectWithRetry ==
    /\ \/ /\ At("connector", "select") /\ ~stopped
          /\ Goto("connector", "connect")
          /\ NoFault /\ UNCHANGED <<linkVars, muVars>>
       \/ /\ At("connector", "connect") /\ MuLocked
          /\ Connect
          /\ pc' = [pc EXCEPT !["connector"] = "done", !["monitor"] = "tick"]
       \/ /\ At("connector", "connect") /\ MuLocked
          /\ ~isConnected /\ Fault /\ Goto("connector", "select")
          /\ UNCHANGED linkVars
    /\ UNCHANGED <<reconnectChan, stopped, panicked, req, ans, indexVars,
                   head, histVars>>

(* Deviation used to test the properties: a failed dial leaves isConnected *)
(* as it was.                                                              *)
MutReconnect ==
    \/ /\ NoFault
       /\ conn' = "up" /\ isConnected' = TRUE /\ wire' = << >>
    \/ /\ Fault
       /\ conn' = "nil" /\ wire' = << >> /\ UNCHANGED isConnected

(* Deviation used to test the properties: the socket survives.             *)
MutReconnectKeeps ==
    \/ /\ NoFault
       /\ conn' = "up" /\ isConnected' = TRUE /\ UNCHANGED wire
    \/ /\ Fault
       /\ conn' = "nil" /\ isConnected' = FALSE /\ UNCHANGED wire

(* Deviation used to test the properties: the dial is left to the next     *)
(* token.                                                                  *)
MutReconnectCloses ==
    /\ NoFault
    /\ IF conn = "nil" THEN conn' = "up" /\ isConnected' = TRUE
                       ELSE conn' = "nil" /\ isConnected' = FALSE
    /\ wire' = << >>

(* Reconnect: closes, sleeps and dials, all under the lock.                *)
Reconnect ==
    \/ /\ NoFault
       /\ conn' = "up" /\ isConnected' = TRUE /\ wire' = << >>
    \/ /\ Fault
       /\ conn' = "nil" /\ isConnected' = FALSE /\ wire' = << >>

HandleReconnection ==
    \/ /\ At("handler", "idle") /\ reconnectChan
       /\ reconnectChan' = FALSE /\ Goto("handler", "reconnect")
       /\ UNCHANGED <<linkVars, muVars, faults, histVars>>
    \/ /\ At("handler", "reconnect") /\ MuLocked
       /\ Reconnect /\ Goto("handler", "idle")
       /\ suspect' = \E t \in Callers : pc[t] = "read"
       /\ NoTrigger /\ UNCHANGED crossed

HandlerStep ==
    /\ HandleReconnection
    /\ UNCHANGED <<stopped, panicked, req, ans, indexVars, head>>

-----------------------------------------------------------------------------
(* callRPCMethod, for each of its callers.                                 *)
BeginCall(t, r) ==
    /\ Goto(t, "check")
    /\ req' = [req EXCEPT ![t] = r] /\ ans' = [ans EXCEPT ![t] = NoRequest]
EndCalls(t) ==
    req' = [req EXCEPT ![t] = NoRequest] /\ ans' = [ans EXCEPT ![t] = NoRequest]
Return(t, a) == Goto(t, "answered") /\ ans' = [ans EXCEPT ![t] = a]

CallCheck(t) ==
    /\ At(t, "check") /\ CanRLock
    /\ IF isConnected THEN Goto(t, "write") /\ UNCHANGED ans
                      ELSE Return(t, Error)
    /\ UNCHANGED <<linkVars, reconnectChan, muVars, faults, panicked, histVars>>

(* What the server sends back for a request.                               *)
Reply(r) == IF r.m = "tip" THEN Ask("tip", head) ELSE r

Send(t) ==
    \/ /\ conn = "up" /\ Len(wire) < MaxWire
       /\ wire' = Append(wire, Reply(req[t]))
    \/ /\ conn = "broken" /\ UNCHANGED wire

(* Lock, write, unlock.                                                    *)
CallWrite(t) ==
    /\ At(t, "write") /\ MuLocked
    /\ \/ /\ Send(t) /\ Goto(t, "read")
          /\ suspect' = (suspect \/ \E u \in Callers \ {t} : pc[u] = "read")
          /\ NoTrigger /\ UNCHANGED <<ans, crossed>>
       \/ /\ conn # "up" \/ Len(wire) = MaxWire
          /\ Return(t, Error) /\ TriggerReconnect
          /\ UNCHANGED <<wire, histVars>>
    /\ UNCHANGED <<conn, isConnected, panicked, faults>>

(* One Read takes what has arrived: one reply, several at once, or the     *)
(* first 4096 bytes of one.                                                *)
Take(t) ==
    \E k \in 1..Len(wire) :
        LET TooLong(i) == wire[i].m = "block" /\ wire[i].h \in Big
            long == TooLong(k)
            left == SubSeq(wire, k + 1, Len(wire)) IN
        /\ \A i \in 1..(k - 1) : ~TooLong(i)
        /\ wire' = IF long THEN <<Ask("rest", 0)>> \o left ELSE left
        /\ Return(t, IF k = 1 /\ ~long THEN wire[1] ELSE Error)
        /\ suspect' = (suspect \/ long)
        /\ crossed' = \/ crossed
                      \/ /\ k = 1 /\ ~long
                         /\ wire[1].m = req[t].m /\ wire[1].m # "tip"
                         /\ wire[1].h # req[t].h
        /\ NoTrigger

(* Lock, read with a deadline, unlock.                                     *)
CallRead(t) ==
    /\ At(t, "read") /\ MuLocked
    /\ \/ /\ conn = "nil" /\ panicked' = TRUE
          /\ NoTrigger /\ UNCHANGED <<wire, pc, ans, faults, histVars>>
       \/ /\ conn = "up" /\ Take(t) /\ UNCHANGED <<faults, panicked>>
       \/ /\ conn = "up" /\ IF wire = << >> THEN NoFault ELSE Fault
          /\ suspect' = (suspect \/ wire # << >>)
          /\ Return(t, Error) /\ TriggerReconnect
          /\ UNCHANGED <<wire, panicked, crossed>>
       \/ /\ conn = "broken"
          /\ Return(t, Error) /\ TriggerReconnect
          /\ UNCHANGED <<wire, faults, histVars, panicked>>
    /\ UNCHANGED <<conn, isConnected>>

RpcStep(t) ==
    /\ CallCheck(t) \/ CallWrite(t) \/ CallRead(t)
    /\ UNCHANGED <<stopped, req, indexVars, head>>

-----------------------------------------------------------------------------
(* monitorConnection.  isConnectionAlive keeps its read lock for the       *)
(* whole ping: the Lock in callRPCMethod waits for that very lock, and the *)
(* call does not return.                                                   *)
MonitorTick ==
    /\ At("monitor", "tick") /\ CanRLock
    /\ \/ /\ isConnected /\ conn # "nil"
          /\ readers' = {"monitor"}
          /\ BeginCall("monitor", Ask("ping", 0))
          /\ NoTrigger
       \/ /\ ~isConnected \/ conn = "nil"
          /\ TriggerReconnect
          /\ UNCHANGED <<readers, pc, req, ans>>
    /\ UNCHANGED <<linkVars, waiting, stopped, panicked, indexVars, head,
                   faults, histVars>>

-----------------------------------------------------------------------------
(* StartElectrumIndexer; the wait may time out at any time.                *)
WaitForConnection ==
    /\ At("start", "wait")
    /\ \/ CanRLock /\ isConnected /\ Goto("start", "db")
       \/ Goto("start", "failed")
    /\ NoFault
    /\ UNCHANGED <<req, ans, span, dbLatest, lastHeight>>

(* GetLatestIndexedHeight fails on an empty table.                         *)
ReadDbLatest ==
    /\ At("start", "db")
    /\ \/ /\ \E latest \in rows :
                (\A h \in rows : h <= latest) /\ dbLatest' = latest
          /\ NoFault
          /\ BeginCall("start", Ask("tip", 0))
       \/ /\ \/ rows = {} /\ NoFault
             \/ rows # {} /\ Fault
          /\ Goto("start", "failed") /\ UNCHANGED <<req, ans, dbLatest>>
    /\ UNCHANGED <<span, lastHeight>>

Launch ==
    /\ At("start", "answered")
    /\ NoFault
    /\ \/ /\ ans["start"].m = "tip"
          /\ span' = [span EXCEPT !["catchup"] =
                         [next |-> dbLatest + 1, last |-> ans["start"].h]]
          /\ lastHeight' = dbLatest
          /\ pc' = [pc EXCEPT !["start"] = "done", !["catchup"] = "loop",
                              !["live"] = "tick", !["handler"] = "idle"]
       \/ /\ ans["start"].m # "tip"
          /\ Goto("start", "failed") /\ UNCHANGED <<span, lastHeight>>
    /\ EndCalls("start") /\ UNCHANGED dbLatest

StartStep ==
    /\ WaitForConnection \/ ReadDbLatest \/ Launch
    /\ UNCHANGED <<linkVars, reconnectChan, muVars, stopped, panicked,
                   rows, vaults, logged, head, histVars>>

-----------------------------------------------------------------------------
(* indexBlockHeaders: every tick, ask for the tip and index what is above  *)
(* lastHeight.  The catch-up loop does the same for the heights that were  *)
(* missing at the start, at the same time.                                 *)
LiveTick ==
    /\ At("live", "tick") /\ CanRLock /\ isConnected
    /\ BeginCall("live", Ask("tip", 0))
    /\ UNCHANGED indexVars

(* Deviation used to test the properties: the loop runs past the tip.      *)
MutIndexFrom(t, n, last) ==
    \/ /\ n <= last + 1
       /\ span' = [span EXCEPT ![t] = [next |-> n, last |-> last]]
       /\ BeginCall(t, Ask("header", n))
    \/ /\ n > last + 1
       /\ span' = [span EXCEPT ![t] = [next |-> 0, last |-> 0]]
       /\ Goto(t, IF t = "live" THEN "tick" ELSE "done") /\ EndCalls(t)

(* The loop head: the call for height n, or the end of the loop.           *)
IndexFrom(t, n, last) ==
    \/ /\ n <= last
       /\ span' = [span EXCEPT ![t] = [next |-> n, last |-> last]]
       /\ BeginCall(t, Ask("header", n))
    \/ /\ n > last
       /\ span' = [span EXCEPT ![t] = [next |-> 0, last |-> 0]]
       /\ Goto(t, IF t = "live" THEN "tick" ELSE "done") /\ EndCalls(t)

LiveTip ==
    /\ At("live", "answered") /\ req["live"].m = "tip"
    /\ IF ans["live"].m = "tip"
       THEN IndexFrom("live", lastHeight + 1, ans["live"].h)
       ELSE Goto("live", "tick") /\ EndCalls("live") /\ UNCHANGED span
    /\ UNCHANGED <<dbLatest, lastHeight, rows, vaults, logged>>

CatchUp ==
    /\ At("catchup", "loop")
    /\ IndexFrom("catchup", span["catchup"].next, span["catchup"].last)
    /\ UNCHANGED <<dbLatest, lastHeight, rows, vaults, logged>>

NextHeight(t) == IndexFrom(t, span[t].next + 1, span[t].last)

(* Deviation used to test the properties: the failed height is passed.     *)
MutSkipHeight(t) ==
    /\ NextHeight(t) /\ lastHeight' = span[t].next
    /\ UNCHANGED <<dbLatest, rows, vaults, logged>>

SkipHeight(t) ==
    /\ NextHeight(t)
    /\ logged' = logged \cup {span[t].next}
    /\ UNCHANGED <<dbLatest, lastHeight, rows, vaults>>

(* IndexBlockHeader: the header is stored under the height it carries.     *)
HeaderAnswered(t) ==
    /\ At(t, "answered") /\ req[t].m = "header"
    /\ \/ /\ ans[t].m = "header" /\ NoFault
          /\ rows' = rows \cup {ans[t].h}
          /\ BeginCall(t, Ask("block", span[t].next))
          /\ UNCHANGED <<span, dbLatest, lastHeight, vaults, logged>>
       \/ /\ IF ans[t].m = "header" THEN Fault ELSE NoFault
          /\ SkipHeight(t)

(* The vault transaction of the block received is stored under the height  *)
(* asked for; a second insert of it is refused, and logged.                *)
BlockAnswered(t) ==
    /\ At(t, "answered") /\ req[t].m = "block"
    /\ \/ /\ ans[t].m = "block"
          /\ lastHeight' = span[t].next
          /\ \/ /\ NoFault
                /\ vaults' = IF ans[t].h \in WithVault \ {v.block : v \in vaults}
                             THEN vaults \cup {[block |-> ans[t].h,
                                                height |-> span[t].next]}
                             ELSE vaults
                /\ UNCHANGED logged
             \/ /\ Fault /\ ans[t].h \in WithVault
                /\ logged' = logged \cup {span[t].next} /\ UNCHANGED vaults
          /\ NextHeight(t) /\ UNCHANGED <<dbLatest, rows>>
       \/ /\ ans[t].m # "block" /\ NoFault
          /\ SkipHeight(t)

IndexStep(t) ==
    /\ \/ /\ \/ t = "catchup" /\ CatchUp
             \/ t = "live" /\ (LiveTick \/ LiveTip)
          /\ NoFault
       \/ HeaderAnswered(t)
       \/ BlockAnswered(t)
    /\ UNCHANGED <<linkVars, reconnectChan, muVars, stopped, panicked, head,
                   histVars>>

-----------------------------------------------------------------------------
(* Stop, called once by the service: close stopChan, then Disconnect.      *)
Stop ==
    \/ /\ At("stopper", "run")
       /\ stopped' = TRUE /\ Goto("stopper", "disconnect")
       /\ UNCHANGED <<linkVars, muVars>>
    \/ /\ At("stopper", "disconnect") /\ MuLocked
       /\ conn' = "nil" /\ isConnected' = FALSE /\ wire' = << >>
       /\ Goto("stopper", "done") /\ UNCHANGED stopped

(* The loops that select on stopChan may leave once it is closed; select   *)
(* takes any case that is ready, so a tick or a token may still win.       *)
LeaveOnStop ==
    /\ stopped
    /\ \E t \in {"connector", "monitor", "handler", "live"} :
        /\ At(t, "select") \/ At(t, "tick") \/ At(t, "idle")
        /\ Goto(t, "done")
    /\ UNCHANGED <<linkVars, muVars, stopped>>

StopStep ==
    /\ Stop \/ LeaveOnStop
    /\ UNCHANGED <<reconnectChan, panicked, req, ans, indexVars, head, faults,
                   histVars>>

-----------------------------------------------------------------------------
ThreadStep(t) ==
    \/ t = "connector" /\ ConnectWithRetry
    \/ t = "handler" /\ HandlerStep
    \/ t = "monitor" /\ MonitorTick
    \/ t = "start" /\ StartStep
    \/ t \in Callers /\ RpcStep(t)
    \/ t \in Indexers /\ IndexStep(t)

ElectrumNext ==
    \/ NewBlock \/ Drop
    \/ \E t \in Threads : ThreadStep(t)
    \/ Await
    \/ StopStep

ElectrumSpec == ElectrumInit /\ [][ElectrumNext]_electrumVars

(* Every goroutine is scheduled and the tickers keep firing; of the        *)
(* monitor's tick only that it comes while there is no connection: a ping  *)
(* may be as far away as PingInterval allows.                              *)
Scheduled ==
    /\ \A t \in Threads \ {"monitor"} : WF_electrumVars(ThreadStep(t))
    /\ WF_electrumVars(MonitorTick /\ ~isConnected)

FairElectrumSpec == ElectrumSpec /\ Scheduled

-----------------------------------------------------------------------------
(* Properties.                                                             *)

Labels == {"off", "select", "connect", "wait", "db", "check", "write", "read",
           "answered", "tick", "loop", "idle", "reconnect", "run",
           "disconnect", "done", "failed"}

(* Every variable of the client (pkg/btc/electrum.go) has its type.        *)
ElectrumTypeOK ==
    /\ conn \in {"nil", "up", "broken"}
    /\ {waiting, isConnected, reconnectChan, stopped, panicked, crossed, suspect}
          \subseteq BOOLEAN
    /\ readers \subseteq {"monitor"} /\ wire \in Seq(Replies)
    /\ pc \in [Threads -> Labels]
    /\ req \in [Callers -> Requests \cup {NoRequest}]
    /\ ans \in [Callers -> Replies \cup {NoRequest, Error}]
    /\ span \in [Indexers -> [next : 0..(TopHeight + 1), last : 0..TopHeight]]
    /\ {dbLatest, lastHeight} \subseteq 0..TopHeight /\ head \in 0..TopHeight
    /\ rows \subseteq 0..TopHeight /\ logged \subseteq 0..TopHeight
    /\ vaults \subseteq [block : 0..TopHeight, height : 0..TopHeight]
    /\ faults \in [used : 0..MaxFaults, left : 0..MaxFaults]

(* isConnected tells whether there is a connection: Connect, Disconnect    *)
(* and Reconnect change the two together on every path, failed dials       *)
(* included, so a dead client is never taken for a connected one.          *)
ConnConsistent == isConnected <=> conn # "nil"

(* The one way a goroutine of the client is blocked is the ping of         *)
(* isConnectionAlive, which waits for the read lock it holds.  Without a   *)
(* ping, EACH goroutine that has not ended and does not wait for a tick, a *)
(* token or a call of Stop can take its next step itself, whatever the     *)
(* others do: it is held up neither by the send on reconnectChan nor by    *)
(* the mutex, and stopChan ends the retries of ConnectWithRetry.           *)
Finished(t) == pc[t] \in {"off", "done", "failed"}
Parked(t) == pc[t] \in {"tick", "idle", "run"}
CanGo(t) ==
    \/ ENABLED ThreadStep(t)
    \/ t = "stopper" /\ ENABLED Stop
    \/ stopped /\ pc[t] = "select"
BlockedOnlyByPing ==
    (~panicked /\ "monitor" \notin readers) =>
        \A t \in Threads : Finished(t) \/ Parked(t) \/ CanGo(t)

(* callRPCMethod reads from c.conn without the nil check its write has, so *)
(* a reconnection that closed the connection in between ends the process;  *)
(* it takes a failed dial, or Stop, to get there: replies shared out among *)
(* the callers alone never kill the client.                                *)
DiesOfFaultsOnly == panicked => stopped \/ faults.used > 0

(* A reply is taken for another height's only if, since the connection was *)
(* made, two calls overlapped on it or one left its reply behind: a        *)
(* reconnection with no call under way makes up for every earlier mix-up.  *)
NoCrossing ==
    [][crossed' /\ ~crossed => suspect]_electrumVars

(* Unless a reply was crossed, every height up to lastHeight was indexed,  *)
(* or its failure logged, and a vault transaction carries the height of    *)
(* its block: what the two indexing loops skip is never skipped silently.  *)
IndexFaithful ==
    ~crossed =>
        /\ \A h \in (dbLatest + 1)..lastHeight :
              /\ h \in rows \cup logged
              /\ h \in WithVault =>
                   h \in logged \cup {v.height : v \in vaults}
        /\ \A v \in vaults : v.block = v.height

(* docs/electrum-indexer.md: "Robust: Includes reconnection logic and      *)
(* error handling".  Once the indexer runs, a lost connection is replaced, *)
(* unless the client is stopped or has died.                               *)
Lost == pc["handler"] # "off" /\ conn # "up"
BrokenReplaced == Lost ~> (conn = "up" \/ stopped \/ panicked)
=============================================================================
