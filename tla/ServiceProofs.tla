--------------------------- MODULE ServiceProofs ----------------------------
(***************************************************************************)
(* Proofs about the process as a whole, for every set of configuration     *)
(* files, every number of failing calls and every number of starts.        *)
(***************************************************************************)
EXTENDS Service, FiniteSetTheorems, TLAPS

Phases == {"load", "evm", "btc", "running", "stopped", "fatal", "panicked"}

(* The configuration is one of the given ones.                             *)
ConfigType == evmFile \in EvmFiles /\ btcFile \in BtcFiles

(* The adapter is never replaced by another: while it is missing, the only *)
(* clients are those of EVM chains without a URL.                          *)
BuildType ==
    /\ phase \in Phases /\ at \in Nat \ {0}
    /\ adapter \in (Urls \ {""}) \cup {NoAdapter}
    /\ DOMAIN clients \subseteq EvmChains \cup BtcChains
    /\ \A c \in DOMAIN clients :
        /\ clients[c] # NoAdapter
        /\ clients[c] = adapter \/ (c \in EvmChains /\ clients[c] = "")
    /\ serviceFaults \in Nat

TableType ==
    /\ position \in [BtcChains -> 0..(MaxHeight + 1)]
    /\ blockHeaders \in [Urls -> SUBSET [chain : EvmChains, number : Heights]]
    /\ stored \in [EvmChains -> SUBSET Heights]

ServiceInv == ConfigType /\ BuildType /\ TableType

(* A configuration in which no chain is listed twice.                      *)
DistinctChains ==
    \A e \in EvmFiles, b \in BtcFiles :
        /\ \A i, j \in DOMAIN e : e[i].chain = e[j].chain => i = j
        /\ \A i, j \in DOMAIN b : b[i].chain = b[j].chain => i = j
        /\ \A i \in DOMAIN e, j \in DOMAIN b : e[i].chain # b[j].chain

(* The entries the two loops have been through, and their enabled chains.  *)
Built == {"running", "stopped", "panicked"}
EvmDone(i) == phase \in Built \cup {"btc"} \/ (phase = "evm" /\ i < at)
BtcDone(i) == phase \in Built \/ (phase = "btc" /\ i < at)
Handled(c) ==
    \/ \E i \in DOMAIN evmFile :
        EvmDone(i) /\ evmFile[i].enable /\ evmFile[i].chain = c
    \/ \E i \in DOMAIN btcFile :
        BtcDone(i) /\ btcFile[i].enable /\ btcFile[i].chain = c

(* The loops account for the enabled entries they have been through.       *)
Progress ==
    /\ phase = "load" => at = 1
    /\ phase # "fatal" =>
        \A c : c \in DOMAIN clients \cup rejected <=> Handled(c)
    /\ DOMAIN clients \cap rejected = {}
RejectedWithUrl == {c \in rejected : UrlOf(c) # ""}
FaultsPaid ==
    /\ IsFiniteSet(RejectedWithUrl)
    /\ Cardinality(RejectedWithUrl) <= serviceFaults

-----------------------------------------------------------------------------
(* The arithmetic the types need.                                          *)
LEMMA HeightBounds ==
    /\ 0 \in 0..(MaxHeight + 1)
    /\ \A h \in Heights \cup {0} : h + 1 \in 0..(MaxHeight + 1)
<1>1. MaxHeight \in Nat
    BY ServiceAssumption
<1>2. \A h \in Heights \cup {0} : h + 1 \in 0..(MaxHeight + 1)
    BY <1>1 DEF Heights
<1>3. 0 \in 0..(MaxHeight + 1)
    BY <1>1
<1> QED
    BY <1>2, <1>3

LEMMA NextTurn == \A n \in Nat \ {0} : n + 1 \in Nat \ {0}
    OBVIOUS

LEMMA FirstTurn == 1 \in Nat \ {0}
    OBVIOUS

(* What making a client for cfg comes to, whichever its kind.              *)
Outcome(cfg, isEvm) ==
    /\ adapter' \in (Urls \ {""}) \cup {NoAdapter}
    /\ adapter # NoAdapter => adapter' = adapter
    /\ serviceFaults' \in Nat /\ serviceFaults <= serviceFaults'
    /\ \/ \E u : /\ Created(cfg.chain, u) /\ u # NoAdapter
                 /\ u = adapter' \/ (isEvm /\ u = "" /\ cfg.url = "")
       \/ Failed(cfg.chain) /\ (cfg.url # "" => serviceFaults < serviceFaults')

LEMMA AttemptCounts ==
    ASSUME serviceFaults \in Nat, NEW url, NEW opened \in BOOLEAN, NEW dialled \in BOOLEAN,
           Attempt(url, opened, dialled)
    PROVE  /\ serviceFaults' \in Nat /\ serviceFaults <= serviceFaults'
           /\ ~(opened /\ dialled) => serviceFaults < serviceFaults'
<1>1. serviceFaults' = IF opened /\ dialled THEN serviceFaults ELSE serviceFaults + 1
    BY DEF Attempt
<1>2. CASE opened /\ dialled
  <2>1. serviceFaults' = serviceFaults
    BY <1>1, <1>2
  <2> QED
    BY <2>1, <1>2
<1>3. CASE ~(opened /\ dialled)
  <2>1. serviceFaults' = serviceFaults + 1
    BY <1>1, <1>3
  <2> QED
    BY <2>1, <1>3
<1> QED
    BY <1>2, <1>3

LEMMA EvmOutcome ==
    ASSUME BuildType, NEW cfg, cfg.url \in Urls, NewEvmClient(cfg)
    PROVE  Outcome(cfg, TRUE)
<1>1. PICK opened \in BOOLEAN, dialled \in BOOLEAN :
        /\ Attempt(cfg.url, opened, dialled)
        /\ adapter' = IF cfg.url = "" THEN adapter
                      ELSE NewDatabaseAdapter(cfg.url, opened)
        /\ CASE cfg.url # "" /\ NewDatabaseAdapter(cfg.url, opened) = NoAdapter
                     -> Failed(cfg.chain)
             [] ~dialled -> Failed(cfg.chain)
             [] OTHER -> Created(cfg.chain,
                    IF cfg.url = "" THEN "" ELSE NewDatabaseAdapter(cfg.url, opened))
    BY DEF NewEvmClient
<1> DEFINE db == NewDatabaseAdapter(cfg.url, opened)
<1>2. /\ db \in (Urls \ {""}) \cup {NoAdapter}
      /\ adapter # NoAdapter => db = adapter
      /\ cfg.url # "" /\ opened => db # NoAdapter
  <2>1. CASE adapter # NoAdapter
    BY <2>1 DEF NewDatabaseAdapter, BuildType
  <2>2. CASE adapter = NoAdapter /\ cfg.url # "" /\ opened
    BY <2>2, FilesAssumption DEF NewDatabaseAdapter, BuildType
  <2>3. CASE adapter = NoAdapter /\ ~(cfg.url # "" /\ opened)
    BY <2>3 DEF NewDatabaseAdapter, BuildType
  <2> QED
    BY <2>1, <2>2, <2>3
<1>3. /\ serviceFaults' \in Nat /\ serviceFaults <= serviceFaults'
      /\ ~(opened /\ dialled) => serviceFaults < serviceFaults'
    BY <1>1, AttemptCounts DEF BuildType
<1>4. adapter' = IF cfg.url = "" THEN adapter ELSE db
    BY <1>1
<1>5. /\ cfg.url # "" /\ db = NoAdapter => Failed(cfg.chain)
      /\ ~dialled => Failed(cfg.chain)
      /\ ~(cfg.url # "" /\ db = NoAdapter) /\ dialled =>
            Created(cfg.chain, IF cfg.url = "" THEN "" ELSE db)
    BY <1>1
<1>6. "" # NoAdapter
    BY DEF NoAdapter
<1> HIDE DEF db
<1>7. /\ adapter' \in (Urls \ {""}) \cup {NoAdapter}
      /\ adapter # NoAdapter => adapter' = adapter
    BY <1>2, <1>4 DEF BuildType
<1>8. CASE cfg.url # "" /\ db = NoAdapter
    BY <1>8, <1>2, <1>3, <1>5, <1>7 DEF Outcome
<1>9. CASE ~dialled
    BY <1>9, <1>3, <1>5, <1>7 DEF Outcome
<1>10. CASE dialled /\ cfg.url = ""
  <2>1. Created(cfg.chain, "")
    BY <1>10, <1>5
  <2> QED
    BY <2>1, <1>10, <1>3, <1>6, <1>7 DEF Outcome
<1>11. CASE dialled /\ cfg.url # "" /\ db # NoAdapter
  <2>1. Created(cfg.chain, db) /\ db = adapter'
    BY <1>11, <1>4, <1>5
  <2> QED
    BY <2>1, <1>11, <1>3, <1>7 DEF Outcome
<1> QED
    BY <1>8, <1>9, <1>10, <1>11

LEMMA BtcOutcome ==
    ASSUME BuildType, NEW cfg, cfg.url \in Urls, NewBtcClient(cfg)
    PROVE  Outcome(cfg, FALSE)
<1>1. PICK opened \in BOOLEAN, dialled \in BOOLEAN :
        /\ Attempt(cfg.url, opened, dialled)
        /\ adapter' = NewDatabaseAdapter(cfg.url, opened)
        /\ IF NewDatabaseAdapter(cfg.url, opened) = NoAdapter \/ ~dialled
           THEN Failed(cfg.chain)
           ELSE Created(cfg.chain, NewDatabaseAdapter(cfg.url, opened))
    BY DEF NewBtcClient
<1>2. /\ adapter' \in (Urls \ {""}) \cup {NoAdapter}
      /\ adapter # NoAdapter => adapter' = adapter
      /\ cfg.url # "" /\ opened => adapter' # NoAdapter
  <2>1. CASE adapter # NoAdapter
    BY <2>1, <1>1 DEF NewDatabaseAdapter, BuildType
  <2>2. CASE adapter = NoAdapter /\ cfg.url # "" /\ opened
    BY <2>2, <1>1, FilesAssumption DEF NewDatabaseAdapter, BuildType
  <2>3. CASE adapter = NoAdapter /\ ~(cfg.url # "" /\ opened)
    BY <2>3, <1>1 DEF NewDatabaseAdapter, BuildType
  <2> QED
    BY <2>1, <2>2, <2>3
<1>3. /\ serviceFaults' \in Nat /\ serviceFaults <= serviceFaults'
      /\ ~(opened /\ dialled) => serviceFaults < serviceFaults'
    BY <1>1, AttemptCounts DEF BuildType
<1>4. IF adapter' = NoAdapter \/ ~dialled THEN Failed(cfg.chain)
                                          ELSE Created(cfg.chain, adapter')
    BY <1>1
<1>5. CASE adapter' = NoAdapter \/ ~dialled
    BY <1>2, <1>3, <1>4, <1>5 DEF Outcome
<1>6. CASE ~(adapter' = NoAdapter \/ ~dialled)
    BY <1>2, <1>3, <1>4, <1>6 DEF Outcome
<1> QED
    BY <1>5, <1>6

(* The entry in turn is an entry of the file.                              *)
LEMMA FileEntries ==
    ASSUME ConfigType
    PROVE  /\ evmFile \in Seq(Entries(EvmChains)) /\ btcFile \in Seq(Entries(BtcChains))
           /\ \A i \in 1..Len(evmFile) :
                i \in DOMAIN evmFile /\ evmFile[i] \in Entries(EvmChains)
           /\ \A i \in 1..Len(btcFile) :
                i \in DOMAIN btcFile /\ btcFile[i] \in Entries(BtcChains)
<1>1. evmFile \in Seq(Entries(EvmChains)) /\ btcFile \in Seq(Entries(BtcChains))
    BY FilesAssumption DEF ConfigType
<1> QED
    BY <1>1

(* One turn of NewEvmClients and of NewBtcClients.                         *)
EvmTurn ==
    /\ at \in DOMAIN evmFile /\ at' = at + 1 /\ phase' = phase
    /\ evmFile[at].chain \in EvmChains
    /\ \/ evmFile[at].enable /\ Outcome(evmFile[at], TRUE)
       \/ ~evmFile[at].enable /\ UNCHANGED buildVars
EvmEnd ==
    /\ at > Len(evmFile) /\ at' = 1
    /\ phase' = IF ReadBtcs THEN "btc" ELSE "fatal"
    /\ UNCHANGED buildVars
BtcTurn ==
    /\ at \in DOMAIN btcFile /\ at' = at + 1 /\ phase' = phase
    /\ btcFile[at].chain \in BtcChains
    /\ \/ btcFile[at].enable /\ Outcome(btcFile[at], FALSE)
       \/ ~btcFile[at].enable /\ UNCHANGED buildVars
BtcEnd ==
    /\ at > Len(btcFile) /\ at' = 1 /\ phase' = "running"
    /\ UNCHANGED buildVars

LEMMA EvmLoop ==
    ASSUME ServiceInv, NewEvmClients
    PROVE  EvmTurn \/ EvmEnd
<1>1. at \in Nat \ {0}
    BY DEF ServiceInv, BuildType
<1>2. CASE /\ at <= Len(evmFile)
           /\ at' = at + 1 /\ phase' = phase
           /\ IF evmFile[at].enable THEN NewEvmClient(evmFile[at])
                                    ELSE UNCHANGED buildVars
  <2>1. at \in 1..Len(evmFile)
    BY <1>1, <1>2, FileEntries DEF ServiceInv
  <2>2. at \in DOMAIN evmFile /\ evmFile[at] \in Entries(EvmChains)
    BY <2>1, FileEntries DEF ServiceInv
  <2>3. evmFile[at].chain \in EvmChains /\ evmFile[at].url \in Urls
    BY <2>2 DEF Entries
  <2>4. evmFile[at].enable => Outcome(evmFile[at], TRUE)
    BY <1>2, <2>3, EvmOutcome DEF ServiceInv
  <2> QED
    BY <1>2, <2>2, <2>3, <2>4 DEF EvmTurn
<1>3. CASE /\ at > Len(evmFile)
           /\ at' = 1 /\ phase' = IF ReadBtcs THEN "btc" ELSE "fatal"
           /\ UNCHANGED buildVars
    BY <1>3 DEF EvmEnd
<1> QED
    BY <1>2, <1>3 DEF NewEvmClients

LEMMA BtcLoop ==
    ASSUME ServiceInv, NewBtcClients
    PROVE  BtcTurn \/ BtcEnd
<1>1. at \in Nat \ {0}
    BY DEF ServiceInv, BuildType
<1>2. CASE /\ at <= Len(btcFile)
           /\ at' = at + 1 /\ phase' = phase
           /\ IF btcFile[at].enable THEN NewBtcClient(btcFile[at])
                                    ELSE UNCHANGED buildVars
  <2>1. at \in 1..Len(btcFile)
    BY <1>1, <1>2, FileEntries DEF ServiceInv
  <2>2. at \in DOMAIN btcFile /\ btcFile[at] \in Entries(BtcChains)
    BY <2>1, FileEntries DEF ServiceInv
  <2>3. btcFile[at].chain \in BtcChains /\ btcFile[at].url \in Urls
    BY <2>2 DEF Entries
  <2>4. btcFile[at].enable => Outcome(btcFile[at], FALSE)
    BY <1>2, <2>3, BtcOutcome DEF ServiceInv
  <2> QED
    BY <1>2, <2>2, <2>3, <2>4 DEF BtcTurn
<1>3. CASE at > Len(btcFile) /\ at' = 1 /\ phase' = "running" /\ UNCHANGED buildVars
    BY <1>3 DEF BtcEnd
<1> QED
    BY <1>2, <1>3 DEF NewBtcClients

-----------------------------------------------------------------------------
(* Types.                                                                  *)

(* A new client keeps the clients on the one adapter.                      *)
LEMMA OutcomeTyped ==
    ASSUME BuildType, NEW cfg, NEW isEvm \in BOOLEAN, Outcome(cfg, isEvm),
           cfg.chain \in EvmChains \cup BtcChains, isEvm => cfg.chain \in EvmChains
    PROVE  /\ DOMAIN clients' \subseteq EvmChains \cup BtcChains
           /\ \A c \in DOMAIN clients' :
                /\ clients'[c] # NoAdapter
                /\ clients'[c] = adapter' \/ (c \in EvmChains /\ clients'[c] = "")
<1>1. \A c \in DOMAIN clients :
        /\ clients[c] # NoAdapter
        /\ clients[c] = adapter' \/ (c \in EvmChains /\ clients[c] = "")
    BY DEF BuildType, Outcome
<1>2. CASE Failed(cfg.chain)
    BY <1>1, <1>2 DEF Failed, BuildType
<1>3. CASE \E u : /\ Created(cfg.chain, u) /\ u # NoAdapter
                  /\ u = adapter' \/ (isEvm /\ u = "" /\ cfg.url = "")
  <2>1. PICK u : /\ Created(cfg.chain, u) /\ u # NoAdapter
                 /\ u = adapter' \/ (isEvm /\ u = "" /\ cfg.url = "")
    BY <1>3
  <2>2. clients' = [c \in DOMAIN clients \cup {cfg.chain} |->
                       IF c = cfg.chain THEN u ELSE clients[c]]
    BY <2>1 DEF Created
  <2>3. u = adapter' \/ (cfg.chain \in EvmChains /\ u = "")
    BY <2>1
  <2>4. DOMAIN clients' \subseteq EvmChains \cup BtcChains
    BY <2>2 DEF BuildType
  <2>5. ASSUME NEW c \in DOMAIN clients'
        PROVE  /\ clients'[c] # NoAdapter
               /\ clients'[c] = adapter' \/ (c \in EvmChains /\ clients'[c] = "")
    <3>1. CASE c = cfg.chain
        BY <3>1, <2>1, <2>2, <2>3
    <3>2. CASE c # cfg.chain
      <4>1. c \in DOMAIN clients /\ clients'[c] = clients[c]
        BY <3>2, <2>2, <2>5
      <4> QED
        BY <4>1, <1>1
    <3> QED
      BY <3>1, <3>2
  <2> QED
    BY <2>4, <2>5
<1> QED
    BY <1>2, <1>3 DEF Outcome

LEMMA BuildStep ==
    ASSUME ServiceInv, ServiceNext
    PROVE  BuildType'
<1> USE DEF ServiceInv
<1>1. CASE LoadEnv
    BY <1>1 DEF LoadEnv, BuildType, buildVars, Phases
<1>2. CASE NewEvmClients
  <2>1. CASE EvmTurn /\ evmFile[at].enable
    <3>1. Outcome(evmFile[at], TRUE) /\ evmFile[at].chain \in EvmChains
        BY <2>1 DEF EvmTurn
    <3>2. /\ DOMAIN clients' \subseteq EvmChains \cup BtcChains
          /\ \A c \in DOMAIN clients' :
                /\ clients'[c] # NoAdapter
                /\ clients'[c] = adapter' \/ (c \in EvmChains /\ clients'[c] = "")
        BY <3>1, OutcomeTyped
    <3>3. phase' \in Phases /\ at' \in Nat \ {0}
        BY <2>1, NextTurn DEF EvmTurn, BuildType
    <3>4. adapter' \in (Urls \ {""}) \cup {NoAdapter} /\ serviceFaults' \in Nat
        BY <3>1 DEF Outcome
    <3> QED
        BY <3>2, <3>3, <3>4 DEF BuildType
  <2>2. CASE EvmTurn /\ ~evmFile[at].enable
    BY <2>2, NextTurn DEF EvmTurn, BuildType, buildVars
  <2>3. CASE EvmEnd
    BY <2>3, FirstTurn DEF EvmEnd, BuildType, buildVars, Phases
  <2> QED
    BY <1>2, <2>1, <2>2, <2>3, EvmLoop
<1>3. CASE NewBtcClients
  <2>1. CASE BtcTurn /\ btcFile[at].enable
    <3>1. Outcome(btcFile[at], FALSE) /\ btcFile[at].chain \in BtcChains
        BY <2>1 DEF BtcTurn
    <3>2. /\ DOMAIN clients' \subseteq EvmChains \cup BtcChains
          /\ \A c \in DOMAIN clients' :
                /\ clients'[c] # NoAdapter
                /\ clients'[c] = adapter' \/ (c \in EvmChains /\ clients'[c] = "")
        BY <3>1, OutcomeTyped
    <3>3. phase' \in Phases /\ at' \in Nat \ {0}
        BY <2>1, NextTurn DEF BtcTurn, BuildType
    <3>4. adapter' \in (Urls \ {""}) \cup {NoAdapter} /\ serviceFaults' \in Nat
        BY <3>1 DEF Outcome
    <3> QED
        BY <3>2, <3>3, <3>4 DEF BuildType
  <2>2. CASE BtcTurn /\ ~btcFile[at].enable
    BY <2>2, NextTurn DEF BtcTurn, BuildType, buildVars
  <2>3. CASE BtcEnd
    BY <2>3, FirstTurn DEF BtcEnd, BuildType, buildVars, Phases
  <2> QED
    BY <1>3, <2>1, <2>2, <2>3, BtcLoop
<1>4. ASSUME NEW c \in BtcChains, StartBtcIndexer(c) \/ StoreBtcHeader(c)
      PROVE  BuildType'
    BY <1>4 DEF StartBtcIndexer, StoreBtcHeader, BuildType, buildVars
<1>5. ASSUME NEW c \in EvmChains, NEW n \in Heights, StoreEvmHeader(c, n)
      PROVE  BuildType'
    BY <1>5 DEF StoreEvmHeader, BuildType, buildVars, Phases
<1>6. CASE StopService
    BY <1>6 DEF StopService, BuildType, buildVars, Phases
<1>7. CASE RunAgain
  <2>1. DOMAIN clients' = {}
    BY <1>7 DEF RunAgain
  <2> QED
    BY <1>7, <2>1, FirstTurn DEF RunAgain, BuildType, Phases
<1> QED
    BY <1>1, <1>2, <1>3, <1>4, <1>5, <1>6, <1>7 DEF ServiceNext

LEMMA TableStep ==
    ASSUME ServiceInv, ServiceNext
    PROVE  TableType'
<1> USE DEF ServiceInv
<1>1. CASE LoadEnv \/ NewEvmClients \/ NewBtcClients \/ StopService
    BY <1>1 DEF LoadEnv, NewEvmClients, NewBtcClients, StopService, TableType, tables
<1>2. ASSUME NEW c \in BtcChains, StartBtcIndexer(c)
      PROVE  TableType'
  <2>1. PICK h \in Heights \cup {0} : position' = [position EXCEPT ![c] = h + 1]
    BY <1>2 DEF StartBtcIndexer
  <2>2. h + 1 \in 0..(MaxHeight + 1)
    BY HeightBounds
  <2> QED
    BY <1>2, <2>1, <2>2 DEF StartBtcIndexer, TableType, tables
<1>3. ASSUME NEW c \in BtcChains, StoreBtcHeader(c)
      PROVE  TableType'
  <2>1. position[c] + 1 \in 0..(MaxHeight + 1)
    BY <1>3, HeightBounds DEF StoreBtcHeader
  <2> QED
    BY <1>3, <2>1 DEF StoreBtcHeader, TableType
<1>4. ASSUME NEW c \in EvmChains, NEW n \in Heights, StoreEvmHeader(c, n)
      PROVE  TableType'
  <2>1. position' = position
    BY <1>4 DEF StoreEvmHeader
  <2>2. stored' \in [EvmChains -> SUBSET Heights]
    <3>1. stored' = stored \/ stored' = [stored EXCEPT ![c] = @ \cup {n}]
        BY <1>4 DEF StoreEvmHeader
    <3>2. stored[c] \cup {n} \in SUBSET Heights
        BY DEF TableType
    <3> QED
        BY <3>1, <3>2 DEF TableType
  <2>3. \A rows \in SUBSET [chain : EvmChains, number : Heights] :
            CreateBlockHeader(rows, c, n) \in SUBSET [chain : EvmChains, number : Heights]
    BY DEF CreateBlockHeader
  <2>4. CASE <<c, n>> \in NoBeaconRoot \/ clients[c] = ""
    BY <1>4, <2>1, <2>2, <2>4 DEF StoreEvmHeader, TableType
  <2>5. CASE ~(<<c, n>> \in NoBeaconRoot \/ clients[c] = "")
    <3>1. blockHeaders' =
            [blockHeaders EXCEPT ![clients[c]] = CreateBlockHeader(@, c, n)]
        BY <1>4, <2>5 DEF StoreEvmHeader
    <3>2. clients[c] \in Urls
        BY <1>4, <2>5 DEF StoreEvmHeader, BuildType
    <3>3. CreateBlockHeader(blockHeaders[clients[c]], c, n)
             \in SUBSET [chain : EvmChains, number : Heights]
        BY <2>3, <3>2 DEF TableType
    <3>4. blockHeaders' \in [Urls -> SUBSET [chain : EvmChains, number : Heights]]
        BY <3>1, <3>2, <3>3 DEF TableType
    <3> QED
        BY <3>4, <2>1, <2>2 DEF TableType
  <2> QED
    BY <2>4, <2>5
<1>5. CASE RunAgain
  <2>1. position' \in [BtcChains -> 0..(MaxHeight + 1)]
    BY <1>5, HeightBounds DEF RunAgain
  <2> QED
    BY <1>5, <2>1 DEF RunAgain, TableType, tables
<1> QED
    BY <1>1, <1>2, <1>3, <1>4, <1>5 DEF ServiceNext

LEMMA ServiceInitially ==
    ASSUME ServiceInit
    PROVE  ServiceInv
<1>1. DOMAIN clients = {}
    BY DEF ServiceInit
<1>2. BuildType
    BY <1>1 DEF ServiceInit, BuildType, Phases
<1>3. position \in [BtcChains -> 0..(MaxHeight + 1)]
    BY HeightBounds DEF ServiceInit
<1>4. TableType
    BY <1>3 DEF ServiceInit, TableType
<1> QED
    BY <1>2, <1>4 DEF ServiceInit, ServiceInv, ConfigType

LEMMA ConfigUnchanged ==
    ASSUME [ServiceNext]_serviceVars
    PROVE  UNCHANGED configVars
    BY DEF ServiceNext, serviceVars, LoadEnv, NewEvmClients, NewBtcClients, StartBtcIndexer,
           StoreBtcHeader, StoreEvmHeader, StopService, RunAgain

LEMMA ServiceStep ==
    ASSUME ServiceInv, [ServiceNext]_serviceVars
    PROVE  ServiceInv'
<1>1. CASE ServiceNext
    BY <1>1, BuildStep, TableStep, ConfigUnchanged DEF ServiceInv, ConfigType, configVars
<1>2. CASE UNCHANGED serviceVars
    BY <1>2 DEF serviceVars, buildVars, tables, configVars,
                ServiceInv, ConfigType, BuildType, TableType
<1> QED
    BY <1>1, <1>2

(* The service keeps its types (pkg/service, NewDatabaseAdapter), for any  *)
(* configuration files: a Bitcoin client always has a database.            *)
THEOREM ServiceTypeCorrect == ServiceSpec => []ServiceTypeOK
<1>1. ServiceInit => ServiceInv
    BY ServiceInitially
<1>2. ServiceInv /\ [ServiceNext]_serviceVars => ServiceInv'
    BY ServiceStep
<1>3. ServiceInv => ServiceTypeOK
    BY ServiceAssumption DEF ServiceInv, BuildType, TableType, ServiceTypeOK, Phases
<1> QED
    BY <1>1, <1>2, <1>3, PTL DEF ServiceSpec

-----------------------------------------------------------------------------
(* Shared tables.                                                          *)

LEMMA SeparateStep ==
    ASSUME ServiceInv, EvmChainsSeparate, [ServiceNext]_serviceVars
    PROVE  EvmChainsSeparate'
<1>1. ASSUME UNCHANGED <<blockHeaders, stored>>
      PROVE  EvmChainsSeparate'
    BY <1>1 DEF EvmChainsSeparate
<1>2. CASE LoadEnv \/ NewEvmClients \/ NewBtcClients \/ StopService \/ RunAgain
           \/ UNCHANGED serviceVars
    BY <1>1, <1>2 DEF LoadEnv, NewEvmClients, NewBtcClients, StopService, RunAgain,
                      serviceVars, tables
<1>3. ASSUME NEW c \in BtcChains, StartBtcIndexer(c) \/ StoreBtcHeader(c)
      PROVE  EvmChainsSeparate'
    BY <1>1, <1>3 DEF StartBtcIndexer, StoreBtcHeader, tables
<1>4. ASSUME NEW c \in EvmChains, NEW n \in Heights, StoreEvmHeader(c, n)
      PROVE  EvmChainsSeparate'
  <2>1. CASE <<c, n>> \in NoBeaconRoot \/ clients[c] = ""
    BY <1>1, <1>4, <2>1 DEF StoreEvmHeader
  <2>2. CASE ~(<<c, n>> \in NoBeaconRoot \/ clients[c] = "")
    <3> DEFINE url == clients[c]
    <3>1. url \in Urls
        BY <1>4, <2>2 DEF StoreEvmHeader, ServiceInv, BuildType
    <3>2. /\ blockHeaders' = [blockHeaders EXCEPT ![url] = CreateBlockHeader(@, c, n)]
          /\ stored' = [stored EXCEPT ![c] = @ \cup {n}]
        BY <1>4, <2>2 DEF StoreEvmHeader
    <3> HIDE DEF url
    <3>3. \A rows : /\ rows \subseteq CreateBlockHeader(rows, c, n)
                    /\ [chain |-> c, number |-> n]
                          \in CreateBlockHeader(rows, c, n) \/
                       \E row \in rows : row.chain = c /\ row.number = n
        BY DEF CreateBlockHeader
    <3>4. \A u \in Urls : blockHeaders[u] \subseteq blockHeaders'[u]
        BY <3>1, <3>2, <3>3 DEF ServiceInv, TableType
    <3>5. [chain |-> c, number |-> n] \in blockHeaders'[url]
      <4>1. blockHeaders'[url] = CreateBlockHeader(blockHeaders[url], c, n)
        BY <3>1, <3>2 DEF ServiceInv, TableType
      <4>2. CASE \E row \in blockHeaders[url] : row.chain = c /\ row.number = n
        <5>1. PICK row \in blockHeaders[url] : row.chain = c /\ row.number = n
            BY <4>2
        <5>2. row \in [chain : EvmChains, number : Heights]
            BY <3>1, <5>1 DEF ServiceInv, TableType
        <5>3. row = [chain |-> c, number |-> n]
            BY <5>1, <5>2
        <5> QED
            BY <3>1, <3>4, <5>1, <5>3
      <4>3. CASE ~\E row \in blockHeaders[url] : row.chain = c /\ row.number = n
        BY <3>3, <4>1, <4>3
      <4> QED
        BY <4>2, <4>3
    <3>6. \A k \in EvmChains : \A m \in stored'[k] :
            m \in stored[k] \/ (k = c /\ m = n)
        BY <3>2 DEF ServiceInv, TableType
    <3>7. ASSUME NEW k \in EvmChains, NEW m \in stored'[k]
          PROVE  \E u \in Urls : [chain |-> k, number |-> m] \in blockHeaders'[u]
      <4>1. CASE k = c /\ m = n
        BY <3>1, <3>5, <4>1
      <4>2. CASE m \in stored[k]
        <5>1. PICK u \in Urls : [chain |-> k, number |-> m] \in blockHeaders[u]
            BY <4>2 DEF EvmChainsSeparate
        <5> QED
            BY <3>4, <5>1
      <4> QED
        BY <3>6, <3>7, <4>1, <4>2
    <3> QED
        BY <3>7 DEF EvmChainsSeparate
  <2> QED
    BY <2>1, <2>2
<1> QED
    BY <1>2, <1>3, <1>4 DEF ServiceNext

(* ON CONFLICT (chain, block_number) DO NOTHING: an EVM header counted as  *)
(* stored is in some database, for any chains sharing it, any restarts     *)
(* onto another database, and any number of heights.                       *)
THEOREM EvmChainsDoNotHide == ServiceSpec => []EvmChainsSeparate
<1>1. ServiceInit => ServiceInv /\ EvmChainsSeparate
    BY ServiceInitially DEF ServiceInit, EvmChainsSeparate
<1>2. ServiceInv /\ EvmChainsSeparate /\ [ServiceNext]_serviceVars
        => (ServiceInv /\ EvmChainsSeparate)'
    BY ServiceStep, SeparateStep
<1> QED
    BY <1>1, <1>2, PTL DEF ServiceSpec

-----------------------------------------------------------------------------
(* Containment of failures.                                                *)

(* One turn of a loop accounts for exactly the chain of its entry.         *)
LEMMA OutcomeAccounts ==
    ASSUME NEW cfg, NEW isEvm \in BOOLEAN, Outcome(cfg, isEvm),
           DOMAIN clients \cap rejected = {},
           cfg.chain \notin DOMAIN clients \cup rejected
    PROVE  /\ \A c : c \in DOMAIN clients' \cup rejected' <=>
                        c \in DOMAIN clients \cup rejected \/ c = cfg.chain
           /\ DOMAIN clients' \cap rejected' = {}
<1>1. CASE Failed(cfg.chain)
    BY <1>1 DEF Failed
<1>2. CASE \E u : Created(cfg.chain, u)
  <2>1. DOMAIN clients' = DOMAIN clients \cup {cfg.chain} /\ rejected' = rejected
    BY <1>2 DEF Created
  <2> QED
    BY <2>1
<1> QED
    BY <1>1, <1>2 DEF Outcome

(* With distinct chains, the entry in turn has not been handled before.    *)
LEMMA EvmTurnHandles ==
    ASSUME ServiceInv, phase = "evm", EvmTurn, UNCHANGED configVars
    PROVE  /\ \A c : Handled(c)' <=>
                Handled(c) \/ (evmFile[at].enable /\ evmFile[at].chain = c)
           /\ DistinctChains => ~Handled(evmFile[at].chain)
<1>1. evmFile' = evmFile /\ btcFile' = btcFile /\ phase' = phase /\ at' = at + 1
      /\ at \in DOMAIN evmFile
    BY DEF EvmTurn, configVars
<1>2. \A i \in DOMAIN evmFile : i \in Nat
    BY FileEntries DEF ServiceInv
<1>3. at \in Nat
    BY DEF ServiceInv, BuildType
<1>4. \A i \in DOMAIN evmFile : i < at + 1 <=> i < at \/ i = at
    BY <1>2, <1>3
<1>5. \A i \in DOMAIN evmFile : EvmDone(i)' <=> EvmDone(i) \/ i = at
    BY <1>1, <1>4 DEF EvmDone, Built
<1>6. \A i : ~BtcDone(i) /\ ~BtcDone(i)'
    BY <1>1 DEF BtcDone, Built
<1>7. \A c : Handled(c) <=> \E i \in DOMAIN evmFile :
                EvmDone(i) /\ evmFile[i].enable /\ evmFile[i].chain = c
    BY <1>6 DEF Handled
<1>8. \A c : Handled(c)' <=> \E i \in DOMAIN evmFile :
                EvmDone(i)' /\ evmFile[i].enable /\ evmFile[i].chain = c
    BY <1>1, <1>6 DEF Handled
<1>9. \A c : Handled(c)' <=>
                Handled(c) \/ (evmFile[at].enable /\ evmFile[at].chain = c)
    BY <1>1, <1>5, <1>7, <1>8
<1>10. ASSUME DistinctChains
       PROVE  ~Handled(evmFile[at].chain)
  <2>1. \A i, j \in DOMAIN evmFile : evmFile[i].chain = evmFile[j].chain => i = j
    BY <1>10 DEF DistinctChains, ServiceInv, ConfigType
  <2>2. ~EvmDone(at)
    BY <1>3 DEF EvmDone, Built
  <2> QED
    BY <1>1, <1>7, <2>1, <2>2
<1> QED
    BY <1>9, <1>10

LEMMA BtcTurnHandles ==
    ASSUME ServiceInv, phase = "btc", BtcTurn, UNCHANGED configVars
    PROVE  /\ \A c : Handled(c)' <=>
                Handled(c) \/ (btcFile[at].enable /\ btcFile[at].chain = c)
           /\ DistinctChains => ~Handled(btcFile[at].chain)
<1>1. evmFile' = evmFile /\ btcFile' = btcFile /\ phase' = phase /\ at' = at + 1
      /\ at \in DOMAIN btcFile
    BY DEF BtcTurn, configVars
<1>2. \A i \in DOMAIN btcFile : i \in Nat
    BY FileEntries DEF ServiceInv
<1>3. at \in Nat
    BY DEF ServiceInv, BuildType
<1>4. \A i \in DOMAIN btcFile : i < at + 1 <=> i < at \/ i = at
    BY <1>2, <1>3
<1>5. \A i \in DOMAIN btcFile : BtcDone(i)' <=> BtcDone(i) \/ i = at
    BY <1>1, <1>4 DEF BtcDone, Built
<1>6. \A i : EvmDone(i) /\ EvmDone(i)'
    BY <1>1 DEF EvmDone, Built
<1> DEFINE evm(c) == \E i \in DOMAIN evmFile : evmFile[i].enable /\ evmFile[i].chain = c
<1>7. \A c : Handled(c) <=> evm(c) \/ \E i \in DOMAIN btcFile :
                BtcDone(i) /\ btcFile[i].enable /\ btcFile[i].chain = c
    BY <1>6 DEF Handled
<1>8. \A c : Handled(c)' <=> evm(c) \/ \E i \in DOMAIN btcFile :
                BtcDone(i)' /\ btcFile[i].enable /\ btcFile[i].chain = c
    BY <1>1, <1>6 DEF Handled
<1>9. \A c : Handled(c)' <=>
                Handled(c) \/ (btcFile[at].enable /\ btcFile[at].chain = c)
    BY <1>1, <1>5, <1>7, <1>8
<1>10. ASSUME DistinctChains
       PROVE  ~Handled(btcFile[at].chain)
  <2>1. /\ \A i, j \in DOMAIN btcFile : btcFile[i].chain = btcFile[j].chain => i = j
        /\ \A i \in DOMAIN evmFile, j \in DOMAIN btcFile :
                evmFile[i].chain # btcFile[j].chain
    BY <1>10 DEF DistinctChains, ServiceInv, ConfigType
  <2>2. ~BtcDone(at)
    BY <1>3 DEF BtcDone, Built
  <2> QED
    BY <1>1, <1>7, <2>1, <2>2
<1> QED
    BY <1>9, <1>10

(* The end of a loop, and the steps that start no loop, handle nothing.    *)
LEMMA EvmEndHandles ==
    ASSUME ServiceInv, phase = "evm", EvmEnd, phase' = "btc", UNCHANGED configVars
    PROVE  \A c : Handled(c)' <=> Handled(c)
<1>1. evmFile' = evmFile /\ btcFile' = btcFile /\ at' = 1
    BY DEF EvmEnd, configVars
<1>2. evmFile \in Seq(Entries(EvmChains)) /\ btcFile \in Seq(Entries(BtcChains))
    BY FileEntries DEF ServiceInv
<1>3. \A i \in DOMAIN evmFile : i < at
  <2>1. Len(evmFile) \in Nat /\ DOMAIN evmFile = 1..Len(evmFile)
    BY <1>2
  <2>2. at \in Nat /\ at > Len(evmFile)
    BY DEF EvmEnd, ServiceInv, BuildType
  <2> QED
    BY ONLY <2>1, <2>2
<1>4. \A i \in DOMAIN btcFile : ~(i < 1)
    BY <1>2
<1>5. \A i \in DOMAIN evmFile : EvmDone(i) /\ EvmDone(i)'
    BY <1>3 DEF EvmDone
<1>6. \A i \in DOMAIN btcFile : ~BtcDone(i) /\ ~BtcDone(i)'
    BY <1>1, <1>4 DEF BtcDone, Built
<1> QED
    BY <1>1, <1>5, <1>6 DEF Handled

LEMMA BtcEndHandles ==
    ASSUME ServiceInv, phase = "btc", BtcEnd, UNCHANGED configVars
    PROVE  \A c : Handled(c)' <=> Handled(c)
<1>1. evmFile' = evmFile /\ btcFile' = btcFile /\ phase' = "running"
    BY DEF BtcEnd, configVars
<1>2. btcFile \in Seq(Entries(BtcChains))
    BY FileEntries DEF ServiceInv
<1>3. \A i \in DOMAIN btcFile : i < at
  <2>1. Len(btcFile) \in Nat /\ DOMAIN btcFile = 1..Len(btcFile)
    BY <1>2
  <2>2. at \in Nat /\ at > Len(btcFile)
    BY DEF BtcEnd, ServiceInv, BuildType
  <2> QED
    BY ONLY <2>1, <2>2
<1>4. \A i : EvmDone(i) /\ EvmDone(i)'
    BY <1>1 DEF EvmDone, Built
<1>5. \A i \in DOMAIN btcFile : BtcDone(i) /\ BtcDone(i)'
    BY <1>1, <1>3 DEF BtcDone, Built
<1> QED
    BY <1>1, <1>4, <1>5 DEF Handled

LEMMA NothingHandled ==
    ASSUME ServiceInv, phase = "load", at = 1
    PROVE  \A c : ~Handled(c)
    BY DEF Handled, EvmDone, BtcDone, Built

LEMMA ProgressStep ==
    ASSUME DistinctChains, ServiceInv, Progress, [ServiceNext]_serviceVars
    PROVE  Progress'
<1>1. UNCHANGED configVars
    BY ConfigUnchanged
<1>2. evmFile' = evmFile /\ btcFile' = btcFile
    BY <1>1 DEF configVars
<1>3. ASSUME UNCHANGED buildVars,
             phase' # "fatal" =>
                phase # "fatal" /\ \A c : Handled(c)' <=> Handled(c),
             phase' = "load" => at' = 1
      PROVE  Progress'
    BY <1>2, <1>3 DEF Progress, buildVars
<1>4. CASE LoadEnv
  <2>1. phase = "load" /\ at = 1 /\ at' = at /\ UNCHANGED buildVars
        /\ phase' \in {"evm", "fatal"}
    BY <1>4 DEF LoadEnv, Progress
  <2>2. \A c : ~Handled(c)
    BY <2>1, NothingHandled
  <2>3. \A i \in DOMAIN evmFile : ~(i < 1)
    BY FileEntries DEF ServiceInv
  <2>4. \A c : ~Handled(c)'
    BY <1>2, <2>1, <2>3 DEF Handled, EvmDone, BtcDone, Built
  <2> QED
    BY <1>3, <2>1, <2>2, <2>4
<1>5. CASE NewEvmClients
  <2>1. phase = "evm"
    BY <1>5 DEF NewEvmClients
  <2>2. CASE EvmTurn
    <3>1. phase' = "evm"
        BY <2>1, <2>2 DEF EvmTurn
    <3>2. /\ \A c : Handled(c)' <=>
                Handled(c) \/ (evmFile[at].enable /\ evmFile[at].chain = c)
          /\ ~Handled(evmFile[at].chain)
        BY <1>1, <2>1, <2>2, EvmTurnHandles
    <3>3. CASE evmFile[at].enable
      <4>1. Outcome(evmFile[at], TRUE)
        BY <2>2, <3>3 DEF EvmTurn
      <4>2. /\ \A c : c \in DOMAIN clients \cup rejected <=> Handled(c)
            /\ DOMAIN clients \cap rejected = {}
        BY <2>1 DEF Progress
      <4>3. evmFile[at].chain \notin DOMAIN clients \cup rejected
        BY <3>2, <4>2
      <4>4. /\ \A c : c \in DOMAIN clients' \cup rejected' <=>
                        c \in DOMAIN clients \cup rejected \/ c = evmFile[at].chain
            /\ DOMAIN clients' \cap rejected' = {}
        BY <4>1, <4>2, <4>3, OutcomeAccounts
      <4>5. \A c : c \in DOMAIN clients' \cup rejected' <=> Handled(c)'
        BY <3>2, <3>3, <4>2, <4>4
      <4> QED
        BY <3>1, <4>4, <4>5 DEF Progress
    <3>4. CASE ~evmFile[at].enable
      <4>1. UNCHANGED buildVars
        BY <2>2, <3>4 DEF EvmTurn
      <4> QED
        BY <1>3, <2>1, <3>1, <3>2, <3>4, <4>1
    <3> QED
        BY <3>3, <3>4
  <2>3. CASE EvmEnd
    <3>1. UNCHANGED buildVars /\ phase' \in {"btc", "fatal"}
        BY <2>3 DEF EvmEnd
    <3>2. phase' = "btc" => \A c : Handled(c)' <=> Handled(c)
        BY <1>1, <2>1, <2>3, EvmEndHandles
    <3> QED
        BY <1>3, <2>1, <3>1, <3>2
  <2> QED
    BY <1>5, <2>2, <2>3, EvmLoop
<1>6. CASE NewBtcClients
  <2>1. phase = "btc"
    BY <1>6 DEF NewBtcClients
  <2>3. CASE BtcTurn
    <3>1. phase' = "btc"
        BY <2>1, <2>3 DEF BtcTurn
    <3>2. /\ \A c : Handled(c)' <=>
                Handled(c) \/ (btcFile[at].enable /\ btcFile[at].chain = c)
          /\ ~Handled(btcFile[at].chain)
        BY <1>1, <2>1, <2>3, BtcTurnHandles
    <3>3. CASE btcFile[at].enable
      <4>1. Outcome(btcFile[at], FALSE)
        BY <2>3, <3>3 DEF BtcTurn
      <4>2. /\ \A c : c \in DOMAIN clients \cup rejected <=> Handled(c)
            /\ DOMAIN clients \cap rejected = {}
        BY <2>1 DEF Progress
      <4>3. btcFile[at].chain \notin DOMAIN clients \cup rejected
        BY <3>2, <4>2
      <4>4. /\ \A c : c \in DOMAIN clients' \cup rejected' <=>
                        c \in DOMAIN clients \cup rejected \/ c = btcFile[at].chain
            /\ DOMAIN clients' \cap rejected' = {}
        BY <4>1, <4>2, <4>3, OutcomeAccounts
      <4>5. \A c : c \in DOMAIN clients' \cup rejected' <=> Handled(c)'
        BY <3>2, <3>3, <4>2, <4>4
      <4> QED
        BY <1>2, <3>1, <4>4, <4>5 DEF Progress
    <3>4. CASE ~btcFile[at].enable
      <4>1. UNCHANGED buildVars
        BY <2>3, <3>4 DEF BtcTurn
      <4> QED
        BY <1>3, <2>1, <3>1, <3>2, <3>4, <4>1
    <3> QED
        BY <3>3, <3>4
  <2>4. CASE BtcEnd
    <3>1. UNCHANGED buildVars /\ phase' = "running"
        BY <2>4 DEF BtcEnd
    <3>2. \A c : Handled(c)' <=> Handled(c)
        BY <1>1, <2>1, <2>4, BtcEndHandles
    <3> QED
        BY <1>3, <2>1, <3>1, <3>2
  <2> QED
    BY <1>6, <2>3, <2>4, BtcLoop
<1>7. ASSUME UNCHANGED buildVars, phase = "running",
             phase' \in {"running", "stopped", "panicked"}
      PROVE  Progress'
  <2>1. \A c : Handled(c)' <=> Handled(c)
    BY <1>2, <1>7 DEF Handled, EvmDone, BtcDone, Built
  <2> QED
    BY <1>3, <1>7, <2>1
<1>8. ASSUME NEW c \in BtcChains, StartBtcIndexer(c) \/ StoreBtcHeader(c)
      PROVE  Progress'
    BY <1>7, <1>8 DEF StartBtcIndexer, StoreBtcHeader
<1>9. ASSUME NEW c \in EvmChains, NEW n \in Heights, StoreEvmHeader(c, n)
      PROVE  Progress'
    BY <1>7, <1>9 DEF StoreEvmHeader
<1>10. CASE StopService
    BY <1>7, <1>10 DEF StopService
<1>11. CASE RunAgain
  <2>1. phase' = "load" /\ at' = 1 /\ clients' = << >> /\ rejected' = {}
    BY <1>11 DEF RunAgain
  <2>2. DOMAIN clients' = {}
    BY ONLY <2>1
  <2>3. \A c : ~Handled(c)'
    BY <2>1 DEF Handled, EvmDone, BtcDone, Built
  <2> QED
    BY <2>1, <2>2, <2>3 DEF Progress
<1>12. CASE UNCHANGED serviceVars
  <2>1. UNCHANGED <<phase, at, buildVars>>
    BY <1>12 DEF serviceVars
  <2>2. \A c : Handled(c)' <=> Handled(c)
    BY <1>2, <2>1 DEF Handled, EvmDone, BtcDone
  <2> QED
    BY <1>2, <2>1, <2>2 DEF Progress, buildVars
<1> QED
    BY <1>4, <1>5, <1>6, <1>8, <1>9, <1>10, <1>11, <1>12 DEF ServiceNext

(* With distinct chains, the URL of a chain is the one of its entry.       *)
LEMMA UrlOfEntry ==
    ASSUME DistinctChains, ConfigType, NEW cfg \in ConfigsInUse
    PROVE  UrlOf(cfg.chain) = cfg.url
<1> DEFINE chosen == CHOOSE k \in ConfigsInUse : k.chain = cfg.chain
<1>1. chosen \in ConfigsInUse /\ chosen.chain = cfg.chain
    OBVIOUS
<1>2. \A k, l \in ConfigsInUse : k.chain = l.chain => k = l
  <2>1. /\ \A i, j \in DOMAIN evmFile : evmFile[i].chain = evmFile[j].chain => i = j
        /\ \A i, j \in DOMAIN btcFile : btcFile[i].chain = btcFile[j].chain => i = j
        /\ \A i \in DOMAIN evmFile, j \in DOMAIN btcFile :
                evmFile[i].chain # btcFile[j].chain
    BY DEF DistinctChains, ConfigType
  <2>2. \A k : k \in ConfigsInUse <=>
            \/ \E i \in DOMAIN evmFile : k = evmFile[i]
            \/ \E i \in DOMAIN btcFile : k = btcFile[i]
    BY DEF ConfigsInUse
  <2> QED
    BY <2>1, <2>2
<1> HIDE DEF chosen
<1>3. chosen = cfg
    BY <1>1, <1>2
<1>4. UrlOf(cfg.chain) = chosen.url
    BY DEF UrlOf, chosen
<1> QED
    BY <1>3, <1>4

(* A chain is left out at the cost of a fault, unless it has no URL.       *)
LEMMA OutcomePaid ==
    ASSUME DistinctChains, ServiceInv, FaultsPaid, NEW cfg \in ConfigsInUse,
           NEW isEvm \in BOOLEAN, Outcome(cfg, isEvm), UNCHANGED configVars
    PROVE  FaultsPaid'
<1>1. \A c : UrlOf(c)' = UrlOf(c)
    BY DEF UrlOf, ConfigsInUse, configVars
<1>2. RejectedWithUrl' = {c \in rejected' : UrlOf(c) # ""}
    BY <1>1 DEF RejectedWithUrl
<1>3. /\ serviceFaults \in Nat /\ serviceFaults' \in Nat
      /\ serviceFaults <= serviceFaults'
    BY DEF Outcome, ServiceInv, BuildType
<1>4. IsFiniteSet(RejectedWithUrl) /\ Cardinality(RejectedWithUrl) \in Nat
      /\ Cardinality(RejectedWithUrl) <= serviceFaults
    BY FS_CardinalityType DEF FaultsPaid
<1>5. ASSUME RejectedWithUrl' = RejectedWithUrl
      PROVE  FaultsPaid'
  <2>1. Cardinality(RejectedWithUrl') <= serviceFaults'
    BY <1>3, <1>4, <1>5
  <2> QED
    BY <1>4, <1>5, <2>1 DEF FaultsPaid
<1>6. CASE \E u : Created(cfg.chain, u)
    BY <1>2, <1>5, <1>6 DEF Created, RejectedWithUrl
<1>7. CASE Failed(cfg.chain) /\ cfg.url = ""
  <2>1. UrlOf(cfg.chain) = ""
    BY <1>7, UrlOfEntry DEF ServiceInv
  <2> QED
    BY <1>2, <1>5, <1>7, <2>1 DEF Failed, RejectedWithUrl
<1>8. CASE Failed(cfg.chain) /\ cfg.url # "" /\ serviceFaults < serviceFaults'
  <2>1. UrlOf(cfg.chain) # ""
    BY <1>8, UrlOfEntry DEF ServiceInv
  <2>2. RejectedWithUrl' = RejectedWithUrl \cup {cfg.chain}
    BY <1>2, <1>8, <2>1 DEF Failed, RejectedWithUrl
  <2>3. /\ IsFiniteSet(RejectedWithUrl')
        /\ \/ Cardinality(RejectedWithUrl') = Cardinality(RejectedWithUrl)
           \/ Cardinality(RejectedWithUrl') = Cardinality(RejectedWithUrl) + 1
    BY <1>4, <2>2, FS_AddElement
  <2>4. Cardinality(RejectedWithUrl') <= serviceFaults'
    <3>1. serviceFaults < serviceFaults'
        BY <1>8
    <3>2. \A n, m, f, g \in Nat : n <= f /\ f < g /\ (m = n \/ m = n + 1) => m <= g
        OBVIOUS
    <3>3. Cardinality(RejectedWithUrl') \in Nat
        BY <2>3, FS_CardinalityType
    <3> QED
        BY <1>3, <1>4, <2>3, <3>1, <3>2, <3>3
  <2> QED
    BY <2>3, <2>4 DEF FaultsPaid
<1> QED
    BY <1>6, <1>7, <1>8 DEF Outcome

LEMMA PaidStep ==
    ASSUME DistinctChains, ServiceInv, FaultsPaid, [ServiceNext]_serviceVars
    PROVE  FaultsPaid'
<1>1. UNCHANGED configVars
    BY ConfigUnchanged
<1>2. ASSUME UNCHANGED buildVars
      PROVE  FaultsPaid'
  <2>1. ConfigsInUse' = ConfigsInUse
    BY <1>1 DEF ConfigsInUse, configVars
  <2>2. \A c : UrlOf(c)' = UrlOf(c)
    BY <2>1 DEF UrlOf
  <2>3. RejectedWithUrl' = RejectedWithUrl /\ serviceFaults' = serviceFaults
    BY <1>2, <2>2 DEF RejectedWithUrl, buildVars
  <2> QED
    BY <2>3 DEF FaultsPaid
<1>3. CASE NewEvmClients
  <2>1. CASE EvmTurn /\ evmFile[at].enable
    <3>1. Outcome(evmFile[at], TRUE) /\ evmFile[at] \in ConfigsInUse
        BY <2>1 DEF EvmTurn, ConfigsInUse
    <3> QED
        BY <1>1, <3>1, OutcomePaid
  <2>2. CASE (EvmTurn /\ ~evmFile[at].enable) \/ EvmEnd
    BY <1>2, <2>2 DEF EvmTurn, EvmEnd
  <2> QED
    BY <1>3, <2>1, <2>2, EvmLoop
<1>4. CASE NewBtcClients
  <2>1. CASE BtcTurn /\ btcFile[at].enable
    <3>1. Outcome(btcFile[at], FALSE) /\ btcFile[at] \in ConfigsInUse
        BY <2>1 DEF BtcTurn, ConfigsInUse
    <3> QED
        BY <1>1, <3>1, OutcomePaid
  <2>2. CASE (BtcTurn /\ ~btcFile[at].enable) \/ BtcEnd
    BY <1>2, <2>2 DEF BtcTurn, BtcEnd
  <2> QED
    BY <1>4, <2>1, <2>2, BtcLoop
<1>5. CASE RunAgain
  <2>1. rejected' = {} /\ serviceFaults' = 0
    BY <1>5 DEF RunAgain
  <2>2. RejectedWithUrl' = {}
    BY <2>1 DEF RejectedWithUrl
  <2>3. Cardinality(RejectedWithUrl') = 0 /\ IsFiniteSet(RejectedWithUrl')
    BY <2>2, FS_EmptySet
  <2>4. Cardinality(RejectedWithUrl') <= serviceFaults'
    BY <2>1, <2>3
  <2> QED
    BY <2>3, <2>4 DEF FaultsPaid
<1>6. CASE LoadEnv \/ StopService
    BY <1>2, <1>6 DEF LoadEnv, StopService
<1>7. ASSUME NEW c \in BtcChains, StartBtcIndexer(c) \/ StoreBtcHeader(c)
      PROVE  UNCHANGED buildVars
    BY <1>7 DEF StartBtcIndexer, StoreBtcHeader
<1>8. ASSUME NEW c \in EvmChains, NEW n \in Heights, StoreEvmHeader(c, n)
      PROVE  UNCHANGED buildVars
    BY <1>8 DEF StoreEvmHeader
<1>9. CASE UNCHANGED serviceVars
    BY <1>2, <1>9 DEF serviceVars
<1> QED
    BY <1>2, <1>3, <1>4, <1>5, <1>6, <1>7, <1>8, <1>9 DEF ServiceNext

(* A failing database or node costs the one chain it was needed for: when  *)
(* the service runs, every other enabled chain of the configuration has a  *)
(* client.  For any configuration files that list no chain twice.          *)
THEOREM FailuresStayContained ==
    ASSUME DistinctChains
    PROVE  ServiceSpec => []FailureContained
<1> DEFINE Contained == ServiceInv /\ Progress /\ FaultsPaid
<1>1. ServiceInit => Contained
  <2> SUFFICES ASSUME ServiceInit
               PROVE  Contained
    OBVIOUS
  <2>1. ServiceInv
    BY ServiceInitially
  <2>2. clients = << >> /\ rejected = {} /\ phase = "load" /\ at = 1 /\ serviceFaults = 0
    BY DEF ServiceInit
  <2>3. DOMAIN clients = {}
    BY ONLY <2>2
  <2>4. Progress
    BY <2>1, <2>2, <2>3, NothingHandled DEF Progress
  <2>5. RejectedWithUrl = {}
    BY <2>2 DEF RejectedWithUrl
  <2>6. Cardinality(RejectedWithUrl) = 0 /\ IsFiniteSet(RejectedWithUrl)
    BY <2>5, FS_EmptySet
  <2>7. Cardinality(RejectedWithUrl) <= serviceFaults
    BY <2>2, <2>6
  <2> QED
    BY <2>1, <2>4, <2>6, <2>7 DEF FaultsPaid
<1>2. Contained /\ [ServiceNext]_serviceVars => Contained'
    BY ServiceStep, ProgressStep, PaidStep
<1>3. Contained => FailureContained
  <2> SUFFICES ASSUME Contained, phase = "running"
               PROVE  /\ DOMAIN clients \cup rejected =
                            {cfg.chain : cfg \in {k \in ConfigsInUse : k.enable}}
                      /\ DOMAIN clients \cap rejected = {}
                      /\ Cardinality({c \in rejected : UrlOf(c) # ""}) <= serviceFaults
    BY DEF FailureContained
  <2>1. \A c : c \in DOMAIN clients \cup rejected <=> Handled(c)
    BY DEF Progress
  <2>2. \A c : Handled(c) <=> \E cfg \in ConfigsInUse : cfg.enable /\ cfg.chain = c
    BY DEF Handled, EvmDone, BtcDone, Built, ConfigsInUse
  <2>3. DOMAIN clients \cup rejected =
            {cfg.chain : cfg \in {k \in ConfigsInUse : k.enable}}
    BY <2>1, <2>2
  <2> QED
    BY <2>3 DEF Progress, FaultsPaid, RejectedWithUrl
<1> HIDE DEF Contained
<1> QED
    BY <1>1, <1>2, <1>3, PTL DEF ServiceSpec

=============================================================================
