------------------------------ MODULE Service -------------------------------
(***************************************************************************)
(* The process as a whole: run (cmd/root.go) reads the configuration,      *)
(* NewService builds a client for every enabled chain, Start sets them     *)
(* going, and a signal, a fatal error or a panic ends the process, which   *)
(* may be started again.  It composes the clients of several chains over   *)
(* the one DatabaseAdapter they get (pkg/db/adapter.go); what a client     *)
(* does between two inserts is in EvmIndexer and BtcIndexer, so that here  *)
(* a client is the order in which it stores the headers of its blocks.     *)
(***************************************************************************)
EXTENDS Naturals, Sequences, FiniteSets

CONSTANTS
    EvmFiles, BtcFiles,     \* contents of evms.json and btcs.json: sequences
                            \* of [chain, enable, url, durations]
    Urls,                   \* database URLs, "" among them
    NoBeaconRoot,           \* <<chain, height>> of EVM blocks without that root
    MaxHeight, MaxServiceFaults, MaxStarts      \* bounds

ASSUME ServiceAssumption ==
    /\ MaxHeight \in Nat /\ MaxServiceFaults \in Nat /\ MaxStarts \in Nat
    /\ "" \in Urls

Configs(files) == UNION {{file[i] : i \in DOMAIN file} : file \in files}
EvmChains == {cfg.chain : cfg \in Configs(EvmFiles)}
BtcChains == {cfg.chain : cfg \in Configs(BtcFiles)}
Heights == 1..MaxHeight
NoAdapter == "no adapter"
Entries(chains) ==
    [chain : chains, enable : BOOLEAN, url : Urls, durations : {"empty", "valid", "bad"}]

ASSUME FilesAssumption ==
    /\ \A file \in EvmFiles : file \in Seq(Entries(EvmChains))
    /\ \A file \in BtcFiles : file \in Seq(Entries(BtcChains))
    /\ NoAdapter \notin Urls
    /\ NoBeaconRoot \subseteq EvmChains \X Heights

NoRow == "no row"
Readable == {"CONFIG_PATH", "evms.json", "btcs.json"}

VARIABLES
    evmFile, btcFile, readable,   \* the configuration and what can be read
    phase,       \* where run stands
    at,          \* the config in turn
    adapter,     \* URL of the package variable dbAdapter
    clients,     \* chain -> URL of the client's adapter, for existing clients
    rejected,    \* chains whose client could not be created
    serviceFaults, starts,
    position,    \* next height of each running Bitcoin client, 0 before it starts
    blockHeaders,      \* database -> rows of block_headers
    btcBlockHeaders,   \* database -> height -> chain of the row
    stored, passed     \* history: heights each EVM and Bitcoin client has saved

configVars == <<evmFile, btcFile, readable>>
tables == <<blockHeaders, btcBlockHeaders, stored, passed>>
buildVars == <<adapter, clients, rejected, serviceFaults>>
serviceVars == <<configVars, phase, at, buildVars, starts, position, tables>>

ServiceInit ==
    /\ evmFile \in EvmFiles /\ btcFile \in BtcFiles
    /\ readable \in SUBSET Readable
    /\ phase = "load" /\ at = 1 /\ adapter = NoAdapter
    /\ clients = << >> /\ rejected = {}
    /\ position = [c \in BtcChains |-> 0]
    /\ serviceFaults = 0 /\ starts = 1
    /\ blockHeaders = [u \in Urls |-> {}]
    /\ btcBlockHeaders = [u \in Urls |-> [h \in Heights |-> NoRow]]
    /\ stored = [c \in EvmChains |-> {}] /\ passed = [c \in BtcChains |-> {}]

(* The calls made for a client, of which one may fail: to the database at  *)
(* url, unless there is an adapter, and then to the node.                  *)
Attempt(url, opened, dialled) ==
    /\ ~opened => url # "" /\ adapter = NoAdapter /\ dialled
    /\ (opened /\ dialled) \/ serviceFaults < MaxServiceFaults
    /\ serviceFaults' = IF opened /\ dialled THEN serviceFaults
                                             ELSE serviceFaults + 1

-----------------------------------------------------------------------------
(* LoadEnv, then the start of NewEvmClients: an unset path or a file that  *)
(* cannot be read or parsed is fatal.                                      *)
LoadEnv ==
    /\ phase = "load"
    /\ phase' = IF {"CONFIG_PATH", "evms.json"} \subseteq readable
                THEN "evm" ELSE "fatal"
    /\ UNCHANGED <<configVars, at, buildVars, starts, position, tables>>

(* NewDatabaseAdapter: once there is an adapter the URL is not looked at;  *)
(* NewPostgresClient, SetupDatabase and RunMigrations otherwise.           *)
NewDatabaseAdapter(url, ok) ==
    IF adapter # NoAdapter THEN adapter
    ELSE IF url # "" /\ ok THEN url ELSE NoAdapter

Created(chain, url) ==
    /\ clients' = [c \in DOMAIN clients \cup {chain} |->
                      IF c = chain THEN url ELSE clients[c]]
    /\ UNCHANGED rejected
Failed(chain) == rejected' = rejected \cup {chain} /\ UNCHANGED clients

(* NewEvmClient: without a URL the adapter stays nil.  The adapter is made *)
(* before the node is dialled, and stays when that fails.                  *)
NewEvmClient(cfg) ==
    \E opened, dialled \in BOOLEAN :
        LET db == NewDatabaseAdapter(cfg.url, opened) IN
        /\ Attempt(cfg.url, opened, dialled)
        /\ adapter' = IF cfg.url = "" THEN adapter ELSE db
        /\ CASE cfg.url # "" /\ db = NoAdapter -> Failed(cfg.chain)
             [] ~dialled -> Failed(cfg.chain)
             [] OTHER -> Created(cfg.chain, IF cfg.url = "" THEN "" ELSE db)

(* BtcConfig.UnmarshalJSON: a duration is empty, which leaves it 0 for     *)
(* NewBtcClient to replace, or has to parse.                               *)
UnmarshalJSON(cfg) == cfg.durations \in {"empty", "valid"}

(* ReadJsonArrayConfig of btcs.json: one bad entry, enabled or not, fails  *)
(* the file.                                                               *)
ReadBtcs ==
    "btcs.json" \in readable /\ \A i \in DOMAIN btcFile : UnmarshalJSON(btcFile[i])

(* Deviation used to test the properties: the file without its last entry. *)
MutNewEvmClients ==
    /\ phase = "evm"
    /\ \/ /\ at < Len(evmFile)
          /\ at' = at + 1 /\ phase' = phase
          /\ IF evmFile[at].enable THEN NewEvmClient(evmFile[at])
                                   ELSE UNCHANGED buildVars
       \/ /\ at >= Len(evmFile)
          /\ at' = 1 /\ phase' = IF ReadBtcs THEN "btc" ELSE "fatal"
          /\ UNCHANGED buildVars
    /\ UNCHANGED <<configVars, starts, position, tables>>

(* NewEvmClients: a client that cannot be made is logged and left out.     *)
NewEvmClients ==
    /\ phase = "evm"
    /\ \/ /\ at <= Len(evmFile)
          /\ at' = at + 1 /\ phase' = phase
          /\ IF evmFile[at].enable THEN NewEvmClient(evmFile[at])
                                   ELSE UNCHANGED buildVars
       \/ /\ at > Len(evmFile)
          /\ at' = 1 /\ phase' = IF ReadBtcs THEN "btc" ELSE "fatal"
          /\ UNCHANGED buildVars
    /\ UNCHANGED <<configVars, starts, position, tables>>

(* Deviation used to test the properties: the error of the database is not *)
(* looked at.                                                              *)
MutNewBtcClient(cfg) ==
    \E opened, dialled \in BOOLEAN :
        LET db == NewDatabaseAdapter(cfg.url, opened) IN
        /\ Attempt(cfg.url, opened, dialled)
        /\ adapter' = db
        /\ IF dialled THEN Created(cfg.chain, db) ELSE Failed(cfg.chain)

(* NewBtcClient: defaults, the adapter (an empty URL will do when there    *)
(* already is one), the RPC client.                                        *)
NewBtcClient(cfg) ==
    \E opened, dialled \in BOOLEAN :
        LET db == NewDatabaseAdapter(cfg.url, opened) IN
        /\ Attempt(cfg.url, opened, dialled)
        /\ adapter' = db
        /\ IF db = NoAdapter \/ ~dialled THEN Failed(cfg.chain)
                                         ELSE Created(cfg.chain, db)

NewBtcClients ==
    /\ phase = "btc"
    /\ \/ /\ at <= Len(btcFile)
          /\ at' = at + 1 /\ phase' = phase
          /\ IF btcFile[at].enable THEN NewBtcClient(btcFile[at])
                                   ELSE UNCHANGED buildVars
       \/ /\ at > Len(btcFile)
          /\ at' = 1 /\ phase' = "running"    \* Start: a goroutine per client
          /\ UNCHANGED buildVars
    /\ UNCHANGED <<configVars, starts, position, tables>>

-----------------------------------------------------------------------------
(* GetLatestIndexedHeight: the chain it is given is not in the query.      *)
GetLatestIndexedHeight(url, h) ==
    LET rows == {r \in Heights : btcBlockHeaders[url][r] # NoRow}
    IN  h \in rows \cup {0} /\ \A r \in rows : r <= h

StartBtcIndexer(c) ==
    /\ phase = "running" /\ c \in DOMAIN clients /\ position[c] = 0
    /\ \E h \in Heights \cup {0} :
        /\ GetLatestIndexedHeight(clients[c], h)
        /\ position' = [position EXCEPT ![c] = h + 1]
    /\ UNCHANGED <<configVars, phase, at, buildVars, starts, tables>>

(* StoreBlockHeader: ON CONFLICT (height) DO NOTHING.                      *)
StoreBtcHeader(c) ==
    LET h == position[c] IN
    /\ phase = "running" /\ h \in Heights
    /\ btcBlockHeaders' =
        [btcBlockHeaders EXCEPT ![clients[c]][h] = IF @ = NoRow THEN c ELSE @]
    /\ passed' = [passed EXCEPT ![c] = @ \cup {h}]
    /\ position' = [position EXCEPT ![c] = h + 1]
    /\ UNCHANGED <<configVars, phase, at, buildVars, starts, blockHeaders, stored>>

(* Deviation used to test the properties: the chain is not in the key.     *)
MutCreateBlockHeader(rows, c, n) ==
    IF \E row \in rows : row.number = n THEN rows
    ELSE rows \cup {[chain |-> c, number |-> n]}

(* CreateBlockHeader: ON CONFLICT (chain, block_number) DO NOTHING.        *)
CreateBlockHeader(rows, c, n) ==
    IF \E row \in rows : row.chain = c /\ row.number = n THEN rows
    ELSE rows \cup {[chain |-> c, number |-> n]}

(* fetchBlockHeader of an EVM client: a block without a beacon root, and   *)
(* then a missing adapter, is a nil that is dereferenced, which takes the  *)
(* process down.                                                           *)
StoreEvmHeader(c, n) ==
    /\ phase = "running" /\ c \in DOMAIN clients /\ n \notin stored[c]
    /\ IF <<c, n>> \in NoBeaconRoot \/ clients[c] = ""
       THEN phase' = "panicked" /\ UNCHANGED <<blockHeaders, stored>>
       ELSE /\ blockHeaders' =
                [blockHeaders EXCEPT ![clients[c]] = CreateBlockHeader(@, c, n)]
            /\ stored' = [stored EXCEPT ![c] = @ \cup {n}]
            /\ phase' = phase
    /\ UNCHANGED <<configVars, at, buildVars, starts, position, btcBlockHeaders, passed>>

(* SIGINT or SIGTERM, then Stop; the process exits.                        *)
StopService ==
    /\ phase = "running" /\ phase' = "stopped"
    /\ UNCHANGED <<configVars, at, buildVars, starts, position, tables>>

(* run again: the package variables and the clients are new.               *)
RunAgain ==
    /\ phase \in {"stopped", "fatal", "panicked"} /\ starts < MaxStarts
    /\ phase' = "load" /\ at' = 1 /\ adapter' = NoAdapter
    /\ clients' = << >> /\ rejected' = {}
    /\ position' = [c \in BtcChains |-> 0]
    /\ starts' = starts + 1 /\ serviceFaults' = 0
    /\ UNCHANGED <<configVars, tables>>

ServiceNext ==
    \/ LoadEnv \/ NewEvmClients \/ NewBtcClients
    \/ \E c \in BtcChains : StartBtcIndexer(c) \/ StoreBtcHeader(c)
    \/ \E c \in EvmChains, n \in Heights : StoreEvmHeader(c, n)
    \/ StopService \/ RunAgain

ServiceSpec == ServiceInit /\ [][ServiceNext]_serviceVars

-----------------------------------------------------------------------------
ConfigsInUse == {evmFile[i] : i \in DOMAIN evmFile} \cup {btcFile[i] : i \in DOMAIN btcFile}
UrlOf(c) == (CHOOSE cfg \in ConfigsInUse : cfg.chain = c).url

(* Types: a client's adapter is a database's, or nil for an EVM client.    *)
ServiceTypeOK ==
    /\ phase \in {"load", "evm", "btc", "running", "stopped", "fatal", "panicked"}
    /\ adapter \in (Urls \ {""}) \cup {NoAdapter}
    /\ DOMAIN clients \subseteq EvmChains \cup BtcChains
    /\ \A c \in DOMAIN clients :
        clients[c] \in Urls /\ (clients[c] = "" => c \in EvmChains)
    /\ position \in [BtcChains -> 0..(MaxHeight + 1)]

(* A running service has accounted for every enabled chain: it has a       *)
(* client or was logged as failed, never both, and a failing call costs    *)
(* one chain.  The one other reason to be left out is a Bitcoin chain      *)
(* without a URL when nobody before it has opened a database.              *)
FailureContained ==
    phase = "running" =>
        /\ DOMAIN clients \cup rejected = {cfg.chain : cfg \in {k \in ConfigsInUse : k.enable}}
        /\ DOMAIN clients \cap rejected = {}
        /\ Cardinality({c \in rejected : UrlOf(c) # ""}) <= serviceFaults

(* README.md: "Shared Database (Default)", and DATABASE_URL is the "Full   *)
(* database connection string" (of the environment, which nothing reads):  *)
(* a running chain without a URL of its own still has a database.          *)
SharedByDefault ==
    phase = "running" => \A c \in DOMAIN clients : clients[c] # ""

(* The EVM chains that share a database do not hide each other's headers,  *)
(* across stops, panics and restarts with another adapter.                 *)
EvmChainsSeparate ==
    \A c \in EvmChains : \A n \in stored[c] :
        \E u \in Urls : [chain |-> c, number |-> n] \in blockHeaders[u]

(* docs/electrum-indexer.md: "Each electrum indexer has its own database   *)
(* connection for isolation": a height a Bitcoin client has gone past has  *)
(* the header of its chain in the database its configuration names, if it  *)
(* names one.                                                              *)
BtcChainsSeparate ==
    \A c \in BtcChains : UrlOf(c) # "" =>
        \A h \in passed[c] : btcBlockHeaders[UrlOf(c)][h] = c
=============================================================================
