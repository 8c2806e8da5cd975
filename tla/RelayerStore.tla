---------------------------- MODULE RelayerStore ----------------------------
(***************************************************************************)
(* The tables a relayer shares with the indexer through DatabaseAdapter    *)
(* (pkg/db/token.go, contractcall.go and command.go): token_sents, and the *)
(* two tables of contract calls.  A row is its status.                     *)
(*                                                                         *)
(* The database is PostgreSQL at READ COMMITTED, used from concurrent      *)
(* sessions: a statement sees what is committed when it runs, and one that *)
(* would change a row waits for the transaction that has changed it.  A    *)
(* method that is one statement is one step; the methods that open a       *)
(* transaction take one step per statement, and their changes are visible  *)
(* from the commit on.  The schema (data-models) is external: event_id is  *)
(* unique, as the ON CONFLICT clauses require; whether it is the primary   *)
(* key, which decides what gorm's Save does with a known event, is open.   *)
(***************************************************************************)
EXTENDS Naturals, Sequences, FiniteSets

CONSTANTS
    Events,      \* event ids
    TxOf,        \* the transaction that emitted each event
    Sessions     \* connections of the pool

ASSUME StoreAssumption ==
    /\ DOMAIN TxOf = Events
    /\ \A s \in Sessions : s \notin {"none", "single"}
    /\ \A e \in Events : \A t \in {"contract_calls", "contract_call_with_tokens"} :
        <<t, e>> \notin Events

None == "none"
Statuses == {"pending", "approved", "success"}
Tables == {"contract_calls", "contract_call_with_tokens"}
NoEvents == [e \in Events |-> None]

VARIABLES
    eventIdIsKey,  \* is event_id the primary key
    tokenSents,    \* token_sents
    calls,         \* the two tables of contract calls
    op,            \* the open transaction of each session
    ids,           \* the rows it has read or deleted
    fresh,         \* the events it is going to save
    status,        \* the status it is going to write
    todo, wrote,   \* a batch: items left, and rows changed but not committed
    found,         \* rows a finder has handed to the relayer
    raced,         \* history: events that succeeded since the session's read
    writer         \* history: the complete batch that wrote a call's status

txVars == <<op, ids, fresh, status, todo, wrote>>
storeVars == <<eventIdIsKey, tokenSents, calls, txVars, found, raced, writer>>

StoreInit ==
    /\ eventIdIsKey \in BOOLEAN
    /\ tokenSents = NoEvents
    /\ calls = [t \in Tables |-> NoEvents]
    /\ op = [s \in Sessions |-> "idle"]
    /\ ids = [s \in Sessions |-> {}] /\ fresh = [s \in Sessions |-> {}]
    /\ status = [s \in Sessions |-> "pending"]
    /\ todo = [s \in Sessions |-> << >>]
    /\ wrote = [s \in Sessions |-> NoEvents]
    /\ found = {} /\ raced = [s \in Sessions |-> {}]
    /\ writer = NoEvents

Present(rows) == {e \in Events : rows[e] # None}
Put(rows, es, st) == [e \in Events |-> IF e \in es THEN st ELSE rows[e]]

(* The rows other transactions have changed and not committed.             *)
Locked(s) ==
    UNION {IF op[t] = "deleted" THEN ids[t] ELSE Present(wrote[t])
              : t \in Sessions \ {s}}
Closed(s) ==
    /\ op' = [op EXCEPT ![s] = "idle"]
    /\ ids' = [ids EXCEPT ![s] = {}] /\ fresh' = [fresh EXCEPT ![s] = {}]
    /\ status' = [status EXCEPT ![s] = "pending"]
    /\ todo' = [todo EXCEPT ![s] = << >>]
    /\ wrote' = [wrote EXCEPT ![s] = NoEvents]

-----------------------------------------------------------------------------
(* token_sents.                                                            *)

(* SaveTokenSent, SaveTokenSents: a known event is left alone.             *)
SaveTokenSents(s, es) ==
    /\ op[s] = "idle" /\ es \cap Locked(s) = {}
    /\ tokenSents' = Put(tokenSents, es \ Present(tokenSents), "pending")
    /\ UNCHANGED <<txVars, found>>

(* BatchSaveTokenSents: a known event fails the whole insert.              *)
BatchSaveTokenSents(s, es) ==
    /\ op[s] = "idle" /\ es \cap Locked(s) = {}
    /\ es \cap Present(tokenSents) = {}
    /\ tokenSents' = Put(tokenSents, es, "pending")
    /\ UNCHANGED <<txVars, found>>

(* Deviation used to test the properties: rows of any status are deleted.  *)
MutRemoveDuplicates(s, es) ==
    LET dup == {e \in Present(tokenSents) : \E f \in es : TxOf[f] = TxOf[e]} IN
    /\ op[s] = "idle" /\ dup \cap Locked(s) = {}
    /\ op' = [op EXCEPT ![s] = "deleted"]
    /\ ids' = [ids EXCEPT ![s] = dup] /\ fresh' = [fresh EXCEPT ![s] = es]
    /\ UNCHANGED <<tokenSents, status, todo, wrote, found>>

(* SaveTokenSentsAndRemoveDupplicates: Begin and Delete ...                *)
RemoveDuplicates(s, es) ==
    LET dup == {e \in Events : /\ tokenSents[e] = "pending"
                               /\ \E f \in es : TxOf[f] = TxOf[e]} IN
    /\ op[s] = "idle" /\ dup \cap Locked(s) = {}
    /\ op' = [op EXCEPT ![s] = "deleted"]
    /\ ids' = [ids EXCEPT ![s] = dup] /\ fresh' = [fresh EXCEPT ![s] = es]
    /\ UNCHANGED <<tokenSents, status, todo, wrote, found>>

(* Deviation used to test the properties: the records are not saved.       *)
MutSaveFresh(s) ==
    /\ op[s] = "deleted" /\ fresh[s] \cap Locked(s) = {}
    /\ tokenSents' = Put(tokenSents, ids[s], None)
    /\ Closed(s) /\ UNCHANGED found

(* ... then Save and Commit.  Save overwrites a row with the same primary  *)
(* key; without one, an event that is still there fails it.                *)
SaveFresh(s) ==
    /\ op[s] = "deleted" /\ fresh[s] \cap Locked(s) = {}
    /\ eventIdIsKey \/ fresh[s] \cap (Present(tokenSents) \ ids[s]) = {}
    /\ tokenSents' = Put(Put(tokenSents, ids[s], None), fresh[s], "pending")
    /\ Closed(s) /\ UNCHANGED found

(* Any statement may fail: the transaction is rolled back.                 *)
Rollback(s) ==
    /\ op[s] # "idle"
    /\ Closed(s)
    /\ UNCHANGED <<tokenSents, calls, found>>

(* UpdateTokenSentsStatus: the events of the commands that are not success *)
(* are read; es is what the sub-query on token_sent_approveds yields ...   *)
ReadUnfinished(s, es, st) ==
    /\ op[s] = "idle"
    /\ op' = [op EXCEPT ![s] = "picked"]
    /\ ids' = [ids EXCEPT ![s] =
                  {e \in es : tokenSents[e] \notin {None, "success"}}]
    /\ status' = [status EXCEPT ![s] = st]
    /\ UNCHANGED <<tokenSents, fresh, todo, wrote, found>>

(* ... and updated by their ids, whatever their status is by then.         *)
UpdateTokenSentsStatus(s) ==
    /\ op[s] = "picked" /\ ids[s] \cap Locked(s) = {}
    /\ tokenSents' = Put(tokenSents, ids[s] \cap Present(tokenSents), status[s])
    /\ Closed(s) /\ UNCHANGED found

(* FindPendingBtcTokenSent; the height only narrows the choice.            *)
FindPendingBtcTokenSent(s) ==
    /\ op[s] = "idle"
    /\ found' = found \cup {e \in Events : tokenSents[e] = "pending"}
    /\ UNCHANGED <<tokenSents, txVars>>

Succeeded == {e \in Events : tokenSents[e] # "success" /\ tokenSents'[e] = "success"}

TokenStep(s) ==
    /\ \/ \E es \in SUBSET Events \ {{}} :
            \/ SaveTokenSents(s, es) \/ BatchSaveTokenSents(s, es)
            \/ RemoveDuplicates(s, es)
            \/ \E st \in Statuses : ReadUnfinished(s, es, st)
       \/ SaveFresh(s) \/ UpdateTokenSentsStatus(s) \/ Rollback(s)
       \/ FindPendingBtcTokenSent(s)
    /\ raced' = [t \in Sessions |->
                    IF t # s /\ op[t] = "picked" THEN raced[t] \cup Succeeded
                                                 ELSE {}]
    /\ UNCHANGED <<eventIdIsKey, calls, writer>>

TokenNext == \E s \in Sessions : TokenStep(s)
TokenSpec == StoreInit /\ [][TokenNext]_storeVars

-----------------------------------------------------------------------------
(* contract_calls and contract_call_with_tokens.                           *)

Write(t, es, st) ==
    /\ calls' = [calls EXCEPT ![t] = Put(@, es, st)]
    /\ writer' = IF t = "contract_calls"
                 THEN [e \in Events |-> IF e \in es THEN "single" ELSE writer[e]]
                 ELSE writer
    /\ UNCHANGED <<txVars, found>>

(* CreateContractCall, CreateContractCallWithToken: Save.                  *)
CreateContractCall(s, t, e, st) ==
    /\ op[s] = "idle" /\ (t = "contract_calls" => e \notin Locked(s))
    /\ eventIdIsKey \/ calls[t][e] = None
    /\ Write(t, {e}, st)

(* BatchCreateContractCalls, BatchCreateContractCallsWithToken.            *)
BatchCreateContractCalls(s, t, es) ==
    /\ op[s] = "idle" /\ es \cap Present(calls[t]) = {}
    /\ Write(t, es, "pending")

(* UpdateContractCallApproved: no look at the status.                      *)
UpdateContractCallApproved(s, e) ==
    /\ op[s] = "idle" /\ e \in Present(calls["contract_calls"]) \ Locked(s)
    /\ Write("contract_calls", {e}, "approved")

(* UpdateCallContractWithTokenExecuteHash: one event, any status.          *)
UpdateCallContractWithToken(s, e, st) ==
    /\ op[s] = "idle"
    /\ Write("contract_call_with_tokens",
             {e} \cap Present(calls["contract_call_with_tokens"]), st)

(* UpdateRedeemExecutedCommands: es is what the sub-query on the executed  *)
(* commands of the transactions yields.                                    *)
UpdateRedeemExecutedCommands(s, es) ==
    /\ op[s] = "idle"
    /\ Write("contract_call_with_tokens",
             es \cap Present(calls["contract_call_with_tokens"]), "success")

(* UpdateBatchContractCallStatus: one transaction, one update per item,    *)
(* each of which locks its row until the end.  Cutting the items into      *)
(* chunks of batchSize > 0 does not change their order.                    *)
BeginBatch(s, items) ==
    /\ op[s] = "idle"
    /\ op' = [op EXCEPT ![s] = "batch"] /\ todo' = [todo EXCEPT ![s] = items]
    /\ UNCHANGED <<calls, writer, ids, fresh, status, wrote, found>>

(* Deviation used to test the properties: an update on its own.            *)
MutUpdateItem(s) ==
    LET i == Head(todo[s]) IN
    /\ op[s] = "batch" /\ todo[s] # << >>
    /\ calls' = [calls EXCEPT !["contract_calls"] =
                    Put(@, {i.event} \cap Present(@), i.status)]
    /\ writer' = [writer EXCEPT ![i.event] =
                     IF i.event \in Present(calls["contract_calls"]) THEN s ELSE @]
    /\ todo' = [todo EXCEPT ![s] = Tail(@)]
    /\ UNCHANGED <<op, ids, fresh, status, wrote, found>>

UpdateItem(s) ==
    LET i == Head(todo[s]) IN
    /\ op[s] = "batch" /\ todo[s] # << >> /\ i.event \notin Locked(s)
    /\ wrote' = IF i.event \in Present(calls["contract_calls"])
                THEN [wrote EXCEPT ![s][i.event] = i.status] ELSE wrote
    /\ todo' = [todo EXCEPT ![s] = Tail(@)]
    /\ UNCHANGED <<calls, writer, op, ids, fresh, status, found>>

CommitBatch(s) ==
    /\ op[s] = "batch" /\ todo[s] = << >>
    /\ calls' = [calls EXCEPT !["contract_calls"] =
                    [e \in Events |-> IF wrote[s][e] # None THEN wrote[s][e]
                                                            ELSE @[e]]]
    /\ writer' = [e \in Events |->
                    IF wrote[s][e] = None THEN writer[e]
                    ELSE IF Present(wrote[s]) = Events THEN s ELSE "single"]
    /\ Closed(s) /\ UNCHANGED found

(* FindContractCallByCommnadId, FindContractCallPayloadByHash,             *)
(* FindContractCallWithTokenPayloadByEventId, FindContractCallByParams:    *)
(* which rows qualify is up to the caller's arguments.                     *)
FindContractCalls(s) ==
    /\ op[s] = "idle"
    /\ \E t \in Tables, e \in Events :
        /\ calls[t][e] # None
        /\ found' = {<<t, e>>}
    /\ UNCHANGED <<calls, writer, txVars>>

CallStep(s, batches) ==
    /\ \/ \E t \in Tables, e \in Events, st \in Statuses :
            CreateContractCall(s, t, e, st)
       \/ \E e \in Events, st \in Statuses : UpdateCallContractWithToken(s, e, st)
       \/ \E t \in Tables, es \in SUBSET Events \ {{}} :
            BatchCreateContractCalls(s, t, es)
       \/ \E e \in Events : UpdateContractCallApproved(s, e)
       \/ \E es \in SUBSET Events \ {{}} :
            UpdateRedeemExecutedCommands(s, es)
       \/ \E items \in batches : BeginBatch(s, items)
       \/ UpdateItem(s) \/ CommitBatch(s)
       \/ Rollback(s) /\ UNCHANGED writer
       \/ FindContractCalls(s)
    /\ UNCHANGED <<eventIdIsKey, tokenSents, raced>>

CallNext(batches) == \E s \in Sessions : CallStep(s, batches)
CallSpec(batches) == StoreInit /\ [][CallNext(batches)]_storeVars

-----------------------------------------------------------------------------
(* Properties.                                                             *)

(* token.go: "only update the token sent that is not success": whatever    *)
(* other sessions do, UpdateTokenSentsStatus leaves a success as it is.    *)
OnlyUnfinishedUpdated ==
    [][\A s \in Sessions, e \in Events :
        UpdateTokenSentsStatus(s) /\ tokenSents[e] = "success" =>
            tokenSents'[e] = "success"]_storeVars

(* What the code guarantees of that comment: a success is taken back only  *)
(* if it was written between the read and the update of                    *)
(* UpdateTokenSentsStatus, or by Save onto the row of the same event.      *)
SuccessTakenBackOnlyByRace ==
    [][\A e \in Events :
        tokenSents[e] = "success" /\ tokenSents'[e] # "success" =>
            \E s \in Sessions :
                \/ op[s] = "picked" /\ e \in raced[s]
                \/ eventIdIsKey /\ op[s] = "deleted" /\ e \in fresh[s]]_storeVars

(* SaveTokenSentsAndRemoveDupplicates deletes rows that are still pending  *)
(* when the deletion takes effect, whatever other sessions do meanwhile.   *)
OnlyPendingRemoved ==
    [][\A e \in Events :
        tokenSents[e] # None /\ tokenSents'[e] = None =>
            tokenSents[e] = "pending"]_storeVars

(* A token sent that a relayer was given is in the table later on, or      *)
(* another event of its transaction is: the deletion and the save are one. *)
(* Contract calls stay.                                                    *)
FoundRowsStay ==
    /\ \A e \in found \cap Events :
        \E f \in Events : TxOf[f] = TxOf[e] /\ tokenSents[f] # None
    /\ \A t \in Tables, e \in Events : <<t, e>> \in found => calls[t][e] # None

(* Two batches of UpdateBatchContractCallStatus that both find all their   *)
(* calls leave the statuses of one of them, not a mixture, whatever the    *)
(* order of their items: the row locks last until the commit.  (A batch    *)
(* that runs before a call is created does not find it, and skips it.)     *)
BatchesNotMixed ==
    \A e, f \in Events :
        writer[e] \in Sessions /\ writer[f] \in Sessions => writer[e] = writer[f]
=============================================================================
