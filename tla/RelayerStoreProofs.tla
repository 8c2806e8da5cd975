------------------------- MODULE RelayerStoreProofs -------------------------
(***************************************************************************)
(* Proofs about the tables shared with the relayer, for any events, any    *)
(* transactions they come from, any number of sessions and any batches.    *)
(***************************************************************************)
EXTENDS RelayerStore, SequenceTheorems, TLAPS

(* token_sents: the types; a session never leaves uncommitted batch rows.  *)
TokenType ==
    /\ tokenSents \in [Events -> Statuses \cup {None}]
    /\ op \in [Sessions -> {"idle", "deleted", "picked"}]
    /\ ids \in [Sessions -> SUBSET Events]
    /\ fresh \in [Sessions -> SUBSET Events]
    /\ status \in [Sessions -> Statuses]
    /\ raced \in [Sessions -> SUBSET Events]
    /\ found \subseteq Events

(* A row deleted but not committed is still pending, it is deleted by one  *)
(* session only, and that session is going to save an event of the same    *)
(* transaction: this is what the row locks are for.                        *)
DeletedPending ==
    \A s \in Sessions : op[s] = "deleted" =>
        \A e \in ids[s] : tokenSents[e] = "pending"
DeletedApart ==
    \A s, t \in Sessions :
        s # t /\ op[s] = "deleted" /\ op[t] = "deleted" => ids[s] \cap ids[t] = {}
DeletedReplaced ==
    \A s \in Sessions : op[s] = "deleted" =>
        \A e \in ids[s] : \E f \in fresh[s] : TxOf[f] = TxOf[e]

(* A picked row that has become success did so since it was read.          *)
PickedRaced ==
    \A s \in Sessions : op[s] = "picked" =>
        \A e \in ids[s] : tokenSents[e] = "success" => e \in raced[s]

TokenInv ==
    TokenType /\ DeletedPending /\ DeletedApart /\ DeletedReplaced /\ PickedRaced

(* The contract calls: types, and the row locks of open batches.           *)
Items == [event : Events, status : Statuses]
CallType ==
    /\ calls \in [Tables -> [Events -> Statuses \cup {None}]]
    /\ op \in [Sessions -> {"idle", "batch"}]
    /\ todo \in [Sessions -> Seq(Items)]
    /\ wrote \in [Sessions -> [Events -> Statuses \cup {None}]]
    /\ writer \in [Events -> Sessions \cup {None, "single"}]
    /\ found \subseteq Tables \X Events
RowLocksExclusive ==
    \A s, t \in Sessions : s # t => Present(wrote[s]) \cap Present(wrote[t]) = {}

-----------------------------------------------------------------------------
(* token_sents.                                                            *)

(* Both ways to insert rows leave the known ones alone.                    *)
Insert(s) ==
    /\ op[s] = "idle"
    /\ \E es \in SUBSET Events :
        /\ es \cap Present(tokenSents) = {}
        /\ tokenSents' = Put(tokenSents, es, "pending")
    /\ UNCHANGED <<txVars, found>>

LEMMA InsertsAreInserts ==
    ASSUME NEW s, NEW es \in SUBSET Events,
           SaveTokenSents(s, es) \/ BatchSaveTokenSents(s, es)
    PROVE  Insert(s)
<1>1. CASE SaveTokenSents(s, es)
  <2>1. es \ Present(tokenSents) \in SUBSET Events
    OBVIOUS
  <2>2. (es \ Present(tokenSents)) \cap Present(tokenSents) = {}
    OBVIOUS
  <2> QED
    BY <1>1, <2>1, <2>2 DEF SaveTokenSents, Insert
<1>2. CASE BatchSaveTokenSents(s, es)
    BY <1>2 DEF BatchSaveTokenSents, Insert
<1> QED
    BY <1>1, <1>2

(* The steps of a session, with the inserts as one.                        *)
LEMMA TokenCases ==
    ASSUME NEW s \in Sessions, TokenStep(s)
    PROVE  \/ Insert(s)
           \/ \E es \in SUBSET Events : RemoveDuplicates(s, es)
           \/ \E es \in SUBSET Events : \E st \in Statuses : ReadUnfinished(s, es, st)
           \/ SaveFresh(s) \/ UpdateTokenSentsStatus(s) \/ Rollback(s)
           \/ FindPendingBtcTokenSent(s)
<1>1. ASSUME NEW es \in SUBSET Events,
             SaveTokenSents(s, es) \/ BatchSaveTokenSents(s, es)
      PROVE  Insert(s)
    BY <1>1, InsertsAreInserts
<1> QED
    BY <1>1 DEF TokenStep

LEMMA PutType ==
    ASSUME NEW rows \in [Events -> Statuses \cup {None}], NEW es,
           NEW st \in Statuses \cup {None}
    PROVE  /\ Put(rows, es, st) \in [Events -> Statuses \cup {None}]
           /\ \A e \in Events : Put(rows, es, st)[e] = IF e \in es THEN st ELSE rows[e]
    BY DEF Put

LEMMA LockedRows ==
    ASSUME NEW s \in Sessions, NEW t \in Sessions, s # t, op[t] = "deleted"
    PROVE  ids[t] \subseteq Locked(s)
    BY DEF Locked

LEMMA NoneIsNoStatus == None \notin Statuses /\ "pending" \in Statuses
    BY DEF None, Statuses

(* What a step does to the table, row by row.                              *)
LEMMA SavedRows ==
    ASSUME TokenType, NEW s \in Sessions, SaveFresh(s)
    PROVE  /\ tokenSents' \in [Events -> Statuses \cup {None}]
           /\ \A e \in Events : tokenSents'[e] =
                IF e \in fresh[s] THEN "pending"
                ELSE IF e \in ids[s] THEN None ELSE tokenSents[e]
<1> DEFINE deleted == Put(tokenSents, ids[s], None)
<1>1. tokenSents' = Put(deleted, fresh[s], "pending")
    BY DEF SaveFresh
<1>2. /\ deleted \in [Events -> Statuses \cup {None}]
      /\ \A e \in Events : deleted[e] = IF e \in ids[s] THEN None ELSE tokenSents[e]
    BY PutType DEF TokenType
<1> HIDE DEF deleted
<1> QED
    BY <1>1, <1>2, PutType, NoneIsNoStatus

LEMMA UpdatedRows ==
    ASSUME TokenType, NEW s \in Sessions, UpdateTokenSentsStatus(s)
    PROVE  /\ tokenSents' \in [Events -> Statuses \cup {None}]
           /\ \A e \in Events : tokenSents'[e] =
                IF e \in ids[s] /\ tokenSents[e] # None THEN status[s] ELSE tokenSents[e]
<1>1. tokenSents' = Put(tokenSents, ids[s] \cap Present(tokenSents), status[s])
    BY DEF UpdateTokenSentsStatus
<1>2. status[s] \in Statuses
    BY DEF TokenType
<1>3. \A e \in Events : e \in ids[s] \cap Present(tokenSents) <=>
                        e \in ids[s] /\ tokenSents[e] # None
    BY DEF Present
<1> QED
    BY <1>1, <1>2, <1>3, PutType DEF TokenType

LEMMA InsertedRows ==
    ASSUME TokenType, NEW s \in Sessions, Insert(s)
    PROVE  /\ tokenSents' \in [Events -> Statuses \cup {None}]
           /\ \A e \in Events : tokenSents[e] # None => tokenSents'[e] = tokenSents[e]
           /\ \A e \in Events : tokenSents'[e] \in {tokenSents[e], "pending"}
           /\ UNCHANGED <<op, ids, fresh, status, found>>
<1>1. PICK es \in SUBSET Events :
        /\ es \cap Present(tokenSents) = {}
        /\ tokenSents' = Put(tokenSents, es, "pending")
    BY DEF Insert
<1>2. \A e \in Events : e \in es => tokenSents[e] = None
    BY <1>1 DEF Present
<1>3. /\ tokenSents' \in [Events -> Statuses \cup {None}]
      /\ \A e \in Events : tokenSents'[e] = IF e \in es THEN "pending" ELSE tokenSents[e]
    BY <1>1, PutType, NoneIsNoStatus DEF TokenType
<1> QED
    BY <1>2, <1>3 DEF Insert, txVars

LEMMA TokenTypeStep ==
    ASSUME TokenType, NEW s \in Sessions, TokenStep(s)
    PROVE  TokenType'
<1>1. raced' \in [Sessions -> SUBSET Events]
  <2>1. raced' = [t \in Sessions |->
                    IF t # s /\ op[t] = "picked" THEN raced[t] \cup Succeeded ELSE {}]
    BY DEF TokenStep
  <2>2. Succeeded \subseteq Events
    BY DEF Succeeded
  <2> QED
    BY <2>1, <2>2 DEF TokenType
<1>2. ASSUME Closed(s), found' = found, tokenSents' \in [Events -> Statuses \cup {None}]
      PROVE  TokenType'
  <2>1. /\ op' \in [Sessions -> {"idle", "deleted", "picked"}]
        /\ ids' \in [Sessions -> SUBSET Events] /\ fresh' \in [Sessions -> SUBSET Events]
        /\ status' \in [Sessions -> Statuses]
    BY <1>2, NoneIsNoStatus DEF Closed, TokenType
  <2> QED
    BY <1>1, <1>2, <2>1 DEF TokenType
<1>3. Insert(s) => TokenType'
    BY <1>1, InsertedRows DEF TokenType
<1>4. ASSUME NEW es \in SUBSET Events, RemoveDuplicates(s, es)
      PROVE  TokenType'
    BY <1>1, <1>4 DEF RemoveDuplicates, TokenType
<1>5. ASSUME NEW es \in SUBSET Events, NEW st \in Statuses, ReadUnfinished(s, es, st)
      PROVE  TokenType'
    BY <1>1, <1>5 DEF ReadUnfinished, TokenType
<1>6. SaveFresh(s) => TokenType'
    BY <1>2, SavedRows DEF SaveFresh
<1>7. UpdateTokenSentsStatus(s) => TokenType'
    BY <1>2, UpdatedRows DEF UpdateTokenSentsStatus
<1>8. Rollback(s) => TokenType'
  <2> HAVE Rollback(s)
  <2>1. Closed(s) /\ found' = found /\ tokenSents' = tokenSents
    BY DEF Rollback
  <2> QED
    BY <1>2, <2>1 DEF TokenType
<1>9. FindPendingBtcTokenSent(s) => TokenType'
    BY <1>1 DEF FindPendingBtcTokenSent, TokenType, txVars
<1> QED
    BY <1>3, <1>4, <1>5, <1>6, <1>7, <1>8, <1>9, TokenCases

(* The row locks keep what a session has deleted as it found it.           *)
LEMMA DeletedStep ==
    ASSUME TokenInv, NEW s \in Sessions, TokenStep(s)
    PROVE  DeletedPending' /\ DeletedApart' /\ DeletedReplaced'
<1> USE DEF TokenInv
<1>1. ASSUME UNCHANGED <<op, ids, fresh>>,
             \A e \in Events : tokenSents[e] = "pending" => tokenSents'[e] = "pending"
      PROVE  DeletedPending' /\ DeletedApart' /\ DeletedReplaced'
  <2>1. DeletedPending'
    BY <1>1 DEF DeletedPending, TokenType
  <2> QED
    BY <1>1, <2>1 DEF DeletedApart, DeletedReplaced
<1>2. ASSUME Closed(s),
             \A t \in Sessions : t # s /\ op[t] = "deleted" =>
                \A e \in ids[t] : tokenSents'[e] = "pending"
      PROVE  DeletedPending' /\ DeletedApart' /\ DeletedReplaced'
  <2>1. /\ op' = [op EXCEPT ![s] = "idle"] /\ ids' = [ids EXCEPT ![s] = {}]
        /\ fresh' = [fresh EXCEPT ![s] = {}]
    BY <1>2 DEF Closed
  <2>2. \A t \in Sessions : op'[t] = "deleted" =>
            t # s /\ op[t] = "deleted" /\ ids'[t] = ids[t] /\ fresh'[t] = fresh[t]
    BY <2>1 DEF TokenType
  <2>3. DeletedPending'
    BY <1>2, <2>2 DEF DeletedPending
  <2>4. DeletedApart'
    BY <2>2 DEF DeletedApart
  <2>5. DeletedReplaced'
    BY <2>2 DEF DeletedReplaced
  <2> QED
    BY <2>3, <2>4, <2>5
<1>3. CASE Insert(s)
  <2>1. "pending" # None
    BY DEF None
  <2> QED
    BY <1>1, <1>3, <2>1, InsertedRows
<1>4. ASSUME NEW es \in SUBSET Events, RemoveDuplicates(s, es)
      PROVE  DeletedPending' /\ DeletedApart' /\ DeletedReplaced'
  <2> DEFINE dup == {e \in Events : /\ tokenSents[e] = "pending"
                                    /\ \E f \in es : TxOf[f] = TxOf[e]}
  <2>1. /\ dup \cap Locked(s) = {} /\ tokenSents' = tokenSents
        /\ op' = [op EXCEPT ![s] = "deleted"] /\ ids' = [ids EXCEPT ![s] = dup]
        /\ fresh' = [fresh EXCEPT ![s] = es]
    BY <1>4 DEF RemoveDuplicates
  <2>2. \A e \in dup : tokenSents[e] = "pending" /\ \E f \in es : TxOf[f] = TxOf[e]
    OBVIOUS
  <2> HIDE DEF dup
  <2>3. op'[s] = "deleted" /\ ids'[s] = dup /\ fresh'[s] = es
    BY <2>1 DEF TokenType
  <2>4. \A t \in Sessions : t # s => op'[t] = op[t] /\ ids'[t] = ids[t] /\ fresh'[t] = fresh[t]
    BY <2>1 DEF TokenType
  <2>5. DeletedPending'
    BY <2>1, <2>2, <2>3, <2>4 DEF DeletedPending
  <2>6. \A t \in Sessions : t # s /\ op[t] = "deleted" => ids[t] \cap dup = {}
    BY <2>1, LockedRows
  <2>7. DeletedApart'
    BY <2>3, <2>4, <2>6 DEF DeletedApart
  <2>8. DeletedReplaced'
    BY <2>2, <2>3, <2>4 DEF DeletedReplaced
  <2> QED
    BY <2>5, <2>7, <2>8
<1>5. ASSUME NEW es \in SUBSET Events, NEW st \in Statuses, ReadUnfinished(s, es, st)
      PROVE  DeletedPending' /\ DeletedApart' /\ DeletedReplaced'
  <2>1. /\ op' = [op EXCEPT ![s] = "picked"] /\ tokenSents' = tokenSents
        /\ fresh' = fresh /\ \A t \in Sessions : t # s => ids'[t] = ids[t]
    BY <1>5 DEF ReadUnfinished, TokenType
  <2>2. \A t \in Sessions : op'[t] = "deleted" =>
            op[t] = "deleted" /\ ids'[t] = ids[t] /\ fresh'[t] = fresh[t]
    BY <2>1 DEF TokenType
  <2> QED
    BY <2>1, <2>2 DEF DeletedPending, DeletedApart, DeletedReplaced
<1>6. CASE SaveFresh(s)
  <2>1. ASSUME NEW t \in Sessions, t # s, op[t] = "deleted", NEW e \in ids[t]
        PROVE  tokenSents'[e] = "pending"
    <3>1. e \in Events /\ tokenSents[e] = "pending"
        BY <2>1 DEF TokenType, DeletedPending
    <3>2. e \notin ids[s]
        BY <1>6, <2>1 DEF SaveFresh, DeletedApart
    <3> QED
        BY <1>6, <3>1, <3>2, SavedRows
  <2> QED
    BY <1>2, <1>6, <2>1 DEF SaveFresh
<1>7. CASE UpdateTokenSentsStatus(s)
  <2>1. ASSUME NEW t \in Sessions, t # s, op[t] = "deleted", NEW e \in ids[t]
        PROVE  tokenSents'[e] = "pending"
    <3>1. e \in Events /\ tokenSents[e] = "pending"
        BY <2>1 DEF TokenType, DeletedPending
    <3>2. e \notin ids[s]
        BY <1>7, <2>1, LockedRows DEF UpdateTokenSentsStatus
    <3> QED
        BY <1>7, <3>1, <3>2, UpdatedRows
  <2> QED
    BY <1>2, <1>7, <2>1 DEF UpdateTokenSentsStatus
<1>8. CASE Rollback(s)
    BY <1>2, <1>8 DEF Rollback, DeletedPending
<1>9. CASE FindPendingBtcTokenSent(s)
    BY <1>1, <1>9 DEF FindPendingBtcTokenSent, txVars
<1> QED
    BY <1>3, <1>4, <1>5, <1>6, <1>7, <1>8, <1>9, TokenCases

LEMMA PickedStep ==
    ASSUME TokenInv, NEW s \in Sessions, TokenStep(s)
    PROVE  PickedRaced'
<1> USE DEF TokenInv
<1>1. TokenType'
    BY TokenTypeStep
<1>2. raced' = [t \in Sessions |->
                  IF t # s /\ op[t] = "picked" THEN raced[t] \cup Succeeded ELSE {}]
    BY DEF TokenStep
<1>3. \A t \in Sessions : t # s => op'[t] = op[t] /\ ids'[t] = ids[t]
  <2>1. Closed(s) => \A t \in Sessions : t # s => op'[t] = op[t] /\ ids'[t] = ids[t]
    BY DEF Closed, TokenType
  <2>2. ASSUME NEW es, NEW st, RemoveDuplicates(s, es) \/ ReadUnfinished(s, es, st)
        PROVE  \A t \in Sessions : t # s => op'[t] = op[t] /\ ids'[t] = ids[t]
    BY <2>2 DEF RemoveDuplicates, ReadUnfinished, TokenType
  <2>3. (SaveFresh(s) \/ UpdateTokenSentsStatus(s) \/ Rollback(s)) => Closed(s)
    BY DEF SaveFresh, UpdateTokenSentsStatus, Rollback
  <2>4. (Insert(s) \/ FindPendingBtcTokenSent(s)) => op' = op /\ ids' = ids
    BY DEF Insert, FindPendingBtcTokenSent, txVars
  <2> QED
    BY <2>1, <2>2, <2>3, <2>4, TokenCases
<1>4. ASSUME NEW t \in Sessions, t # s, op'[t] = "picked", NEW e \in ids'[t],
             tokenSents'[e] = "success"
      PROVE  e \in raced'[t]
  <2>1. op[t] = "picked" /\ e \in ids[t] /\ e \in Events
    BY <1>3, <1>4 DEF TokenType
  <2>2. raced'[t] = raced[t] \cup Succeeded
    BY <1>2, <1>4, <2>1
  <2>3. e \in Succeeded \/ tokenSents[e] = "success"
    BY <1>4, <2>1 DEF Succeeded
  <2> QED
    BY <2>1, <2>2, <2>3 DEF PickedRaced
<1>5. ASSUME op'[s] = "picked"
      PROVE  \A e \in ids'[s] : tokenSents'[e] = "success" => e \in raced'[s]
  <2>1. ASSUME NEW es \in SUBSET Events, NEW st \in Statuses, ReadUnfinished(s, es, st)
        PROVE  \A e \in ids'[s] : tokenSents'[e] # "success"
    BY <2>1 DEF ReadUnfinished, TokenType
  <2>2. ~Closed(s)
    BY <1>5 DEF Closed, TokenType
  <2>3. ~SaveFresh(s) /\ ~UpdateTokenSentsStatus(s) /\ ~Rollback(s)
    BY <2>2 DEF SaveFresh, UpdateTokenSentsStatus, Rollback
  <2>4. \A es : ~RemoveDuplicates(s, es)
    BY <1>5 DEF RemoveDuplicates, TokenType
  <2>5. ~FindPendingBtcTokenSent(s)
    BY <1>5 DEF FindPendingBtcTokenSent, txVars
  <2>6. ~Insert(s)
    BY <1>5 DEF Insert, txVars
  <2> QED
    BY <2>1, <2>3, <2>4, <2>5, <2>6, TokenCases
<1> QED
    BY <1>4, <1>5 DEF PickedRaced

LEMMA TokenInitially ==
    ASSUME StoreInit
    PROVE  TokenInv
<1>1. TokenType
    BY NoneIsNoStatus DEF StoreInit, TokenType, NoEvents
<1>2. \A s \in Sessions : op[s] = "idle"
    BY DEF StoreInit
<1> QED
    BY <1>1, <1>2 DEF TokenInv, DeletedPending, DeletedApart, DeletedReplaced, PickedRaced

LEMMA TokenInvStep ==
    ASSUME TokenInv, [TokenNext]_storeVars
    PROVE  TokenInv'
<1>1. ASSUME NEW s \in Sessions, TokenStep(s)
      PROVE  TokenInv'
    BY <1>1, TokenTypeStep, DeletedStep, PickedStep DEF TokenInv
<1>2. CASE UNCHANGED storeVars
    BY <1>2 DEF storeVars, txVars, TokenInv, TokenType, DeletedPending, DeletedApart,
                DeletedReplaced, PickedRaced
<1> QED
    BY <1>1, <1>2 DEF TokenNext

(* SaveTokenSentsAndRemoveDupplicates never deletes a row that has gone on *)
(* from pending while its transaction was open: the row lock it took with  *)
(* the Delete makes every other session wait.                              *)
THEOREM DeletesOnlyPending == TokenSpec => OnlyPendingRemoved
<1>1. ASSUME TokenInv, [TokenNext]_storeVars, NEW e \in Events,
             tokenSents[e] # None, tokenSents'[e] = None
      PROVE  tokenSents[e] = "pending"
  <2>1. PICK s \in Sessions : TokenStep(s)
    BY <1>1 DEF TokenNext, storeVars
  <2> USE DEF TokenInv
  <2>2. CASE Insert(s)
    BY <1>1, <2>2, InsertedRows
  <2>3. CASE SaveFresh(s)
    <3>1. e \in ids[s]
        BY <1>1, <2>3, SavedRows DEF None
    <3> QED
        BY <1>1, <2>3, <3>1 DEF SaveFresh, DeletedPending
  <2>4. CASE UpdateTokenSentsStatus(s)
    <3>1. status[s] # None
        BY <1>1, NoneIsNoStatus DEF TokenType
    <3> QED
        BY <1>1, <2>4, <3>1, UpdatedRows
  <2>5. CASE Rollback(s) \/ FindPendingBtcTokenSent(s)
    BY <1>1, <2>5 DEF Rollback, FindPendingBtcTokenSent
  <2>6. ASSUME NEW es, NEW st, RemoveDuplicates(s, es) \/ ReadUnfinished(s, es, st)
        PROVE  FALSE
    BY <1>1, <2>6 DEF RemoveDuplicates, ReadUnfinished
  <2> QED
    BY <2>1, <2>2, <2>3, <2>4, <2>5, <2>6, TokenCases
<1>2. TokenInv /\ [TokenNext]_storeVars =>
        [\A e \in Events : tokenSents[e] # None /\ tokenSents'[e] = None =>
            tokenSents[e] = "pending"]_storeVars
    BY <1>1
<1>3. StoreInit => TokenInv
    BY TokenInitially
<1>4. TokenInv /\ [TokenNext]_storeVars => TokenInv'
    BY TokenInvStep
<1> QED
    BY <1>2, <1>3, <1>4, PTL DEF TokenSpec, OnlyPendingRemoved

(* A success is lost in two ways only: the read of UpdateTokenSentsStatus  *)
(* took place before it and the update after it, or gorm's Save overwrote  *)
(* the row of the same event.  No third interleaving of any number of      *)
(* sessions takes one back.                                                *)
THEOREM SuccessLostOnlyByRace == TokenSpec => SuccessTakenBackOnlyByRace
<1>1. ASSUME TokenInv, [TokenNext]_storeVars, NEW e \in Events,
             tokenSents[e] = "success", tokenSents'[e] # "success"
      PROVE  \E s \in Sessions :
                \/ op[s] = "picked" /\ e \in raced[s]
                \/ eventIdIsKey /\ op[s] = "deleted" /\ e \in fresh[s]
  <2>1. PICK s \in Sessions : TokenStep(s)
    BY <1>1 DEF TokenNext, storeVars
  <2> USE DEF TokenInv
  <2>2. tokenSents[e] # None /\ tokenSents[e] # "pending"
    BY <1>1 DEF None
  <2>3. CASE Insert(s)
    BY <1>1, <2>2, <2>3, InsertedRows
  <2>4. CASE SaveFresh(s)
    <3>1. op[s] = "deleted" /\ e \notin ids[s]
        BY <1>1, <2>2, <2>4 DEF SaveFresh, DeletedPending
    <3>2. e \in fresh[s]
        BY <1>1, <2>4, <3>1, SavedRows
    <3>3. e \in Present(tokenSents) \ ids[s]
        BY <2>2, <3>1 DEF Present
    <3>4. eventIdIsKey
        BY <2>4, <3>2, <3>3 DEF SaveFresh
    <3> QED
        BY <3>1, <3>2, <3>4
  <2>5. CASE UpdateTokenSentsStatus(s)
    <3>1. e \in ids[s]
        BY <1>1, <2>5, UpdatedRows
    <3>2. op[s] = "picked"
        BY <2>5 DEF UpdateTokenSentsStatus
    <3> QED
        BY <1>1, <3>1, <3>2 DEF PickedRaced
  <2>6. CASE Rollback(s) \/ FindPendingBtcTokenSent(s)
    BY <1>1, <2>6 DEF Rollback, FindPendingBtcTokenSent
  <2>7. ASSUME NEW es, NEW st, RemoveDuplicates(s, es) \/ ReadUnfinished(s, es, st)
        PROVE  FALSE
    BY <1>1, <2>7 DEF RemoveDuplicates, ReadUnfinished
  <2> QED
    BY <2>1, <2>3, <2>4, <2>5, <2>6, <2>7, TokenCases
<1>2. TokenInv /\ [TokenNext]_storeVars =>
        [\A e \in Events :
            tokenSents[e] = "success" /\ tokenSents'[e] # "success" =>
                \E s \in Sessions :
                    \/ op[s] = "picked" /\ e \in raced[s]
                    \/ eventIdIsKey /\ op[s] = "deleted" /\ e \in fresh[s]]_storeVars
    BY <1>1
<1>3. StoreInit => TokenInv
    BY TokenInitially
<1>4. TokenInv /\ [TokenNext]_storeVars => TokenInv'
    BY TokenInvStep
<1> QED
    BY <1>2, <1>3, <1>4, PTL DEF TokenSpec, SuccessTakenBackOnlyByRace

(* A token sent handed to a relayer, or another event of its transaction,  *)
(* is in token_sents ever after: no interleaving of deletions and saves by *)
(* any number of sessions loses a transaction.                             *)
THEOREM FoundTokensStay == TokenSpec => []FoundRowsStay
<1>1. StoreInit => TokenInv /\ FoundRowsStay
    BY TokenInitially DEF StoreInit, FoundRowsStay
<1>2. ASSUME TokenInv, FoundRowsStay, [TokenNext]_storeVars
      PROVE  FoundRowsStay'
  <2> USE DEF TokenInv
  <2>1. \A t \in Tables, e \in Events : <<t, e>> \notin found'
    BY <1>2, TokenInvStep, StoreAssumption DEF TokenType, Tables
  <2>2. ASSUME UNCHANGED <<found, tokenSents>>
        PROVE  \A e \in found' \cap Events :
                  \E f \in Events : TxOf[f] = TxOf[e] /\ tokenSents'[f] # None
    BY <1>2, <2>2 DEF FoundRowsStay
  <2>3. ASSUME found' = found,
               \A f \in Events : tokenSents[f] # None =>
                  \E g \in Events : TxOf[g] = TxOf[f] /\ tokenSents'[g] # None
        PROVE  \A e \in found' \cap Events :
                  \E f \in Events : TxOf[f] = TxOf[e] /\ tokenSents'[f] # None
    BY <1>2, <2>3 DEF FoundRowsStay
  <2>4. ASSUME NEW s \in Sessions, TokenStep(s)
        PROVE  \A e \in found' \cap Events :
                  \E f \in Events : TxOf[f] = TxOf[e] /\ tokenSents'[f] # None
    <3>1. CASE Insert(s)
        BY <1>2, <2>3, <3>1, InsertedRows
    <3>2. CASE SaveFresh(s)
      <4>1. ASSUME NEW f \in Events, tokenSents[f] # None
            PROVE  \E g \in Events : TxOf[g] = TxOf[f] /\ tokenSents'[g] # None
        <5>1. \A g \in fresh[s] : g \in Events /\ tokenSents'[g] # None
            BY <1>2, <3>2, SavedRows DEF TokenType, None
        <5>2. CASE f \in ids[s]
          <6>1. PICK g \in fresh[s] : TxOf[g] = TxOf[f]
            BY <1>2, <3>2, <5>2 DEF SaveFresh, DeletedReplaced
          <6> QED
            BY <5>1, <6>1
        <5>3. CASE f \notin ids[s]
            BY <1>2, <3>2, <4>1, <5>1, <5>3, SavedRows
        <5> QED
            BY <5>2, <5>3
      <4>2. found' = found
        BY <3>2 DEF SaveFresh
      <4> QED
        BY <2>3, <4>1, <4>2
    <3>3. CASE UpdateTokenSentsStatus(s)
      <4>1. status[s] # None
        BY <1>2, NoneIsNoStatus DEF TokenType
      <4>2. \A f \in Events : tokenSents[f] # None => tokenSents'[f] # None
        BY <1>2, <3>3, <4>1, UpdatedRows
      <4>3. found' = found
        BY <3>3 DEF UpdateTokenSentsStatus
      <4> QED
        BY <2>3, <4>2, <4>3
    <3>4. CASE Rollback(s)
        BY <2>2, <3>4 DEF Rollback
    <3>5. CASE FindPendingBtcTokenSent(s)
      <4>1. /\ found' = found \cup {e \in Events : tokenSents[e] = "pending"}
            /\ tokenSents' = tokenSents
        BY <3>5 DEF FindPendingBtcTokenSent
      <4>2. "pending" # None
        BY DEF None
      <4> QED
        BY <1>2, <4>1, <4>2 DEF FoundRowsStay
    <3>6. ASSUME NEW es, NEW st, RemoveDuplicates(s, es) \/ ReadUnfinished(s, es, st)
          PROVE  UNCHANGED <<found, tokenSents>>
        BY <3>6 DEF RemoveDuplicates, ReadUnfinished
    <3> QED
        BY <2>2, <2>4, <3>1, <3>2, <3>3, <3>4, <3>5, <3>6, TokenCases
  <2>5. CASE UNCHANGED storeVars
    BY <2>1, <2>2, <2>5 DEF storeVars, FoundRowsStay
  <2> QED
    BY <1>2, <2>1, <2>4, <2>5 DEF TokenNext, FoundRowsStay
<1>3. TokenInv /\ [TokenNext]_storeVars => TokenInv'
    BY TokenInvStep
<1> QED
    BY <1>1, <1>2, <1>3, PTL DEF TokenSpec

-----------------------------------------------------------------------------
(* contract_calls and contract_call_with_tokens.                           *)

(* The calls of a table never vanish, and of the open batches only the     *)
(* session's own may change.                                               *)
CallsStay ==
    \A t \in Tables, e \in Events : calls[t][e] # None => calls'[t][e] # None
CallInv == CallType /\ RowLocksExclusive /\ BatchesNotMixed

(* A single update: statuses and writers stay typed, and no complete batch *)
(* is among the writers of its rows.                                       *)
LEMMA WriteStep ==
    ASSUME CallInv, NEW t \in Tables, NEW es \in SUBSET Events, NEW st \in Statuses,
           Write(t, es, st)
    PROVE  CallInv' /\ CallsStay /\ found' = found
<1> USE DEF CallInv
<1>1. /\ calls' = [calls EXCEPT ![t] = Put(@, es, st)]
      /\ UNCHANGED <<op, todo, wrote, found>>
    BY DEF Write, txVars
<1>2. /\ Put(calls[t], es, st) \in [Events -> Statuses \cup {None}]
      /\ \A e \in Events : Put(calls[t], es, st)[e] = IF e \in es THEN st ELSE calls[t][e]
    BY PutType DEF CallType
<1>3. calls' \in [Tables -> [Events -> Statuses \cup {None}]]
    BY <1>1, <1>2 DEF CallType
<1>4. CallsStay
  <2>1. calls'[t] = Put(calls[t], es, st)
    BY <1>1 DEF CallType
  <2>2. \A u \in Tables : u # t => calls'[u] = calls[u]
    BY <1>1 DEF CallType
  <2> QED
    BY <1>2, <2>1, <2>2, NoneIsNoStatus DEF CallsStay
<1>5. \/ writer' = writer
      \/ writer' = [e \in Events |-> IF e \in es THEN "single" ELSE writer[e]]
    BY DEF Write
<1>6. writer' \in [Events -> Sessions \cup {None, "single"}]
    BY <1>5 DEF CallType
<1>7. \A e \in Events : writer'[e] \in Sessions => writer'[e] = writer[e]
    BY <1>5, StoreAssumption
<1>8. BatchesNotMixed'
    BY <1>7 DEF BatchesNotMixed
<1>9. RowLocksExclusive'
    BY <1>1 DEF RowLocksExclusive, Present
<1>10. CallType'
    BY <1>1, <1>3, <1>6 DEF CallType
<1> QED
    BY <1>1, <1>4, <1>8, <1>9, <1>10

LEMMA ClosedStep ==
    ASSUME CallInv, NEW s \in Sessions, Closed(s)
    PROVE  /\ op' \in [Sessions -> {"idle", "batch"}]
           /\ todo' \in [Sessions -> Seq(Items)]
           /\ wrote' \in [Sessions -> [Events -> Statuses \cup {None}]]
           /\ RowLocksExclusive'
<1> USE DEF CallInv
<1>1. /\ op' = [op EXCEPT ![s] = "idle"] /\ todo' = [todo EXCEPT ![s] = << >>]
      /\ wrote' = [wrote EXCEPT ![s] = NoEvents]
    BY DEF Closed
<1>2. NoEvents \in [Events -> Statuses \cup {None}]
    BY DEF NoEvents
<1>3. << >> \in Seq(Items)
    OBVIOUS
<1>4. Present(NoEvents) = {}
    BY DEF Present, NoEvents
<1>5. wrote'[s] = NoEvents /\ \A t \in Sessions : t # s => wrote'[t] = wrote[t]
    BY <1>1 DEF CallType
<1>6. \A t \in Sessions : Present(wrote'[t]) \subseteq Present(wrote[t])
    BY <1>4, <1>5
<1>7. \A t \in Sessions : Present(wrote[t])' = Present(wrote'[t])
    BY DEF Present
<1>8. RowLocksExclusive'
  <2> SUFFICES ASSUME NEW a \in Sessions, NEW b \in Sessions, a # b
               PROVE  Present(wrote'[a]) \cap Present(wrote'[b]) = {}
    BY <1>7 DEF RowLocksExclusive
  <2>1. Present(wrote[a]) \cap Present(wrote[b]) = {}
    BY DEF RowLocksExclusive
  <2> QED
    BY <1>6, <2>1
<1> QED
    BY <1>1, <1>2, <1>3, <1>8 DEF CallType

(* UpdateItem waits for a row that another open batch has changed.         *)
LEMMA ItemStep ==
    ASSUME CallInv, NEW s \in Sessions, UpdateItem(s)
    PROVE  CallInv' /\ CallsStay /\ found' = found
<1> USE DEF CallInv
<1> DEFINE i == Head(todo[s])
<1>1. todo[s] \in Seq(Items) /\ todo[s] # << >>
    BY DEF UpdateItem, CallType
<1>2. i \in Items /\ Tail(todo[s]) \in Seq(Items)
    BY <1>1
<1>3. i.event \in Events /\ i.status \in Statuses
    BY <1>2 DEF Items
<1>4. /\ i.event \notin Locked(s)
      /\ wrote' = IF i.event \in Present(calls["contract_calls"])
                  THEN [wrote EXCEPT ![s][i.event] = i.status] ELSE wrote
      /\ todo' = [todo EXCEPT ![s] = Tail(@)]
      /\ UNCHANGED <<calls, writer, op, found>>
    BY DEF UpdateItem
<1> HIDE DEF i
<1>5. todo' \in [Sessions -> Seq(Items)]
    BY <1>2, <1>4 DEF CallType
<1>6. wrote' \in [Sessions -> [Events -> Statuses \cup {None}]]
    BY <1>3, <1>4 DEF CallType
<1>7. CallType'
    BY <1>4, <1>5, <1>6 DEF CallType
<1>8. \A t \in Sessions : t # s => wrote'[t] = wrote[t]
    BY <1>4 DEF CallType
<1>9. \A e \in Events : e # i.event => wrote'[s][e] = wrote[s][e]
    BY <1>3, <1>4 DEF CallType
<1>10. \A t \in Sessions : t # s => i.event \notin Present(wrote[t])
  <2>1. ASSUME NEW t \in Sessions, t # s
        PROVE  Present(wrote[t]) \subseteq Locked(s)
    <3>1. op[t] # "deleted"
        BY DEF CallType
    <3> QED
        BY <2>1, <3>1 DEF Locked
  <2> QED
    BY <1>4, <2>1
<1>11. ASSUME NEW a \in Sessions, NEW b \in Sessions, a # b, NEW e \in Events,
              wrote'[a][e] # None, wrote'[b][e] # None
       PROVE  FALSE
  <2>1. \A t \in Sessions, f \in Events :
            wrote'[t][f] # None => wrote[t][f] # None \/ (t = s /\ f = i.event)
    BY <1>8, <1>9
  <2>2. \A t \in Sessions : t # s => wrote[t][i.event] = None
    BY <1>3, <1>10 DEF Present
  <2>3. wrote[a][e] = None \/ wrote[b][e] = None
    BY <1>11 DEF RowLocksExclusive, Present
  <2>4. CASE wrote[a][e] = None
    <3>1. a = s /\ e = i.event
        BY <1>11, <2>1, <2>4
    <3>2. wrote[b][e] = None
        BY <1>11, <2>2, <3>1
    <3> QED
        BY <1>11, <2>1, <3>1, <3>2
  <2>5. CASE wrote[b][e] = None
    <3>1. b = s /\ e = i.event
        BY <1>11, <2>1, <2>5
    <3>2. wrote[a][e] = None
        BY <1>11, <2>2, <3>1
    <3> QED
        BY <1>11, <2>1, <3>1, <3>2
  <2> QED
    BY <2>3, <2>4, <2>5
<1>12. RowLocksExclusive'
    BY <1>11 DEF RowLocksExclusive, Present
<1>13. BatchesNotMixed' /\ CallsStay /\ found' = found
    BY <1>4 DEF BatchesNotMixed, CallsStay
<1> QED
    BY <1>7, <1>12, <1>13

LEMMA CommitStep ==
    ASSUME CallInv, NEW s \in Sessions, CommitBatch(s)
    PROVE  CallInv' /\ CallsStay /\ found' = found
<1> USE DEF CallInv
<1> DEFINE rows == [e \in Events |-> IF wrote[s][e] # None THEN wrote[s][e]
                                     ELSE calls["contract_calls"][e]]
<1>1. /\ calls' = [calls EXCEPT !["contract_calls"] = rows]
      /\ writer' = [e \in Events |->
                      IF wrote[s][e] = None THEN writer[e]
                      ELSE IF Present(wrote[s]) = Events THEN s ELSE "single"]
      /\ Closed(s) /\ found' = found
    BY DEF CommitBatch
<1>2. rows \in [Events -> Statuses \cup {None}]
    BY DEF CallType, Tables
<1>3. \A e \in Events : calls["contract_calls"][e] # None => rows[e] # None
    OBVIOUS
<1> HIDE DEF rows
<1>4. calls' \in [Tables -> [Events -> Statuses \cup {None}]]
    BY <1>1, <1>2 DEF CallType
<1>5. calls'["contract_calls"] = rows /\
      \A u \in Tables : u # "contract_calls" => calls'[u] = calls[u]
    BY <1>1 DEF CallType, Tables
<1>6. CallsStay
    BY <1>3, <1>5 DEF CallsStay
<1>7. writer' \in [Events -> Sessions \cup {None, "single"}]
    BY <1>1 DEF CallType
<1>8. CASE Present(wrote[s]) = Events
  <2>1. \A e \in Events : wrote[s][e] # None
    BY <1>8 DEF Present
  <2>2. \A e \in Events : writer'[e] = s
    BY <1>1, <1>8, <2>1
  <2> QED
    BY <1>1, <1>4, <1>6, <1>7, <2>2, ClosedStep DEF BatchesNotMixed, CallType
<1>9. CASE Present(wrote[s]) # Events
  <2>1. \A e \in Events : writer'[e] \in Sessions => writer'[e] = writer[e]
    BY <1>1, <1>9, StoreAssumption
  <2> QED
    BY <1>1, <1>4, <1>6, <1>7, <2>1, ClosedStep DEF BatchesNotMixed, CallType
<1> QED
    BY <1>8, <1>9

LEMMA BeginStep ==
    ASSUME CallInv, NEW s \in Sessions, NEW items \in Seq(Items), BeginBatch(s, items)
    PROVE  CallInv' /\ CallsStay /\ found' = found
<1> USE DEF CallInv
<1>1. /\ op' = [op EXCEPT ![s] = "batch"] /\ todo' = [todo EXCEPT ![s] = items]
      /\ UNCHANGED <<calls, writer, wrote, found>>
    BY DEF BeginBatch
<1>2. CallType'
    BY <1>1 DEF CallType
<1>3. RowLocksExclusive' /\ BatchesNotMixed'
    BY <1>1 DEF RowLocksExclusive, Present, BatchesNotMixed
<1> QED
    BY <1>1, <1>2, <1>3 DEF CallsStay

LEMMA RollbackStep ==
    ASSUME CallInv, NEW s \in Sessions, Rollback(s), UNCHANGED writer
    PROVE  CallInv' /\ CallsStay /\ found' = found
<1> USE DEF CallInv
<1>1. Closed(s) /\ UNCHANGED <<calls, writer, found>>
    BY DEF Rollback
<1>2. CallType' /\ RowLocksExclusive'
    BY <1>1, ClosedStep DEF CallType
<1> QED
    BY <1>1, <1>2 DEF BatchesNotMixed, CallsStay

(* A step changes what was found only by finding a row that is there.      *)
LEMMA FindStep ==
    ASSUME CallInv, NEW s \in Sessions, FindContractCalls(s)
    PROVE  /\ CallInv' /\ CallsStay
           /\ \A t \in Tables, e \in Events : <<t, e>> \in found' => calls'[t][e] # None
<1> USE DEF CallInv
<1>1. PICK t \in Tables, e \in Events : calls[t][e] # None /\ found' = {<<t, e>>}
    BY DEF FindContractCalls
<1>2. UNCHANGED <<calls, writer, op, todo, wrote>>
    BY DEF FindContractCalls, txVars
<1>3. CallType'
    BY <1>1, <1>2 DEF CallType
<1>4. RowLocksExclusive' /\ BatchesNotMixed' /\ CallsStay
    BY <1>2 DEF RowLocksExclusive, Present, BatchesNotMixed, CallsStay
<1>5. \A u \in Tables, f \in Events : <<u, f>> \in found' => u = t /\ f = e
    BY <1>1
<1> QED
    BY <1>1, <1>2, <1>3, <1>4, <1>5

LEMMA CallStepKeeps ==
    ASSUME CallInv, NEW batches \in SUBSET Seq(Items), NEW s \in Sessions,
           CallStep(s, batches)
    PROVE  /\ CallInv' /\ CallsStay
           /\ \/ found' = found
              \/ \A t \in Tables, e \in Events : <<t, e>> \in found' => calls'[t][e] # None
<1> DEFINE Kept == CallInv' /\ CallsStay /\ found' = found
<1>1. ASSUME NEW t \in Tables, NEW e \in Events, NEW st \in Statuses,
             CreateContractCall(s, t, e, st)
      PROVE  Kept
  <2>1. Write(t, {e}, st)
    BY <1>1 DEF CreateContractCall
  <2> QED
    BY <2>1, WriteStep
<1>2. ASSUME NEW e \in Events, NEW st \in Statuses, UpdateCallContractWithToken(s, e, st)
      PROVE  Kept
  <2>1. Write("contract_call_with_tokens",
              {e} \cap Present(calls["contract_call_with_tokens"]), st)
    BY <1>2 DEF UpdateCallContractWithToken
  <2>2. "contract_call_with_tokens" \in Tables
        /\ {e} \cap Present(calls["contract_call_with_tokens"]) \in SUBSET Events
    BY DEF Tables
  <2> QED
    BY <2>1, <2>2, WriteStep
<1>3. ASSUME NEW t \in Tables, NEW es \in SUBSET Events, BatchCreateContractCalls(s, t, es)
      PROVE  Kept
  <2>1. Write(t, es, "pending")
    BY <1>3 DEF BatchCreateContractCalls
  <2> QED
    BY <2>1, NoneIsNoStatus, WriteStep
<1>4. ASSUME NEW e \in Events, UpdateContractCallApproved(s, e)
      PROVE  Kept
  <2>1. Write("contract_calls", {e}, "approved")
    BY <1>4 DEF UpdateContractCallApproved
  <2>2. "contract_calls" \in Tables /\ "approved" \in Statuses
    BY DEF Tables, Statuses
  <2> QED
    BY <2>1, <2>2, WriteStep
<1>5. ASSUME NEW es \in SUBSET Events, UpdateRedeemExecutedCommands(s, es)
      PROVE  Kept
  <2>1. Write("contract_call_with_tokens",
              es \cap Present(calls["contract_call_with_tokens"]), "success")
    BY <1>5 DEF UpdateRedeemExecutedCommands
  <2>2. /\ "contract_call_with_tokens" \in Tables /\ "success" \in Statuses
        /\ es \cap Present(calls["contract_call_with_tokens"]) \in SUBSET Events
    BY DEF Tables, Statuses
  <2> QED
    BY <2>1, <2>2, WriteStep
<1>6. ASSUME NEW items \in batches, BeginBatch(s, items)
      PROVE  Kept
    BY <1>6, BeginStep
<1>7. CASE UpdateItem(s)
    BY <1>7, ItemStep
<1>8. CASE CommitBatch(s)
    BY <1>8, CommitStep
<1>9. CASE Rollback(s) /\ UNCHANGED writer
    BY <1>9, RollbackStep
<1>10. CASE FindContractCalls(s)
    BY <1>10, FindStep
<1> HIDE DEF Kept
<1>11. Kept => CallInv' /\ CallsStay /\ found' = found
    BY DEF Kept
<1> QED
    BY <1>1, <1>2, <1>3, <1>4, <1>5, <1>6, <1>7, <1>8, <1>9, <1>10, <1>11 DEF CallStep

LEMMA CallInitially ==
    ASSUME StoreInit
    PROVE  CallInv
<1>1. NoEvents \in [Events -> Statuses \cup {None}] /\ \A e \in Events : NoEvents[e] = None
    BY DEF NoEvents
<1>2. << >> \in Seq(Items)
    OBVIOUS
<1>3. CallType
    BY <1>1, <1>2 DEF StoreInit, CallType, NoEvents
<1>4. RowLocksExclusive
  <2>1. Present(NoEvents) = {}
    BY <1>1 DEF Present
  <2>2. \A s \in Sessions : Present(wrote[s]) = {}
    BY <2>1 DEF StoreInit
  <2> QED
    BY <2>2 DEF RowLocksExclusive
<1>5. \A e \in Events : writer[e] = None
    BY <1>1 DEF StoreInit
<1>6. BatchesNotMixed
    BY <1>5, StoreAssumption DEF BatchesNotMixed, None
<1> QED
    BY <1>3, <1>4, <1>6 DEF CallInv

LEMMA CallInvStep ==
    ASSUME CallInv, NEW batches \in SUBSET Seq(Items), [CallNext(batches)]_storeVars
    PROVE  CallInv'
<1>1. ASSUME NEW s \in Sessions, CallStep(s, batches)
      PROVE  CallInv'
    BY <1>1, CallStepKeeps
<1>2. CASE UNCHANGED storeVars
    BY <1>2 DEF storeVars, txVars, CallInv, CallType, RowLocksExclusive, Present,
                BatchesNotMixed
<1> QED
    BY <1>1, <1>2 DEF CallNext

(* Batches of UpdateBatchContractCallStatus that find all their calls do   *)
(* not mix, because no row is ever changed by two open batches: for any    *)
(* set of batches, with repeated items and in any order, and any number of *)
(* sessions.                                                               *)
THEOREM BatchesStayWhole ==
    ASSUME NEW batches \in SUBSET Seq(Items)
    PROVE  CallSpec(batches) => [](BatchesNotMixed /\ RowLocksExclusive)
<1>1. StoreInit => CallInv
    BY CallInitially
<1>2. CallInv /\ [CallNext(batches)]_storeVars => CallInv'
    BY CallInvStep
<1>3. CallInv => BatchesNotMixed /\ RowLocksExclusive
    BY DEF CallInv
<1> QED
    BY <1>1, <1>2, <1>3, PTL DEF CallSpec

(* A contract call a finder has returned is there ever after.              *)
THEOREM FoundCallsStay ==
    ASSUME NEW batches \in SUBSET Seq(Items)
    PROVE  CallSpec(batches) => []FoundRowsStay
<1>1. StoreInit => CallInv /\ FoundRowsStay
    BY CallInitially DEF StoreInit, FoundRowsStay
<1>2. ASSUME CallInv, FoundRowsStay, [CallNext(batches)]_storeVars
      PROVE  FoundRowsStay'
  <2>1. CallInv'
    BY <1>2, CallInvStep
  <2>2. found' \cap Events = {}
    <3>1. found' \subseteq Tables \X Events
        BY <2>1 DEF CallInv, CallType
    <3>2. \A t \in Tables, e \in Events : <<t, e>> \notin Events
        BY StoreAssumption DEF Tables
    <3>3. \A x \in Tables \X Events : x \notin Events
        BY <3>2
    <3> QED
        BY <3>1, <3>3
  <2>3. \A t \in Tables, e \in Events : <<t, e>> \in found => calls[t][e] # None
    BY <1>2 DEF FoundRowsStay
  <2>4. \A t \in Tables, e \in Events : <<t, e>> \in found' => calls'[t][e] # None
    <3>1. ASSUME NEW s \in Sessions, CallStep(s, batches)
          PROVE  \A t \in Tables, e \in Events : <<t, e>> \in found' => calls'[t][e] # None
        BY <1>2, <2>3, <3>1, CallStepKeeps DEF CallsStay
    <3>2. CASE UNCHANGED storeVars
        BY <2>3, <3>2 DEF storeVars
    <3> QED
        BY <1>2, <3>1, <3>2 DEF CallNext
  <2> QED
    BY <2>2, <2>4 DEF FoundRowsStay
<1>3. CallInv /\ [CallNext(batches)]_storeVars => CallInv'
    BY CallInvStep
<1> QED
    BY <1>1, <1>2, <1>3, PTL DEF CallSpec

=============================================================================
