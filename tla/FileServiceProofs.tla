------------------------- MODULE FileServiceProofs --------------------------
(***************************************************************************)
(* Theorems about the file component, for any set of requests, any number  *)
(* of cancellations and either dialect: first types, the row of a DELETE   *)
(* and the acknowledged upload, then what rests on their invariants (what  *)
(* is removed or left behind, who may see what), and that FileService      *)
(* implements FileLifecycle.                                               *)
(***************************************************************************)
EXTENDS FileGuarantees, TLAPS

-----------------------------------------------------------------------------
(* What each helper keeps the type of. *)

(* Submitting a call keeps io a table of call states.                      *)
LEMMA SubmitTyped ==
  ASSUME NEW r \in Request, NEW c \in Call, StorageTypeOK, Submit(r, c)
  PROVE  io' \in [Request -> [Call -> IoState]]
<1>1. [io[r] EXCEPT ![c] = "called"] \in [Call -> IoState]
  BY DEF StorageTypeOK, IoState
<1> QED  BY <1>1 DEF Submit, StorageTypeOK

(* So does the death of a request's process.                               *)
LEMMA KillTyped ==
  ASSUME NEW r \in Request, StorageTypeOK, Kill(r)
  PROVE  io' \in [Request -> [Call -> IoState]]
<1>1. [c \in Call |-> IF Unfinished(r, c) THEN "dead" ELSE io[r][c]] \in [Call -> IoState]
  BY DEF StorageTypeOK, IoState
<1> QED  BY <1>1 DEF Kill, StorageTypeOK

(* So does giving up a call the executor has not started.                  *)
LEMMA DetachTyped ==
  ASSUME NEW r \in Request, NEW c \in Call, StorageTypeOK, Detach(r, c)
  PROVE  io' \in [Request -> [Call -> IoState]]
<1>1. [io[r] EXCEPT ![c] = "dead"] \in [Call -> IoState]
  BY DEF StorageTypeOK, IoState
<1> QED  BY <1>1 DEF Detach, StorageTypeOK

(* A worker thread's step: one call gets a new state. *)
LEMMA ThreadTyped ==
  ASSUME NEW r \in Request, StorageTypeOK, Thread(r)
  PROVE  StorageTypeOK'
<1>1. ASSUME NEW c \in Call, NEW s \in IoState
      PROVE  [io EXCEPT ![r][c] = s] \in [Request -> [Call -> IoState]]
  <2>1. [io[r] EXCEPT ![c] = s] \in [Call -> IoState]
    BY DEF StorageTypeOK
  <2> QED  BY <2>1 DEF StorageTypeOK
<1>2. /\ "validate" \in Call /\ "put" \in Call /\ "remove" \in Call
      /\ "ok" \in IoState /\ "error" \in IoState /\ "writing" \in IoState
  BY DEF Call, IoState
<1>3. CASE r \in Uploads /\ ValidateEnd(r)
  BY <1>1, <1>2, <1>3 DEF ValidateEnd, StorageTypeOK
<1>4. CASE r \in Uploads /\ PutOpen(r)
  BY <1>1, <1>2, <1>4 DEF PutOpen, StorageTypeOK, ObjectState
<1>5. CASE r \in Uploads /\ PutEnd(r)
  BY <1>1, <1>2, <1>5 DEF PutEnd, StorageTypeOK, ObjectState
<1>6. CASE r \in Uploads /\ PutError(r, pc[r] = "done")
  BY <1>1, <1>2, <1>6 DEF PutError, StorageTypeOK, ObjectState
<1>7. CASE RemoveEnd(r, Key(r))
  BY <1>1, <1>2, <1>7 DEF RemoveEnd, StorageTypeOK, ObjectState
<1>8. CASE RemoveError(r, Key(r))
  BY <1>1, <1>2, <1>8 DEF RemoveError, StorageTypeOK, ObjectState
<1> QED  BY <1>3, <1>4, <1>5, <1>6, <1>7, <1>8 DEF Thread, UploadThread, RemoveThread


(* Moving to another await keeps the control state typed.                  *)
LEMMA GotoTyped ==
  ASSUME NEW r \in Request, NEW p \in PC, ControlTypeOK, Goto(r, p)
  PROVE  ControlTypeOK'
  BY DEF ControlTypeOK, Goto

(* So does ending the request.                                             *)
LEMMA EndTyped ==
  ASSUME NEW r \in Request, NEW o \in Outcome, ControlTypeOK, End(r, o)
  PROVE  ControlTypeOK'
  BY DEF ControlTypeOK, End, PC, Ended

(* So does entering the except clause.                                     *)
LEMMA HandleTyped ==
  ASSUME NEW r \in Request, NEW e \in Exception, ControlTypeOK, Handle(r, e)
  PROVE  ControlTypeOK'
  BY DEF ControlTypeOK, Handle, PC, DatabaseAwaits

(* Closing a transaction keeps tx typed.                                   *)
LEMMA EndTxTyped ==
  ASSUME NEW r \in Request, tx \in [Request -> TxState], EndTx(r)
  PROVE  tx' \in [Request -> TxState]
  BY DEF EndTx, TxState

(* What Log adds names an event and a key.                                 *)
LEMMA LogTyped ==
  ASSUME NEW r \in Request, NEW e \in Event, ContextTypeOK, Log(r, e)
  PROVE  logged' \subseteq Event \X (Uploads \cup {NoKey})
  BY DEF ContextTypeOK, Log, Key, Row

(* And so does what delete_file logs.                                      *)
LEMMA LogDanglingTyped ==
  ASSUME NEW r \in Request, ContextTypeOK, LogDangling(r)
  PROVE  logged' \subseteq Event \X (Uploads \cup {NoKey})
  BY LogTyped DEF ContextTypeOK, LogDangling, Event

(* A commit leaves a table of rows.                                        *)
LEMMA CommittedTyped ==
  ASSUME NEW r \in Request, DatabaseTypeOK, ContextTypeOK
  PROVE  Committed(r) \in [FileId -> Row]
<1> DEFINE row == IF r \in Uploads THEN [key |-> r, owner |-> actor[r].id] ELSE NoRow
<1>1. row \in Row
  BY BoundsAreNat DEF ContextTypeOK, Row, NoRow
<1>2. Committed(r) = [files EXCEPT ![file[r]] = row]
  BY DEF Committed
<1> HIDE DEF row
<1> QED  BY <1>1, <1>2 DEF DatabaseTypeOK

(* So does a commit whose answer is lost.                                  *)
LEMMA CommitUnknownTyped ==
  ASSUME NEW r \in Request, DatabaseTypeOK, ContextTypeOK, CommitUnknown(r)
  PROVE  files' \in [FileId -> Row] /\ tx' \in [Request -> TxState]
  BY CommittedTyped, EndTxTyped DEF DatabaseTypeOK, CommitUnknown

(* So does a write statement whose answer is lost. *)
LEMMA StatementUnknownTyped ==
  ASSUME NEW r \in Request, DatabaseTypeOK, StatementUnknown(r)
  PROVE  tx' \in [Request -> TxState]
  BY DEF DatabaseTypeOK, StatementUnknown, TxState

-----------------------------------------------------------------------------
(* Type correctness: one lemma per action. *)

(* The initial state is typed.                                             *)
LEMMA InitTypeOK == Init => TypeOK
<1> SUFFICES ASSUME Init PROVE TypeOK
  OBVIOUS
<1>1. StorageTypeOK
  BY DEF Init, StorageInit, StorageTypeOK, ObjectState, IoState
<1>2. DatabaseTypeOK
  BY BoundsAreNat DEF Init, DatabaseInit, DatabaseTypeOK, UserId, Row, NoRow, TxState
<1>3. ControlTypeOK
  BY DEF Init, ControlTypeOK, PC, Exception, Outcome
<1>4. ContextTypeOK
  BY BoundsAreNat, MaxCancelsIsNat DEF Init, ContextTypeOK, Anonymous, Row, NoRow
<1>5. Addressed
  BY DEF Init, Addressed
<1> QED  BY <1>1, <1>2, <1>3, <1>4, <1>5 DEF TypeOK

(* A request that arrives keeps the types.                                 *)
LEMMA ArriveTyped ==
  ASSUME TypeOK, NEW r \in Request, Arrive(r)
  PROVE  TypeOK'
<1> USE DEF TypeOK
<1>1. CASE r \in Uploads
  <2>1. StartUpload(r)
    BY <1>1 DEF Arrive
  <2>2. StorageTypeOK'
    BY <2>1, SubmitTyped DEF StartUpload, StorageTypeOK, Call
  <2>3. DatabaseTypeOK'
    BY <2>1 DEF StartUpload, databaseVars, DatabaseTypeOK
  <2>4. ControlTypeOK'
    BY <2>1, GotoTyped DEF StartUpload, PC, Waits
  <2>5. ContextTypeOK'
    BY <2>1, BoundsAreNat
    DEF StartUpload, ContextTypeOK, DatabaseTypeOK, LiveUsers, Snapshot, UserId
  <2>6. Addressed'
    BY <1>1, <2>1 DEF StartUpload, Goto, ControlTypeOK, Addressed
  <2> QED  BY <2>2, <2>3, <2>4, <2>5, <2>6
<1>2. CASE r \notin Uploads
  <2>1. StartRead(r)
    BY <1>2 DEF Arrive
  <2>2. StorageTypeOK' /\ DatabaseTypeOK'
    BY <2>1 DEF StartRead, storageVars, databaseVars, DatabaseTypeOK, StorageTypeOK
  <2>3. ControlTypeOK'
    BY <2>1, GotoTyped DEF StartRead, PC, DatabaseAwaits
  <2>4. ContextTypeOK'
    BY <2>1, BoundsAreNat
    DEF StartRead, ContextTypeOK, DatabaseTypeOK, LiveUsers, Snapshot, UserId, FileId, Anonymous
  <2>5. Addressed'
    BY <2>1 DEF StartRead, Goto, ControlTypeOK, ContextTypeOK, Addressed
  <2> QED  BY <2>2, <2>3, <2>4, <2>5
<1> QED  BY <1>1, <1>2

(* So does each step of an upload,                                         *)
LEMMA UploadTyped ==
  ASSUME TypeOK, NEW r \in Request, r \in Uploads, UploadStep(r)
  PROVE  TypeOK'
<1> USE DEF TypeOK
<1>1. CASE ValidateReturns(r)
  <2>1. StorageTypeOK'
    BY <1>1, SubmitTyped DEF ValidateReturns, StorageTypeOK, Call
  <2>2. DatabaseTypeOK'
    BY <1>1, EndTxTyped DEF ValidateReturns, End, databaseKept, DatabaseTypeOK
  <2>3. ControlTypeOK'
    BY <1>1, GotoTyped, EndTyped DEF ValidateReturns, PC, Waits, Outcome
  <2>4. ContextTypeOK'
    BY <1>1 DEF ValidateReturns, contextVars, ContextTypeOK
  <2>5. Addressed'
    BY <1>1 DEF ValidateReturns, Goto, End, contextVars, ControlTypeOK, Addressed
  <2> QED  BY <2>1, <2>2, <2>3, <2>4, <2>5
<1>2. CASE PutReturns(r)
  <2>1. ControlTypeOK'
    BY <1>2, GotoTyped, HandleTyped DEF PutReturns, PC, DatabaseAwaits, Exception
  <2>2. Addressed'
    BY <1>2 DEF PutReturns, Goto, Handle, contextVars, ControlTypeOK, Addressed
  <2> QED
    BY <1>2, <2>1, <2>2 DEF PutReturns, storageVars, databaseVars, contextVars,
                            StorageTypeOK, DatabaseTypeOK, ContextTypeOK
<1>3. CASE Insert(r)
  <2>1. StorageTypeOK'
    BY <1>3 DEF Insert, storageVars, StorageTypeOK
  <2>2. DatabaseTypeOK'
    BY <1>3, BoundsAreNat DEF Insert, DatabaseTypeOK, TxState, FileId
  <2>3. ControlTypeOK'
    BY <1>3, GotoTyped DEF Insert, PC, DatabaseAwaits
  <2>4. ContextTypeOK'
    BY <1>3, BoundsAreNat DEF Insert, ContextTypeOK, FileId
  <2>5. Addressed'
    BY <1>3 DEF Insert, Goto, ControlTypeOK, ContextTypeOK, Addressed
  <2> QED  BY <2>1, <2>2, <2>3, <2>4, <2>5
<1>4. CASE CompensateReturns(r)
  <2>1. StorageTypeOK'
    BY <1>4 DEF CompensateReturns, storageVars, StorageTypeOK
  <2>2. DatabaseTypeOK'
    BY <1>4, EndTxTyped DEF CompensateReturns, End, databaseKept, DatabaseTypeOK
  <2>3. ControlTypeOK'
    BY <1>4, EndTyped DEF CompensateReturns, ControlTypeOK, Outcome
  <2>4. ContextTypeOK'
    BY <1>4, LogTyped DEF CompensateReturns, contextVars, ContextTypeOK, Event
  <2>5. Addressed'
    BY <1>4 DEF CompensateReturns, End, contextVars, ControlTypeOK, Addressed
  <2> QED  BY <2>1, <2>2, <2>3, <2>4, <2>5
<1> QED  BY <1>1, <1>2, <1>3, <1>4 DEF UploadStep

(* the load and authorization of a row,                                    *)
LEMMA ReadRowTyped ==
  ASSUME TypeOK, NEW r \in Request, r \notin Uploads, ReadRow(r)
  PROVE  TypeOK'
<1> USE DEF TypeOK
<1> DEFINE row == files[file[r]]
<1>1. row \in Row
  BY DEF ReadRow, Addressed, DatabaseTypeOK
<1>2. CASE row.key # NoKey /\ Authorized(r, row)
  <2>1. /\ read' = [read EXCEPT ![r] = row]
        /\ BeginRead(r)
        /\ \/ Submit(r, "remove") /\ Goto(r, "removing")
           \/ UNCHANGED io /\ Goto(r, "checking")
        /\ pc[r] = "reading"
        /\ UNCHANGED <<objects, databaseKept, actor, file, cancels, logged>>
    BY <1>2 DEF ReadRow
  <2>2. StorageTypeOK'
    BY <2>1, SubmitTyped DEF StorageTypeOK, Call
  <2>3. DatabaseTypeOK'
    BY <2>1 DEF BeginRead, databaseKept, DatabaseTypeOK, TxState
  <2>4. ControlTypeOK'
    BY <2>1, GotoTyped DEF PC, Waits, Serving
  <2>5. ContextTypeOK'
    BY <1>1, <2>1 DEF ContextTypeOK
  <2>6. Addressed'
    BY <2>1 DEF Goto, ControlTypeOK, Addressed
  <2> QED  BY <2>2, <2>3, <2>4, <2>5, <2>6
<1>3. CASE ~(row.key # NoKey /\ Authorized(r, row))
  <2>1. /\ End(r, "rejected")
        /\ pc[r] = "reading"
        /\ UNCHANGED <<read, io, objects, databaseKept, actor, file, cancels, logged>>
    BY <1>3 DEF ReadRow
  <2>2. ControlTypeOK'
    BY <2>1, EndTyped DEF Outcome
  <2>3. DatabaseTypeOK'
    BY <2>1, EndTxTyped DEF End, databaseKept, DatabaseTypeOK
  <2>4. Addressed'
    BY <2>1 DEF End, ControlTypeOK, Addressed
  <2> QED  BY <2>1, <2>2, <2>3, <2>4 DEF StorageTypeOK, ContextTypeOK
<1> QED  BY <1>2, <1>3

(* each step of a DELETE,                                                  *)
LEMMA DeleteTyped ==
  ASSUME TypeOK, NEW r \in Request, DeleteStep(r)
  PROVE  TypeOK'
<1> USE DEF TypeOK
<1>1. CASE RemoveReturns(r)
  <2>1. ControlTypeOK'
    BY <1>1, GotoTyped, HandleTyped DEF RemoveReturns, PC, DatabaseAwaits, Exception
  <2>2. Addressed'
    BY <1>1 DEF RemoveReturns, Goto, Handle, contextVars, ControlTypeOK, Addressed
  <2> QED
    BY <1>1, <2>1, <2>2 DEF RemoveReturns, storageVars, databaseVars, contextVars,
                            StorageTypeOK, DatabaseTypeOK, ContextTypeOK
<1>2. CASE DeleteRow(r)
  <2>1. ControlTypeOK'
    BY <1>2, GotoTyped DEF DeleteRow, PC, DatabaseAwaits
  <2>2. DatabaseTypeOK'
    BY <1>2 DEF DeleteRow, databaseKept, DatabaseTypeOK, TxState
  <2>3. Addressed'
    BY <1>2 DEF DeleteRow, Goto, contextVars, ControlTypeOK, Addressed
  <2> QED
    BY <1>2, <2>1, <2>2, <2>3 DEF DeleteRow, storageVars, contextVars,
                                  StorageTypeOK, ContextTypeOK
<1> QED  BY <1>1, <1>2 DEF DeleteStep

(* each step of a download,                                                *)
LEMMA DownloadTyped ==
  ASSUME TypeOK, NEW r \in Request, DownloadStep(r)
  PROVE  TypeOK'
<1> USE DEF TypeOK
<1>1. CASE Check(r)
  <2>1. ControlTypeOK'
    BY <1>1, GotoTyped, EndTyped DEF Check, PC, Serving, Outcome
  <2>2. DatabaseTypeOK'
    BY <1>1, EndTxTyped DEF Check, End, databaseKept, DatabaseTypeOK
  <2>3. Addressed'
    BY <1>1 DEF Check, Goto, End, contextVars, ControlTypeOK, Addressed
  <2> QED
    BY <1>1, <2>1, <2>2, <2>3 DEF Check, storageVars, contextVars, StorageTypeOK, ContextTypeOK
<1>2. CASE Serve(r)
  <2>1. ControlTypeOK'
    BY <1>2, EndTyped DEF Serve, Outcome, Exception
  <2>2. DatabaseTypeOK'
    BY <1>2, EndTxTyped DEF Serve, End, databaseKept, DatabaseTypeOK
  <2>3. Addressed'
    BY <1>2 DEF Serve, End, contextVars, ControlTypeOK, Addressed
  <2> QED
    BY <1>2, <2>1, <2>2, <2>3 DEF Serve, storageVars, contextVars, StorageTypeOK, ContextTypeOK
<1> QED  BY <1>1, <1>2 DEF DownloadStep

(* commits, failures, rollbacks and drained calls,                         *)
LEMMA CommonTyped ==
  ASSUME TypeOK, NEW r \in Request, CommonStep(r)
  PROVE  TypeOK'
<1> USE DEF TypeOK
<1>1. CASE Commit(r)
  <2>1. ControlTypeOK'
    BY <1>1, EndTyped DEF Commit, Outcome
  <2>2. DatabaseTypeOK'
    BY <1>1, EndTxTyped, CommittedTyped DEF Commit, End, DatabaseTypeOK
  <2>3. Addressed'
    BY <1>1 DEF Commit, End, contextVars, ControlTypeOK, Addressed
  <2> QED
    BY <1>1, <2>1, <2>2, <2>3 DEF Commit, storageVars, contextVars, StorageTypeOK, ContextTypeOK
<1>2. CASE StatementFails(r)
  <2>1. ControlTypeOK'
    BY <1>2, HandleTyped DEF StatementFails, Exception
  <2>2. DatabaseTypeOK'
    BY <1>2, CommitUnknownTyped, StatementUnknownTyped DEF StatementFails, DatabaseTypeOK
  <2>3. ContextTypeOK'
    BY <1>2, LogDanglingTyped DEF StatementFails, contextVars, ContextTypeOK
  <2>4. Addressed'
    BY <1>2 DEF StatementFails, Handle, contextVars, ControlTypeOK, Addressed
  <2> QED
    BY <1>2, <2>1, <2>2, <2>3, <2>4 DEF StatementFails, storageVars, StorageTypeOK
<1>3. CASE ReadFails(r)
  <2>1. ControlTypeOK'
    BY <1>3, EndTyped DEF ReadFails, Outcome, Exception
  <2>2. DatabaseTypeOK'
    BY <1>3, EndTxTyped DEF ReadFails, End, databaseKept, DatabaseTypeOK
  <2>3. Addressed'
    BY <1>3 DEF ReadFails, End, contextVars, ControlTypeOK, Addressed
  <2> QED
    BY <1>3, <2>1, <2>2, <2>3 DEF ReadFails, storageVars, contextVars, StorageTypeOK, ContextTypeOK
<1>4. CASE Rollback(r)
  <2>1. ControlTypeOK'
    BY <1>4, GotoTyped, EndTyped DEF Rollback, PC, Waits, Outcome, ControlTypeOK
  <2>2. DatabaseTypeOK'
    BY <1>4, EndTxTyped DEF Rollback, End, databaseKept, DatabaseTypeOK
  <2>3. ContextTypeOK'
    BY <1>4, LogTyped DEF Rollback, contextVars, ContextTypeOK, Event
  <2>4. StorageTypeOK'
    BY <1>4, SubmitTyped DEF Rollback, StorageTypeOK, Call
  <2>5. Addressed'
    BY <1>4 DEF Rollback, Goto, End, contextVars, ControlTypeOK, Addressed
  <2> QED  BY <2>1, <2>2, <2>3, <2>4, <2>5
<1>5. CASE DrainReturns(r)
  <2>1. ControlTypeOK'
    BY <1>5, EndTyped, HandleTyped DEF DrainReturns, Unwind, Exception, Outcome
  <2>2. DatabaseTypeOK'
    BY <1>5, EndTxTyped DEF DrainReturns, Unwind, End, databaseKept, DatabaseTypeOK
  <2>3. Addressed'
    BY <1>5 DEF DrainReturns, Unwind, End, Handle, Drains, contextVars, ControlTypeOK, Addressed
  <2> QED
    BY <1>5, <2>1, <2>2, <2>3
    DEF DrainReturns, storageVars, contextVars, StorageTypeOK, ContextTypeOK
<1> QED  BY <1>1, <1>2, <1>3, <1>4, <1>5 DEF CommonStep

(* a cancellation at any await,                                            *)
LEMMA CancelTyped ==
  ASSUME TypeOK, NEW r \in Request, Cancel(r)
  PROVE  TypeOK'
<1> USE DEF TypeOK
<1>1. cancels' \in [Request -> 0..MaxCancels]
  BY MaxCancelsIsNat DEF Cancel, ContextTypeOK
<1>2. CASE CancelStorage(r)
  <2>1. ControlTypeOK'
    BY <1>2, GotoTyped, EndTyped, HandleTyped
    DEF CancelStorage, Unwind, Exception, Outcome, PC, DrainOf, Waits, Drains
  <2>2. DatabaseTypeOK'
    BY <1>2, EndTxTyped DEF Cancel, CancelStorage, Unwind, End, DatabaseTypeOK
  <2>3. StorageTypeOK'
    BY <1>2, DetachTyped DEF Cancel, CancelStorage, StorageTypeOK, Drains, Call
  <2>4. Addressed'
    BY <1>2 DEF Cancel, CancelStorage, Unwind, Goto, End, Handle, Waits, Drains,
                ControlTypeOK, Addressed
  <2> QED  BY <1>1, <1>2, <2>1, <2>2, <2>3, <2>4 DEF Cancel, CancelStorage, ContextTypeOK
<1>3. CASE CancelDatabase(r)
  <2>1. ControlTypeOK'
    BY <1>3, HandleTyped DEF CancelDatabase, Exception
  <2>2. DatabaseTypeOK'
    BY <1>3, CommitUnknownTyped, StatementUnknownTyped DEF Cancel, CancelDatabase, DatabaseTypeOK
  <2>3. Addressed'
    BY <1>3 DEF Cancel, CancelDatabase, Handle, ControlTypeOK, Addressed
  <2>4. ContextTypeOK'
    BY <1>1, <1>3, LogDanglingTyped DEF Cancel, CancelDatabase, ContextTypeOK
  <2> QED  BY <1>3, <2>1, <2>2, <2>3, <2>4 DEF Cancel, CancelDatabase, StorageTypeOK
<1>4. CASE CancelUncaught(r)
  <2>1. ControlTypeOK'
    BY <1>4, EndTyped DEF CancelUncaught, Exception, Outcome
  <2>2. DatabaseTypeOK'
    BY <1>4, EndTxTyped DEF Cancel, CancelUncaught, End, DatabaseTypeOK
  <2>3. Addressed'
    BY <1>4 DEF Cancel, CancelUncaught, End, Serving, ControlTypeOK, Addressed
  <2> QED
    BY <1>1, <1>4, <2>1, <2>2, <2>3 DEF Cancel, CancelUncaught, StorageTypeOK, ContextTypeOK
<1> QED  BY <1>2, <1>3, <1>4 DEF Cancel

(* the loss of a process,                                                  *)
LEMMA CrashTyped ==
  ASSUME TypeOK, NEW r \in Request, Crash(r)
  PROVE  TypeOK'
<1> USE DEF TypeOK
<1>1. ControlTypeOK'
  BY DEF Crash, ControlTypeOK, PC, Ended
<1>2. DatabaseTypeOK'
  BY EndTxTyped, CommittedTyped DEF Crash, DatabaseTypeOK
<1>3. StorageTypeOK'
  BY KillTyped DEF Crash, StorageTypeOK
<1>4. Addressed'
  BY DEF Crash, contextVars, ControlTypeOK, Addressed
<1> QED  BY <1>1, <1>2, <1>3, <1>4 DEF Crash, contextVars, ContextTypeOK

(* and accounts that come and go.                                          *)
LEMMA UserChangeTyped ==
  ASSUME TypeOK, UserChange
  PROVE  TypeOK'
<1> USE DEF TypeOK
<1>1. DatabaseTypeOK'
  <2>1. CASE CreateUser
    BY <2>1, BoundsAreNat DEF CreateUser, NextUserId, DatabaseTypeOK, UserId
  <2>2. ASSUME NEW u \in UserId,
               DeleteUser(u, [q \in Request |-> actor[q].id], file)
        PROVE  DatabaseTypeOK'
    <3>1. \A i \in FileId : [files[i] EXCEPT !.owner = 0] \in Row
      BY BoundsAreNat DEF DatabaseTypeOK, Row
    <3> QED  BY <2>2, <3>1, BoundsAreNat DEF DeleteUser, DatabaseTypeOK, UserId
  <2> QED  BY <2>1, <2>2 DEF UserChange
<1> QED
  BY <1>1 DEF UserChange, storageVars, requestVars,
              StorageTypeOK, ControlTypeOK, ContextTypeOK, Addressed

(* TypeOK is inductive.                                                    *)
LEMMA NextTypeOK == TypeOK /\ [Next]_vars => TypeOK'
<1> SUFFICES ASSUME TypeOK, [Next]_vars PROVE TypeOK'
  OBVIOUS
<1>1. ASSUME NEW r \in Request, Coroutine(r) PROVE TypeOK'
  BY <1>1, UploadTyped, DeleteTyped, DownloadTyped, ReadRowTyped, CommonTyped DEF Coroutine
<1>2. ASSUME NEW r \in Request, Thread(r) PROVE TypeOK'
  BY <1>2, ThreadTyped DEF TypeOK, Thread, databaseVars, requestVars,
                           DatabaseTypeOK, ControlTypeOK, ContextTypeOK, Addressed
<1>3. CASE UNCHANGED vars
  BY <1>3 DEF vars, storageVars, databaseVars, requestVars, TypeOK,
              StorageTypeOK, DatabaseTypeOK, ControlTypeOK, ContextTypeOK, Addressed
<1> QED
  BY <1>1, <1>2, <1>3, ArriveTyped, CancelTyped, CrashTyped, UserChangeTyped DEF Next

(* Every state of the component has its types, whatever the requests, the  *)
(* faults, the cancellations and the dialect.                              *)
THEOREM TypeCorrect == Spec => []TypeOK
  BY InitTypeOK, NextTypeOK, PTL DEF Spec

-----------------------------------------------------------------------------
(* A DELETE removes the row it authorized.  The argument has two parts.    *)
(* Locked: from the load to the commit the request's transaction is open.  *)
(* RowInv: on SQLite an open transaction keeps every commit out, so the    *)
(* row is still there; elsewhere ids only grow, so the id of a row that    *)
(* was read is never the id of a pending INSERT.                           *)

Loaded == {"removing", "removeDrain", "deleting"}
Window == Loaded \cup {"committing"}

Locked ==
    \A r \in Request :
        /\ pc[r] \in Loaded => r \in Deletes /\ tx[r] = "read"
        /\ pc[r] = "committing" =>
             \/ r \in Uploads /\ tx[r] = "insert"
             \/ r \in Deletes /\ tx[r] = "delete"

(* At first nobody has loaded a row.                                       *)
LEMMA LockedInit == Init => Locked
  BY DEF Init, Locked, Loaded

(* A request's own step, as Locked sees it. *)
LEMMA LockedKept ==
  ASSUME TypeOK, Locked, NEW r \in Request,
         \A q \in Request \ {r} : pc'[q] = pc[q] /\ tx'[q] = tx[q],
         pc'[r] \in Loaded => r \in Deletes /\ tx'[r] = "read",
         pc'[r] = "committing" =>
           \/ r \in Uploads /\ tx'[r] = "insert"
           \/ r \in Deletes /\ tx'[r] = "delete"
  PROVE  Locked'
  BY DEF Locked

(* Locked is inductive, given TypeOK.                                      *)
LEMMA LockedNext == TypeOK /\ Locked /\ [Next]_vars => Locked'
<1> SUFFICES ASSUME TypeOK, Locked, [Next]_vars PROVE Locked'
  OBVIOUS
<1> USE DEF Goto, End, Handle, EndTx
<1>0. pc \in [Request -> PC] /\ tx \in [Request -> TxState]
  BY DEF TypeOK, ControlTypeOK, DatabaseTypeOK
<1>1. ASSUME NEW r \in Request, Arrive(r) PROVE Locked'
  BY <1>0, <1>1, LockedKept DEF Arrive, StartUpload, StartRead, databaseVars, Loaded
<1>2. ASSUME NEW r \in Request, Coroutine(r) PROVE Locked'
  <2>1. CASE r \in Uploads /\ UploadStep(r)
    BY <1>0, <2>1, LockedKept
    DEF UploadStep, ValidateReturns, PutReturns, Insert, CompensateReturns, databaseVars, Loaded
  <2>2. CASE r \in Deletes /\ DeleteStep(r)
    <3>1. CASE RemoveReturns(r)
      BY <1>0, <2>2, <3>1, LockedKept DEF RemoveReturns, databaseVars, Loaded, Locked
    <3>2. CASE DeleteRow(r)
      BY <1>0, <2>2, <3>2, LockedKept DEF DeleteRow, Loaded
    <3> QED  BY <2>2, <3>1, <3>2 DEF DeleteStep
  <2>3. CASE DownloadStep(r)
    BY <1>0, <2>3, LockedKept DEF DownloadStep, Check, Serve, Loaded
  <2>4. CASE ReadRow(r)
    BY <1>0, <2>4, LockedKept DEF ReadRow, BeginRead, Loaded
  <2>5. CASE CommonStep(r)
    <3>1. CASE Commit(r) \/ ReadFails(r)
      BY <1>0, <3>1, LockedKept DEF Commit, ReadFails, Loaded
    <3>2. CASE StatementFails(r)
      BY <1>0, <3>2, LockedKept DEF StatementFails, CommitUnknown, StatementUnknown, Loaded
    <3>3. CASE Rollback(r)
      BY <1>0, <3>3, LockedKept DEF Rollback, Loaded
    <3>4. CASE DrainReturns(r)
      BY <1>0, <3>4, LockedKept DEF DrainReturns, Unwind, Loaded
    <3> QED  BY <2>5, <3>1, <3>2, <3>3, <3>4 DEF CommonStep
  <2> QED  BY <1>2, <2>1, <2>2, <2>3, <2>4, <2>5 DEF Coroutine
<1>3. ASSUME NEW r \in Request, Thread(r) PROVE Locked'
  BY <1>3 DEF Thread, databaseVars, requestVars, Locked
<1>4. ASSUME NEW r \in Request, Cancel(r) PROVE Locked'
  <2>1. CASE CancelStorage(r)
    BY <1>0, <2>1, LockedKept
    DEF CancelStorage, Unwind, Waits, DrainOf, Loaded, Locked
  <2>2. CASE CancelDatabase(r)
    BY <1>0, <2>2, LockedKept DEF CancelDatabase, CommitUnknown, StatementUnknown, Loaded
  <2>3. CASE CancelUncaught(r)
    BY <1>0, <2>3, LockedKept DEF CancelUncaught, Loaded
  <2> QED  BY <1>4, <2>1, <2>2, <2>3 DEF Cancel
<1>5. ASSUME NEW r \in Request, Crash(r) PROVE Locked'
  BY <1>0, <1>5, LockedKept DEF Crash, Loaded
<1>6. CASE UserChange
  BY <1>6 DEF UserChange, CreateUser, DeleteUser, requestVars, Locked
<1>7. CASE UNCHANGED vars
  BY <1>7 DEF vars, databaseVars, requestVars, Locked
<1> QED  BY <1>1, <1>2, <1>3, <1>4, <1>5, <1>6, <1>7 DEF Next

RowInv ==
    /\ \A d \in Deletes : pc[d] \in Window =>
         /\ files[file[d]].key \in {read[d].key, NoKey}
         /\ Sqlite \/ file[d] <= fileSeq
    /\ \A u \in Uploads : pc[u] = "committing" =>
         file[u] \in FileId /\ files[file[u]].key = NoKey
    /\ ~Sqlite =>
         /\ \A i \in FileId : i > fileSeq => files[i].key = NoKey
         /\ \A u \in Uploads : pc[u] = "committing" =>
              /\ file[u] <= fileSeq
              /\ \A d \in Deletes : pc[d] \in Window => file[d] # file[u]
              /\ \A v \in Uploads \ {u} : pc[v] = "committing" => file[v] # file[u]

(* At first there are no rows.                                             *)
LEMMA RowInvInit == Init => RowInv
  BY DEF Init, DatabaseInit, NoRow, RowInv, Window, Loaded, Request

(* A step of r that writes no row and loads none. *)
LEMMA QuietKeepsRows ==
  ASSUME TypeOK, RowInv, NEW r \in Request,
         \A i \in FileId : files'[i].key = files[i].key,
         UNCHANGED fileSeq,
         \A q \in Request \ {r} :
           pc'[q] = pc[q] /\ file'[q] = file[q] /\ read'[q] = read[q],
         pc'[r] \in Window =>
           pc[r] \in Window /\ file'[r] = file[r] /\ read'[r] = read[r],
         pc'[r] = "committing" => pc[r] = "committing" \/ r \in Deletes
  PROVE  RowInv'
<1>1. \A d \in Deletes : pc[d] \in Window => file[d] \in FileId
  BY RequestsDisjoint DEF TypeOK, Addressed, Request, Window, Loaded
<1>2. \A d \in Deletes : pc'[d] \in Window =>
        pc[d] \in Window /\ file'[d] = file[d] /\ read'[d] = read[d]
  BY DEF Request
<1>3. \A u \in Uploads : pc'[u] = "committing" =>
        pc[u] = "committing" /\ file'[u] = file[u]
  BY RequestsDisjoint DEF Request, Window
<1>4. \A d \in Deletes : pc'[d] \in Window =>
        /\ files'[file'[d]].key \in {read'[d].key, NoKey}
        /\ Sqlite \/ file'[d] <= fileSeq'
  BY <1>1, <1>2 DEF RowInv
<1>5. \A u \in Uploads : pc'[u] = "committing" =>
        file'[u] \in FileId /\ files'[file'[u]].key = NoKey
  BY <1>3 DEF RowInv
<1>6. CASE ~Sqlite
  <2>1. ASSUME NEW u \in Uploads, pc'[u] = "committing"
        PROVE  /\ file'[u] <= fileSeq'
               /\ \A d \in Deletes : pc'[d] \in Window => file'[d] # file'[u]
               /\ \A v \in Uploads \ {u} : pc'[v] = "committing" => file'[v] # file'[u]
    BY <1>2, <1>3, <1>6, <2>1 DEF RowInv
  <2> QED  BY <1>4, <1>5, <1>6, <2>1 DEF RowInv
<1> QED  BY <1>4, <1>5, <1>6 DEF RowInv

(* r's commit takes effect, whether or not it learns of it. *)
LEMMA CommitKeepsRows ==
  ASSUME TypeOK, Locked, RowInv, NEW r \in Request,
         pc[r] = "committing", MayCommit(r), files' = Committed(r),
         UNCHANGED <<fileSeq, file, read>>,
         \A q \in Request \ {r} : pc'[q] = pc[q],
         pc'[r] \notin Window
  PROVE  RowInv'
<1>1. CASE Sqlite
  <2>1. \A q \in Request \ {r} : pc[q] \notin Window
    BY <1>1 DEF MayCommit, Locked, Window
  <2> QED  BY <1>1, <2>1 DEF RowInv, Request, Window
<1>2. CASE ~Sqlite
  <2>0. \A d \in Deletes : pc[d] \in Window => file[d] \in FileId
    BY RequestsDisjoint DEF TypeOK, Addressed, Request, Window, Loaded
  <2>1. CASE r \in Uploads
    <3>1. \A i \in FileId : i # file[r] => files'[i] = files[i]
      BY DEF TypeOK, DatabaseTypeOK, Committed
    <3> QED  BY <1>2, <2>0, <2>1, <3>1 DEF RowInv, Request, Window, TypeOK, DatabaseTypeOK, FileId
  <2>2. CASE r \in Deletes
    <3>1. \A i \in FileId : files'[i].key \in {files[i].key, NoKey}
      BY <2>2, RequestsDisjoint DEF TypeOK, DatabaseTypeOK, Committed, NoRow
    <3> QED  BY <1>2, <2>0, <2>2, <3>1 DEF RowInv, Request
  <2> QED  BY <2>1, <2>2 DEF Locked
<1> QED  BY <1>1, <1>2

(* An INSERT takes an id no pending request is about.                      *)
LEMMA InsertKeepsRows ==
  ASSUME TypeOK, Locked, RowInv, NEW r \in Uploads, Insert(r)
  PROVE  RowInv'
<1>1. PICK i \in FileId : /\ IsNextFileId(i)
                          /\ file' = [file EXCEPT ![r] = i]
                          /\ fileSeq' = IF Sqlite THEN fileSeq ELSE i
  BY DEF Insert
<1>2. /\ pc' = [pc EXCEPT ![r] = "committing"]
      /\ UNCHANGED <<files, read>>
      /\ pc[r] = "inserting"
  BY DEF Insert, Goto
<1>3. r \in Request /\ r \notin Deletes /\ \A d \in Deletes : d \in Request
  BY RequestsDisjoint DEF Request
<1>4. \A d \in Deletes : pc[d] \in Window => file[d] \in FileId
  BY RequestsDisjoint DEF TypeOK, Addressed, Request, Window, Loaded
<1>5. CASE Sqlite
  <2>1. files[i].key = NoKey
    BY <1>1, <1>5 DEF IsNextFileId, FileId
  <2> QED
    BY <1>1, <1>2, <1>3, <1>5, <2>1 DEF RowInv, TypeOK, ControlTypeOK, ContextTypeOK, Request
<1>6. CASE ~Sqlite
  <2>1. fileSeq' = i /\ i = fileSeq + 1 /\ fileSeq \in Nat
    BY <1>1, <1>6, BoundsAreNat DEF IsNextFileId, TypeOK, DatabaseTypeOK
  <2>2. \A d \in Deletes : pc'[d] \in Window =>
          /\ pc[d] \in Window /\ file'[d] = file[d] /\ file[d] \in FileId
          /\ file[d] <= fileSeq
    BY <1>1, <1>2, <1>3, <1>4, <1>6 DEF RowInv, TypeOK, ControlTypeOK, ContextTypeOK
  <2>3. \A v \in Uploads \ {r} : pc'[v] = pc[v] /\ file'[v] = file[v]
    BY <1>1, <1>2 DEF TypeOK, ControlTypeOK, ContextTypeOK, Request
  <2>4. file'[r] = i /\ files[i].key = NoKey
    BY <1>1, <1>3, <1>6, <2>1 DEF RowInv, TypeOK, ContextTypeOK, FileId
  <2>5. \A d \in Deletes : pc'[d] \in Window =>
          files'[file'[d]].key \in {read'[d].key, NoKey} /\ file'[d] <= fileSeq'
    BY <1>2, <2>1, <2>2, BoundsAreNat DEF RowInv, FileId
  <2>6. \A j \in FileId : j > fileSeq' => files'[j].key = NoKey
    BY <1>2, <1>6, <2>1, BoundsAreNat DEF RowInv, FileId
  <2>7. ASSUME NEW u \in Uploads, pc'[u] = "committing"
        PROVE  /\ file'[u] \in FileId
               /\ file'[u] <= fileSeq'
               /\ files'[file'[u]].key = NoKey
               /\ \A d \in Deletes : pc'[d] \in Window => file'[d] # file'[u]
               /\ \A v \in Uploads \ {u} : pc'[v] = "committing" => file'[v] # file'[u]
    <3>1. CASE u = r
      BY <1>2, <1>6, <2>1, <2>2, <2>3, <2>4, <2>7, <3>1, BoundsAreNat DEF RowInv, FileId
    <3>2. CASE u # r
      <4>1. /\ file[u] \in FileId /\ file[u] <= fileSeq /\ files[file[u]].key = NoKey
            /\ \A d \in Deletes : pc[d] \in Window => file[d] # file[u]
            /\ \A v \in Uploads \ {u} : pc[v] = "committing" => file[v] # file[u]
        BY <1>6, <2>3, <2>7, <3>2 DEF RowInv
      <4> QED  BY <1>2, <2>1, <2>2, <2>3, <2>4, <3>2, <4>1, BoundsAreNat DEF FileId
    <3> QED  BY <3>1, <3>2
  <2> QED  BY <1>6, <2>5, <2>6, <2>7 DEF RowInv
<1> QED  BY <1>5, <1>6

(* A load binds the request to the row it sees.                            *)
LEMMA ReadRowKeepsRows ==
  ASSUME TypeOK, RowInv, NEW r \in Request, r \notin Uploads, ReadRow(r)
  PROVE  RowInv'
<1> DEFINE row == files[file[r]]
<1>1. CASE row.key # NoKey /\ Authorized(r, row)
  <2>1. /\ read' = [read EXCEPT ![r] = row]
        /\ \E p \in {"removing", "checking"} : pc' = [pc EXCEPT ![r] = p]
        /\ UNCHANGED <<files, fileSeq, file>>
    BY <1>1 DEF ReadRow, Goto, databaseKept
  <2>2. file[r] \in FileId /\ row.key # NoKey
    BY <1>1 DEF ReadRow, TypeOK, Addressed
  <2>3. ~Sqlite => file[r] <= fileSeq
    BY <2>2, BoundsAreNat DEF RowInv, FileId, TypeOK, DatabaseTypeOK
  <2>4. \A q \in Request \ {r} : pc'[q] = pc[q] /\ read'[q] = read[q]
    BY <2>1 DEF TypeOK, ControlTypeOK, ContextTypeOK
  <2>5. read'[r] = row /\ pc'[r] # "committing"
    BY <2>1 DEF TypeOK, ControlTypeOK, ContextTypeOK
  <2>6. \A u \in Uploads : u \in Request \ {r}
    BY DEF Request
  <2> QED  BY <2>1, <2>2, <2>3, <2>4, <2>5, <2>6 DEF RowInv, Request
<1>2. CASE ~(row.key # NoKey /\ Authorized(r, row))
  BY <1>2, QuietKeepsRows
  DEF ReadRow, End, databaseKept, Window, Loaded, TypeOK, ControlTypeOK
<1> QED  BY <1>1, <1>2

(* RowInv is inductive, given TypeOK and Locked.                           *)
LEMMA RowInvNext == TypeOK /\ Locked /\ RowInv /\ [Next]_vars => RowInv'
<1> SUFFICES ASSUME TypeOK, Locked, RowInv, [Next]_vars PROVE RowInv'
  OBVIOUS
<1> USE DEF Goto, End, Handle
<1>0. /\ pc \in [Request -> PC]
      /\ file \in [Request -> 0..MaxFiles]
      /\ read \in [Request -> Row]
      /\ files \in [FileId -> Row]
  BY DEF TypeOK, ControlTypeOK, ContextTypeOK, DatabaseTypeOK
<1>1. ASSUME NEW r \in Request, Arrive(r) PROVE RowInv'
  BY <1>0, <1>1, QuietKeepsRows
  DEF Arrive, StartUpload, StartRead, databaseVars, Window, Loaded
<1>2. ASSUME NEW r \in Request, Coroutine(r) PROVE RowInv'
  <2>1. CASE r \in Uploads /\ UploadStep(r)
    <3>1. CASE Insert(r)
      BY <2>1, <3>1, InsertKeepsRows
    <3>2. CASE ValidateReturns(r) \/ PutReturns(r) \/ CompensateReturns(r)
      BY <1>0, <3>2, QuietKeepsRows
      DEF ValidateReturns, PutReturns, CompensateReturns, databaseVars, databaseKept,
          contextVars, Window, Loaded
    <3> QED  BY <2>1, <3>1, <3>2 DEF UploadStep
  <2>2. CASE r \in Deletes /\ DeleteStep(r)
    BY <1>0, <2>2, QuietKeepsRows
    DEF DeleteStep, RemoveReturns, DeleteRow, databaseVars, databaseKept, contextVars,
        Window, Loaded
  <2>3. CASE DownloadStep(r)
    BY <1>0, <2>3, QuietKeepsRows
    DEF DownloadStep, Check, Serve, databaseKept, contextVars, Window, Loaded
  <2>4. CASE r \notin Uploads /\ ReadRow(r)
    BY <2>4, ReadRowKeepsRows
  <2>5. CASE CommonStep(r)
    <3>1. CASE Commit(r)
      BY <1>0, <3>1, CommitKeepsRows DEF Commit, contextVars, Window, Loaded
    <3>2. CASE StatementFails(r)
      <4>1. CASE UNCHANGED files
        BY <1>0, <3>2, <4>1, QuietKeepsRows DEF StatementFails, contextVars, Window, Loaded
      <4>2. CASE files' # files
        BY <1>0, <3>2, <4>2, CommitKeepsRows
        DEF StatementFails, CommitUnknown, contextVars, Window, Loaded
      <4> QED  BY <4>1, <4>2
    <3>3. CASE ReadFails(r) \/ Rollback(r) \/ DrainReturns(r)
      BY <1>0, <3>3, QuietKeepsRows
      DEF ReadFails, Rollback, DrainReturns, Unwind, databaseKept, contextVars, Window, Loaded
    <3> QED  BY <2>5, <3>1, <3>2, <3>3 DEF CommonStep
  <2> QED  BY <1>2, <2>1, <2>2, <2>3, <2>4, <2>5 DEF Coroutine
<1>3. ASSUME NEW r \in Request, Thread(r) PROVE RowInv'
  BY <1>3 DEF Thread, databaseVars, requestVars, RowInv
<1>4. ASSUME NEW r \in Request, Cancel(r) PROVE RowInv'
  <2>1. CASE UNCHANGED files
    BY <1>0, <1>4, <2>1, QuietKeepsRows
    DEF Cancel, CancelStorage, CancelDatabase, CancelUncaught, Unwind, Waits, DrainOf,
        Window, Loaded
  <2>2. CASE files' # files
    BY <1>0, <1>4, <2>2, CommitKeepsRows
    DEF Cancel, CancelStorage, CancelDatabase, CancelUncaught, CommitUnknown, Window, Loaded
  <2> QED  BY <2>1, <2>2
<1>5. ASSUME NEW r \in Request, Crash(r) PROVE RowInv'
  <2>1. CASE UNCHANGED files
    BY <1>0, <1>5, <2>1, QuietKeepsRows DEF Crash, contextVars, Window, Loaded
  <2>2. CASE files' # files
    BY <1>0, <1>5, <2>2, CommitKeepsRows DEF Crash, contextVars, Window, Loaded
  <2> QED  BY <2>1, <2>2
<1>6. CASE UserChange
  <2>1. \A i \in FileId : files'[i].key = files[i].key
    BY <1>0, <1>6 DEF UserChange, CreateUser, DeleteUser, Row
  <2>2. UNCHANGED <<fileSeq, pc, file, read>>
    BY <1>6 DEF UserChange, CreateUser, DeleteUser, requestVars
  <2>3. \A d \in Deletes : pc[d] \in Window => file[d] \in FileId
    BY RequestsDisjoint DEF TypeOK, Addressed, Request, Window, Loaded
  <2> QED  BY <2>1, <2>2, <2>3 DEF RowInv
<1>7. CASE UNCHANGED vars
  BY <1>7 DEF vars, databaseVars, requestVars, RowInv
<1> QED  BY <1>1, <1>2, <1>3, <1>4, <1>5, <1>6, <1>7 DEF Next

(* On either dialect, whatever else happens, a DELETE is never about to    *)
(* remove another row than the one it loaded and authorized.               *)
THEOREM AuthorizedRow == Spec => []DeletesAuthorizedRow
<1>1. RowInv => DeletesAuthorizedRow
  BY DEF RowInv, DeletesAuthorizedRow, Window, Loaded
<1> QED
  BY <1>1, InitTypeOK, NextTypeOK, LockedInit, LockedNext, RowInvInit, RowInvNext, PTL DEF Spec

-----------------------------------------------------------------------------
(* A 201 is kept.  CallsInv relates where a request stands to the calls it *)
(* has made; WholeInv says that an object nobody has finished removing is  *)
(* complete once its put returned; RowKept, that the row goes only when a  *)
(* DELETE that loaded it commits, which RowInv makes the row it removes.   *)

Early == {"new", "validating", "validateDrain"}
BeforeCommit == Early \cup {"putting", "putDrain", "inserting", "committing"}
DeleteOnly == {"reading", "removing", "removeDrain", "deleting"}

UploadCalls(u) ==
    /\ pc[u] \notin DeleteOnly
    /\ pc[u] \in Early => io[u]["put"] = "idle"
    /\ pc[u] \in BeforeCommit \cup {"rollback"} => io[u]["remove"] = "idle"
    /\ pc[u] \in {"inserting", "committing"} => io[u]["put"] = "ok"
    /\ outcome[u] = "ok" =>
         pc[u] = "done" /\ io[u]["put"] = "ok" /\ io[u]["remove"] = "idle"

DeleteCalls(d) ==
    /\ pc[d] \in {"new", "reading"} => read[d].key = NoKey /\ io[d]["remove"] = "idle"
    /\ pc[d] \in {"deleting", "committing"} => io[d]["remove"] = "ok"

CallsInv ==
    /\ \A u \in Uploads : UploadCalls(u)
    /\ \A d \in Deletes : DeleteCalls(d)

(* At first nothing was called. *)
LEMMA CallsInit == Init => CallsInv
  BY RequestsDisjoint
  DEF Init, StorageInit, NoRow, Request, CallsInv, UploadCalls, DeleteCalls, Early, BeforeCommit,
      DeleteOnly, Call

(* A step of r reaches only what CallsInv says of r. *)
LEMMA CallsKept ==
  ASSUME CallsInv, NEW r \in Request,
         \A q \in Request \ {r} : /\ pc'[q] = pc[q] /\ io'[q] = io[q]
                                  /\ outcome'[q] = outcome[q] /\ read'[q] = read[q],
         r \in Uploads => UploadCalls(r)',
         r \in Deletes => DeleteCalls(r)'
  PROVE  CallsInv'
<1>1. ASSUME NEW u \in Uploads PROVE UploadCalls(u)'
  <2>1. CASE u = r
    BY <2>1
  <2>2. CASE u # r
    BY <2>2 DEF Request, CallsInv, UploadCalls
  <2> QED  BY <2>1, <2>2
<1>2. ASSUME NEW d \in Deletes PROVE DeleteCalls(d)'
  <2>1. CASE d = r
    BY <2>1
  <2>2. CASE d # r
    BY <2>2 DEF Request, CallsInv, DeleteCalls
  <2> QED  BY <2>1, <2>2
<1> QED  BY <1>1, <1>2 DEF CallsInv

(* What the cases below need of TypeOK, of CallsInv and of a request r. *)
Calls(r) ==
    /\ pc \in [Request -> PC] /\ outcome \in [Request -> Outcome]
    /\ raised \in [Request -> Exception] /\ read \in [Request -> Row]
    /\ io \in [Request -> [Call -> IoState]]
    /\ r \in Uploads => UploadCalls(r)
    /\ r \in Deletes => DeleteCalls(r)

(* Calls holds of every request.                                           *)
LEMMA CallsOf == ASSUME TypeOK, CallsInv, NEW r \in Request PROVE Calls(r)
  BY DEF TypeOK, ControlTypeOK, ContextTypeOK, StorageTypeOK, CallsInv, Calls

(* The steps of the coroutine of r. *)
LEMMA CallsCoroutine ==
  ASSUME CallsInv, NEW r \in Request, Calls(r), Coroutine(r)
  PROVE  CallsInv'
<1> USE RequestsDisjoint, CallsKept
    DEF Goto, End, Handle, Calls, UploadCalls, DeleteCalls, Early, BeforeCommit, DeleteOnly,
        storageVars, contextVars, Call, Request
<1>1. CASE r \in Uploads /\ ValidateReturns(r)
  BY <1>1 DEF ValidateReturns, Submit
<1>2. CASE r \in Uploads /\ PutReturns(r)
  BY <1>2 DEF PutReturns
<1>3. CASE r \in Uploads /\ Insert(r)
  BY <1>3 DEF Insert
<1>4. CASE r \in Uploads /\ CompensateReturns(r)
  BY <1>4 DEF CompensateReturns, Exception
<1>5. CASE r \in Deletes /\ DeleteStep(r)
  BY <1>5 DEF DeleteStep, RemoveReturns, DeleteRow
<1>6. CASE r \in Downloads /\ DownloadStep(r)
  BY <1>6 DEF DownloadStep, Check, Serve
<1>7. CASE r \notin Uploads /\ ReadRow(r)
  BY <1>7 DEF ReadRow, Submit
<1>8. CASE Commit(r)
  BY <1>8 DEF Commit
<1>9. CASE ReadFails(r)
  BY <1>9 DEF ReadFails
<1>10. CASE StatementFails(r)
  BY <1>10 DEF StatementFails
<1>11. CASE Rollback(r)
  BY <1>11 DEF Rollback, Submit, Exception
<1>12. CASE DrainReturns(r)
  <2>1. pc[r] \in {"validateDrain", "putDrain", "compensateDrain", "removeDrain"}
    BY <1>12 DEF DrainReturns, Drains
  <2> QED  BY <1>12, <2>1 DEF DrainReturns, Unwind
<1> QED
  BY <1>1, <1>2, <1>3, <1>4, <1>5, <1>6, <1>7, <1>8, <1>9, <1>10, <1>11, <1>12
  DEF Coroutine, UploadStep, CommonStep

(* A thread of r. *)
LEMMA CallsThread ==
  ASSUME CallsInv, NEW r \in Request, Calls(r), Thread(r)
  PROVE  CallsInv'
  BY RequestsDisjoint, CallsKept
  DEF Thread, UploadThread, RemoveThread, ValidateEnd, PutOpen, PutEnd, PutError, RemoveEnd,
      RemoveError, Unfinished, requestVars, Calls, UploadCalls, DeleteCalls, Early, BeforeCommit,
      DeleteOnly, Call

(* A cancellation of r. *)
LEMMA CallsCancel ==
  ASSUME CallsInv, NEW r \in Request, Calls(r), Cancel(r)
  PROVE  CallsInv'
<1> USE RequestsDisjoint, CallsKept
    DEF Goto, End, Handle, Calls, UploadCalls, DeleteCalls, Early, BeforeCommit, DeleteOnly, Call
<1>1. CASE CancelDatabase(r)
  BY <1>1 DEF Cancel, CancelDatabase
<1>2. CASE CancelUncaught(r)
  BY <1>2 DEF Cancel, CancelUncaught, Serving
<1>3. CASE pc[r] \in DOMAIN Waits /\ Goto(r, DrainOf[pc[r]]) /\ UNCHANGED io
  <2>1. pc[r] \in {"validating", "putting", "compensating", "removing"}
    BY <1>3 DEF Waits
  <2> QED  BY <1>3, <2>1 DEF Cancel, DrainOf
<1>4. CASE pc[r] \in DOMAIN Drains /\ Detach(r, Drains[pc[r]]) /\ Unwind(r)
  <2>1. CASE pc[r] = "validateDrain"
    <3>1. Drains[pc[r]] = "validate"  BY <2>1 DEF Drains
    <3> QED  BY <1>4, <2>1, <3>1 DEF Cancel, Unwind, Detach
  <2>2. CASE pc[r] = "putDrain"
    <3>1. Drains[pc[r]] = "put"  BY <2>2 DEF Drains
    <3> QED  BY <1>4, <2>2, <3>1 DEF Cancel, Unwind, Detach
  <2>3. CASE pc[r] \in {"compensateDrain", "removeDrain"}
    <3>1. Drains[pc[r]] = "remove"  BY <2>3 DEF Drains
    <3> QED  BY <1>4, <2>3, <3>1 DEF Cancel, Unwind, Detach
  <2> QED  BY <1>4, <2>1, <2>2, <2>3 DEF Drains
<1> QED  BY <1>1, <1>2, <1>3, <1>4 DEF Cancel, CancelStorage

(* CallsInv is inductive. *)
LEMMA CallsNext == TypeOK /\ CallsInv /\ [Next]_vars => CallsInv'
<1> SUFFICES ASSUME TypeOK, CallsInv, [Next]_vars PROVE CallsInv'
  OBVIOUS
<1>1. ASSUME NEW r \in Request, Arrive(r) PROVE CallsInv'
  BY <1>1, CallsOf, CallsKept, RequestsDisjoint
  DEF Arrive, StartUpload, StartRead, Goto, Submit, storageVars, Calls, UploadCalls, DeleteCalls,
      Early, BeforeCommit, DeleteOnly, Call, Request
<1>2. ASSUME NEW r \in Request, Coroutine(r) \/ Thread(r) \/ Cancel(r) PROVE CallsInv'
  BY <1>2, CallsOf, CallsCoroutine, CallsThread, CallsCancel
<1>3. ASSUME NEW r \in Request, Crash(r) PROVE CallsInv'
  BY <1>3, CallsOf, CallsKept, RequestsDisjoint
  DEF Crash, Kill, Unfinished, contextVars, Calls, UploadCalls, DeleteCalls, Early, BeforeCommit,
      DeleteOnly, Call, Ended
<1>4. CASE UserChange \/ UNCHANGED vars
  BY <1>4 DEF UserChange, vars, storageVars, requestVars, CallsInv, UploadCalls, DeleteCalls
<1> QED  BY <1>1, <1>2, <1>3, <1>4 DEF Next

-----------------------------------------------------------------------------
(* How one step changes what an acknowledged upload depends on. *)

(* A step writes rows only at a commit: the upload's row in, the deleted   *)
(* row out.                                                                *)
RowsStep ==
    \A i \in FileId :
        \/ files'[i].key = files[i].key
        \/ \E u \in Uploads :
             pc[u] = "committing" /\ i = file[u] /\ files'[i].key = u
        \/ \E d \in Deletes :
             pc[d] = "committing" /\ i = file[d] /\ files'[i].key = NoKey

(* What a DELETE has loaded stays, and so does the end of its call. *)
RemoversStep ==
    \A d \in Deletes :
        /\ io[d]["remove"] = "ok" => io'[d]["remove"] = "ok"
        /\ read[d].key # NoKey =>
             /\ read'[d] = read[d]
             /\ io[d]["remove"] # "called" => io'[d]["remove"] # "called"

(* An upload answers 201 only with its row committed. *)
AnswersStep ==
    \A u \in Uploads : outcome'[u] = "ok" =>
        \/ outcome[u] = "ok"
        \/ \E i \in FileId : files'[i].key = u

(* A commit writes the one row of its request.                             *)
LEMMA CommittedRows ==
  ASSUME TypeOK, Locked, RowInv, NEW r \in Request,
         pc[r] = "committing", files' = Committed(r)
  PROVE  /\ RowsStep
         /\ r \in Uploads => \E i \in FileId : files'[i].key = r
<1>1. CASE r \in Uploads
  <2>1. file[r] \in FileId
    BY <1>1 DEF RowInv
  <2>2. /\ files'[file[r]].key = r
        /\ \A i \in FileId : i # file[r] => files'[i] = files[i]
    BY <1>1, <2>1 DEF TypeOK, DatabaseTypeOK, Committed
  <2> QED  BY <1>1, <2>1, <2>2 DEF RowsStep
<1>2. CASE r \in Deletes
  <2>1. r \notin Uploads
    BY <1>2, RequestsDisjoint
  <2>2. \A i \in FileId : IF i = file[r] THEN files'[i].key = NoKey ELSE files'[i] = files[i]
    BY <2>1 DEF TypeOK, DatabaseTypeOK, Committed, NoRow
  <2> QED  BY <1>2, <2>1, <2>2 DEF RowsStep
<1> QED  BY <1>1, <1>2 DEF Locked

(* Every step is a RowsStep.                                               *)
LEMMA RowsNext == TypeOK /\ Locked /\ RowInv /\ [Next]_vars => RowsStep
<1> SUFFICES ASSUME TypeOK, Locked, RowInv, [Next]_vars PROVE RowsStep
  OBVIOUS
<1>1. CASE UNCHANGED files
  BY <1>1 DEF RowsStep
<1>2. ASSUME NEW r \in Request, files' # files, Arrive(r) \/ Coroutine(r) \/ Thread(r) \/ Cancel(r) \/ Crash(r)
      PROVE  RowsStep
  <2>1. pc[r] = "committing" /\ files' = Committed(r)
    <3>1. CASE Arrive(r)
      BY <1>2, <3>1 DEF Arrive, StartUpload, StartRead, databaseVars
    <3>2. CASE Coroutine(r)
      BY <1>2, <3>2
      DEF Coroutine, UploadStep, ValidateReturns, PutReturns, Insert, CompensateReturns, DeleteStep,
          RemoveReturns, DeleteRow, DownloadStep, Check, Serve, ReadRow, CommonStep, Commit,
          StatementFails, CommitUnknown, ReadFails, Rollback, DrainReturns, databaseVars, databaseKept
    <3>3. CASE Thread(r)
      BY <1>2, <3>3 DEF Thread, databaseVars
    <3>4. CASE Cancel(r)
      BY <1>2, <3>4 DEF Cancel, CancelStorage, CancelDatabase, CancelUncaught, CommitUnknown
    <3>5. CASE Crash(r)
      BY <1>2, <3>5 DEF Crash
    <3> QED  BY <1>2, <3>1, <3>2, <3>3, <3>4, <3>5
  <2> QED  BY <2>1, CommittedRows
<1>3. CASE UserChange
  BY <1>3 DEF UserChange, CreateUser, DeleteUser, RowsStep, TypeOK, DatabaseTypeOK, Row
<1> QED  BY <1>1, <1>2, <1>3 DEF Next, vars, databaseVars

(* The steps of a request that leave its removal and its answer alone. *)
LEMMA RequestStep ==
  ASSUME TypeOK, CallsInv, NEW r \in Request,
         \A q \in Request \ {r} : /\ io'[q] = io[q] /\ read'[q] = read[q]
                                  /\ outcome'[q] = outcome[q],
         r \in Deletes =>
           /\ io[r]["remove"] = "ok" => io'[r]["remove"] = "ok"
           /\ read[r].key # NoKey =>
                /\ read'[r] = read[r]
                /\ io[r]["remove"] # "called" => io'[r]["remove"] # "called",
         r \in Uploads =>
           (outcome'[r] = "ok" => outcome[r] = "ok" \/ \E i \in FileId : files'[i].key = r)
  PROVE  RemoversStep /\ AnswersStep
<1>1. RemoversStep
  <2> SUFFICES ASSUME NEW d \in Deletes
               PROVE  /\ io[d]["remove"] = "ok" => io'[d]["remove"] = "ok"
                      /\ read[d].key # NoKey =>
                           /\ read'[d] = read[d]
                           /\ io[d]["remove"] # "called" => io'[d]["remove"] # "called"
    BY DEF RemoversStep
  <2> QED  BY DEF Request
<1>2. AnswersStep
  BY DEF AnswersStep, Request
<1> QED  BY <1>1, <1>2

(* Every step is a RemoversStep and an AnswersStep.                        *)
LEMMA AnswersNext ==
  TypeOK /\ Locked /\ RowInv /\ CallsInv /\ [Next]_vars => RemoversStep /\ AnswersStep
<1> SUFFICES ASSUME TypeOK, Locked, RowInv, CallsInv, [Next]_vars
             PROVE  RemoversStep /\ AnswersStep
  OBVIOUS
<1>1. ASSUME NEW r \in Request, Arrive(r) PROVE RemoversStep /\ AnswersStep
  BY <1>1, RequestStep, CallsOf, RequestsDisjoint
  DEF Arrive, StartUpload, StartRead, Goto, Submit, storageVars, Calls, Request, Call
<1>2. ASSUME NEW r \in Request, Coroutine(r) PROVE RemoversStep /\ AnswersStep
  <2> USE <1>2, CallsOf, RequestStep, RequestsDisjoint
      DEF Goto, End, Handle, Calls, DeleteCalls, storageVars, contextVars, Call
  <2>1. CASE r \in Uploads /\ UploadStep(r)
    BY <2>1
    DEF UploadStep, ValidateReturns, PutReturns, Insert, CompensateReturns, Submit, Exception
  <2>2. CASE r \in Deletes /\ DeleteStep(r)
    BY <2>2 DEF DeleteStep, RemoveReturns, DeleteRow
  <2>3. CASE r \in Downloads /\ DownloadStep(r)
    BY <2>3 DEF DownloadStep, Check, Serve
  <2>4. CASE r \notin Uploads /\ ReadRow(r)
    BY <2>4 DEF ReadRow, Submit
  <2>5. CASE Commit(r)
    <3>1. r \in Uploads => \E i \in FileId : files'[i].key = r
      BY <2>5, CommittedRows DEF Commit
    <3> QED  BY <2>5, <3>1 DEF Commit
  <2>6. CASE ReadFails(r) \/ StatementFails(r)
    BY <2>6 DEF ReadFails, StatementFails
  <2>7. CASE Rollback(r)
    BY <2>7 DEF Rollback, Submit
  <2>8. CASE DrainReturns(r)
    BY <2>8 DEF DrainReturns, Unwind
  <2> QED  BY <2>1, <2>2, <2>3, <2>4, <2>5, <2>6, <2>7, <2>8 DEF Coroutine, CommonStep
<1>3. ASSUME NEW r \in Request, Thread(r) PROVE RemoversStep /\ AnswersStep
  BY <1>3, RequestStep, CallsOf, RequestsDisjoint
  DEF Thread, UploadThread, RemoveThread, ValidateEnd, PutOpen, PutEnd, PutError, RemoveEnd,
      RemoveError, requestVars, Calls, Call
<1>4. ASSUME NEW r \in Request, Cancel(r) PROVE RemoversStep /\ AnswersStep
  BY <1>4, RequestStep, CallsOf, RequestsDisjoint
  DEF Cancel, CancelStorage, CancelDatabase, CancelUncaught, Detach, Unwind, Goto, End, Handle,
      Calls, Call
<1>5. ASSUME NEW r \in Request, Crash(r) PROVE RemoversStep /\ AnswersStep
  BY <1>5, RequestStep, CallsOf, RequestsDisjoint
  DEF Crash, Kill, Unfinished, contextVars, Calls, Call
<1>6. CASE UserChange \/ UNCHANGED vars
  BY <1>6 DEF UserChange, vars, storageVars, requestVars, RemoversStep, AnswersStep
<1> QED  BY <1>1, <1>2, <1>3, <1>4, <1>5, <1>6 DEF Next

-----------------------------------------------------------------------------
(* An object that nobody has finished removing is there while its put      *)
(* writes, and complete once its put returned.                             *)
Untouched(u) ==
    /\ io[u]["remove"] = "idle"
    /\ \A d \in Removers(u) : io[d]["remove"] = "called"

WholeInv ==
    \A u \in Uploads : Untouched(u) =>
        /\ io[u]["put"] = "writing" => objects[u] = "partial"
        /\ io[u]["put"] = "ok" => objects[u] = "full"

(* At first no put was made.                                               *)
LEMMA WholeInit == Init => WholeInv
  BY DEF Init, StorageInit, WholeInv, Call, Request

(* Until a thread touches the object, and however a request goes on. *)
LEMMA WholeKept ==
  ASSUME TypeOK, WholeInv, RemoversStep, UNCHANGED objects,
         \A u \in Uploads :
           /\ io'[u]["remove"] = "idle" => io[u]["remove"] = "idle"
           /\ io'[u]["put"] \in {"writing", "ok"} => io'[u]["put"] = io[u]["put"]
  PROVE  WholeInv'
<1> SUFFICES ASSUME NEW u \in Uploads, Untouched(u)'
             PROVE  /\ io'[u]["put"] = "writing" => objects'[u] = "partial"
                    /\ io'[u]["put"] = "ok" => objects'[u] = "full"
  BY DEF WholeInv
<1>1. Untouched(u)
  BY NoKeyIsNoUpload DEF Untouched, Removers, RemoversStep
<1> QED  BY <1>1 DEF WholeInv

(* A thread that touches the object completes it or removes it.            *)
LEMMA WholeThread ==
  ASSUME TypeOK, WholeInv, RemoversStep, NEW r \in Request, Thread(r)
  PROVE  WholeInv'
<1> USE RequestsDisjoint DEF TypeOK, StorageTypeOK, Request, Call
<1>0. UNCHANGED requestVars
  BY DEF Thread
<1>1. CASE r \in Uploads /\ ValidateEnd(r)
  BY <1>1, WholeKept DEF ValidateEnd
<1>2. CASE r \in Uploads /\ (PutOpen(r) \/ PutEnd(r) \/ PutError(r, pc[r] = "done"))
  <2>1. \A u \in Uploads : Untouched(u)' => Untouched(u)
    BY <1>0, <1>2 DEF PutOpen, PutEnd, PutError, Untouched, Removers, requestVars
  <2>2. \A u \in Uploads \ {r} : io'[u] = io[u] /\ objects'[u] = objects[u]
    BY <1>2 DEF PutOpen, PutEnd, PutError
  <2>3. Untouched(r) => /\ io'[r]["put"] = "writing" => objects'[r] = "partial"
                        /\ io'[r]["put"] = "ok" => objects'[r] = "full"
    BY <1>2 DEF PutOpen, PutEnd, PutError, WholeInv
  <2> QED  BY <2>1, <2>2, <2>3 DEF WholeInv
<1>3. CASE r \notin Downloads /\ RemoveThread(r)
  <2>1. /\ io[r]["remove"] = "called"
        /\ io'[r]["remove"] \in {"ok", "error"}
        /\ \A q \in Request : io'[q]["put"] = io[q]["put"]
        /\ \A q \in Request \ {r} : io'[q] = io[q]
        /\ \A u \in Uploads : u # Key(r) => objects'[u] = objects[u]
    BY <1>3 DEF RemoveThread, RemoveEnd, RemoveError
  <2>2. ASSUME NEW u \in Uploads, Untouched(u)'
        PROVE  u # Key(r) /\ Untouched(u)
    BY <1>0, <1>3, <2>1, <2>2 DEF Untouched, Removers, Key, requestVars
  <2> QED  BY <2>1, <2>2 DEF WholeInv
<1> QED  BY <1>1, <1>2, <1>3 DEF Thread, UploadThread

(* WholeInv is inductive.                                                  *)
LEMMA WholeNext ==
  TypeOK /\ CallsInv /\ WholeInv /\ RemoversStep /\ [Next]_vars => WholeInv'
<1> SUFFICES ASSUME TypeOK, CallsInv, WholeInv, RemoversStep, [Next]_vars
             PROVE  WholeInv'
  OBVIOUS
<1> USE RequestsDisjoint, WholeKept DEF Request
<1>1. ASSUME NEW r \in Request, Arrive(r) PROVE WholeInv'
  BY <1>1, CallsOf
  DEF Arrive, StartUpload, StartRead, Submit, storageVars, Calls, Call
<1>2. ASSUME NEW r \in Request, Coroutine(r) PROVE WholeInv'
  <2> USE <1>2, CallsOf DEF Calls, storageVars, contextVars, Call
  <2>1. CASE r \in Uploads /\ UploadStep(r)
    BY <2>1 DEF UploadStep, ValidateReturns, PutReturns, Insert, CompensateReturns, Submit
  <2>2. CASE r \in Deletes /\ DeleteStep(r)
    BY <2>2 DEF DeleteStep, RemoveReturns, DeleteRow
  <2>3. CASE r \in Downloads /\ DownloadStep(r)
    BY <2>3 DEF DownloadStep, Check, Serve
  <2>4. CASE r \notin Uploads /\ ReadRow(r)
    BY <2>4 DEF ReadRow, Submit
  <2>5. CASE Commit(r) \/ ReadFails(r) \/ StatementFails(r) \/ DrainReturns(r)
    BY <2>5 DEF Commit, ReadFails, StatementFails, DrainReturns
  <2>6. CASE Rollback(r)
    BY <2>6 DEF Rollback, Submit
  <2> QED  BY <2>1, <2>2, <2>3, <2>4, <2>5, <2>6 DEF Coroutine, CommonStep
<1>3. ASSUME NEW r \in Request, Thread(r) PROVE WholeInv'
  BY <1>3, WholeThread
<1>4. ASSUME NEW r \in Request, Cancel(r) PROVE WholeInv'
  BY <1>4, CallsOf
  DEF Cancel, CancelStorage, CancelDatabase, CancelUncaught, Detach, Calls, Call
<1>5. ASSUME NEW r \in Request, Crash(r) PROVE WholeInv'
  BY <1>5, CallsOf DEF Crash, Kill, Unfinished, Calls, Call
<1>6. CASE UserChange \/ UNCHANGED vars
  BY <1>6 DEF UserChange, vars, storageVars, requestVars, WholeInv, Untouched, Removers
<1> QED  BY <1>1, <1>2, <1>3, <1>4, <1>5, <1>6 DEF Next

-----------------------------------------------------------------------------
(* The row of an acknowledged upload stays until its remover is done. *)
RowKept ==
    \A u \in Uploads : outcome[u] = "ok" =>
        u \in RowKeys \/ \E d \in Removers(u) : io[d]["remove"] = "ok"

(* At first nothing was acknowledged.                                      *)
LEMMA RowKeptInit == Init => RowKept
  BY DEF Init, RowKept, Request

(* A row goes only when its remover commits, after its remove.             *)
LEMMA RowKeptNext ==
  ASSUME TypeOK, Locked, RowInv, CallsInv, RowKept, RowsStep, RemoversStep, AnswersStep
  PROVE  RowKept'
<1> SUFFICES ASSUME NEW u \in Uploads, outcome'[u] = "ok"
             PROVE  (u \in RowKeys \/ \E d \in Removers(u) : io[d]["remove"] = "ok")'
  BY DEF RowKept
<1>1. CASE \E i \in FileId : files'[i].key = u
  BY <1>1, NoKeyIsNoUpload DEF RowKeys
<1>2. CASE \E d \in Removers(u) : io[d]["remove"] = "ok"
  BY <1>2, NoKeyIsNoUpload DEF Removers, RemoversStep
<1>3. CASE \E i \in FileId : files[i].key = u /\ files'[i].key # u
  <2>1. PICK i \in FileId : files[i].key = u /\ files'[i].key # u
    BY <1>3
  <2>2. CASE \E v \in Uploads : pc[v] = "committing" /\ i = file[v] /\ files'[i].key = v
    BY <2>1, <2>2, NoKeyIsNoUpload DEF RowInv
  <2>3. CASE \E d \in Deletes : pc[d] = "committing" /\ i = file[d] /\ files'[i].key = NoKey
    <3>1. PICK d \in Deletes : pc[d] = "committing" /\ i = file[d]
      BY <2>3
    <3>2. read[d].key = u
      BY <2>1, <3>1, NoKeyIsNoUpload DEF RowInv, Window
    <3>3. io[d]["remove"] = "ok"
      BY <3>1 DEF CallsInv, DeleteCalls
    <3> QED  BY <3>2, <3>3, <1>2 DEF Removers
  <2> QED  BY <2>1, <2>2, <2>3 DEF RowsStep
<1> QED  BY <1>1, <1>2, <1>3 DEF AnswersStep, RowKept, RowKeys

(* Whatever the cancellations, failures, crashes and interleavings: a 201  *)
(* is kept until a DELETE that was authorized on that very row takes the   *)
(* object, and with it the row, away.                                      *)
THEOREM AcknowledgedSurvives == Spec => []AckedSurvives
<1>1. CallsInv /\ WholeInv /\ RowKept => AckedSurvives
  BY DEF AckedSurvives, CallsInv, UploadCalls, WholeInv, Untouched, RowKept
<1> DEFINE IInv == TypeOK /\ Locked /\ RowInv /\ CallsInv /\ WholeInv /\ RowKept
<1>2. Init => IInv
  BY InitTypeOK, LockedInit, RowInvInit, CallsInit, WholeInit, RowKeptInit
<1>3. IInv /\ [Next]_vars => IInv'
  <2> SUFFICES ASSUME IInv, [Next]_vars PROVE IInv'
    OBVIOUS
  <2>1. TypeOK' /\ Locked' /\ RowInv' /\ CallsInv'
    BY NextTypeOK, LockedNext, RowInvNext, CallsNext
  <2>2. RowsStep /\ RemoversStep /\ AnswersStep
    BY RowsNext, AnswersNext
  <2> QED  BY <2>1, <2>2, WholeNext, RowKeptNext
<1>4. IInv => AckedSurvives
  BY <1>1
<1> QED  BY <1>2, <1>3, <1>4, PTL DEF Spec

-----------------------------------------------------------------------------
(* The object of a key, as its put left it. *)
ObjectInv ==
    \A u \in Uploads :
        /\ io[u]["put"] \in {"idle", "called"} => objects[u] = "absent"
        /\ io[u]["put"] = "writing" => objects[u] # "full"
        /\ io[u]["put"] = "ok" => objects[u] # "partial"

(* Where an upload stands once its commit was attempted, or never will be. *)
Past == {"rollback", "compensating", "compensateDrain", "done", "dead"}

Readers == Deletes \cup Downloads

(* Upload u put its object and is past the commit of its row, under id i.  *)
Settled(u, i) == pc[u] \in Past /\ io[u]["put"] = "ok" /\ file[u] = i

(* A row, and a row that was read, is that of a settled upload.            *)
KeyInv ==
    /\ \A i \in FileId : files[i].key \in Uploads => Settled(files[i].key, i)
    /\ \A r \in Readers : read[r].key \in Uploads => Settled(read[r].key, file[r])

(* What a DELETE or a download has read, and when.                         *)
ReaderLoads(r) ==
    /\ pc[r] \in {"new", "reading"} => read[r].key = NoKey
    /\ pc[r] \in Window \cup Serving => read[r].key # NoKey
    /\ r \in Deletes /\ outcome[r] = "ok" =>
         pc[r] = "done" /\ io[r]["remove"] = "ok" /\ read[r].key # NoKey

(* A removed row does not come back.                                       *)
WithdrawnInv == \A d \in Deletes : outcome[d] = "ok" => read[d].key \notin RowKeys

(* A second cancellation reached the except clause or the drained put.     *)
Interrupted(u) == cancels[u] > (IF raised[u] = "error" THEN 0 ELSE 1)
Abandoned(u) == raised[u] = "cancelled" /\ cancels[u] > 1

Excused(u) == <<"upload_compensation_failed", u>> \in logged \/ Interrupted(u)

(* How an upload gets to its end, with how many cancellations.             *)
UploadEnds(u) ==
    /\ pc[u] \notin Serving
    /\ pc[u] \in {"rollback", "compensating", "compensateDrain"} => raised[u] # "none"
    /\ raised[u] = "cancelled" => cancels[u] > 0
    /\ pc[u] \in {"validateDrain", "putDrain"} => cancels[u] > 0
    /\ pc[u] = "compensateDrain" => Interrupted(u)
    /\ Unfinished(u, "put") => pc[u] \in {"putting", "putDrain"} \/ Abandoned(u)
    /\ Unfinished(u, "validate") => pc[u] \in {"validating", "validateDrain"} \/ cancels[u] > 1
    /\ pc[u] = "done" =>
         outcome[u] = "ok" \/ io[u]["put"] = "idle" \/ io[u]["remove"] = "ok" \/ Excused(u)

EndsInv ==
    /\ \A u \in Uploads : UploadEnds(u)
    /\ \A r \in Readers : ReaderLoads(r)

(* What was removed stays away, but for a put nobody waits for.            *)
GoneInv ==
    \A u \in Uploads :
        /\ io[u]["remove"] = "ok" => objects[u] = "absent" \/ Abandoned(u)
        /\ \A d \in Removers(u) : io[d]["remove"] = "ok" => objects[u] = "absent"

(* The account an actor was authenticated as is the only one its id names. *)
Known(a) == a.id \in 1..userSeq /\ a.acct # 0 /\ users[a.id] \in {0, a.acct}

OwnerInv ==
    /\ \A i \in UserId : users[i] # 0 => i <= userSeq
    /\ \A r \in Request : actor[r] = Anonymous \/ Known(actor[r])
    /\ \A u \in Uploads : pc[u] # "new" => actor[u] # Anonymous
    /\ \A u \in Uploads : pc[u] = "committing" => users[actor[u].id] # 0
    /\ \A i \in FileId : files[i].owner # 0 =>
         /\ files[i].key \in Uploads
         /\ files[i].owner = actor[files[i].key].id
         /\ users[files[i].owner] # 0

-----------------------------------------------------------------------------
(* How one step moves a request. *)
RequestMoves(r) ==
    /\ pc[r] \in Past => pc'[r] \in Past /\ raised'[r] = raised[r]
    /\ pc[r] \notin {"new", "inserting"} => file'[r] = file[r]
    /\ cancels'[r] \in {cancels[r], cancels[r] + 1}
    /\ pc'[r] = "new" => pc[r] = "new"
    /\ io[r]["put"] = "ok" => io'[r]["put"] = "ok"
    /\ IF pc[r] = "new" /\ pc'[r] # "new"
       THEN \/ r \in Downloads /\ actor'[r] = Anonymous
            \/ \E i \in LiveUsers : actor'[r] = Snapshot(i)
       ELSE actor'[r] = actor[r]
    /\ r \in Uploads /\ pc'[r] = "committing" =>
         pc[r] = "committing" \/ (pc[r] = "inserting" /\ users[actor[r].id] # 0)
    /\ r \in Readers =>
         \/ read'[r] = read[r] /\ (pc[r] # "new" => file'[r] = file[r])
         \/ /\ pc[r] = "reading" /\ file'[r] = file[r]
            /\ read'[r] = files[file[r]]
            /\ Authorized(r, files[file[r]])
    /\ r \in Deletes /\ outcome'[r] = "ok" =>
         outcome[r] = "ok" \/ (pc[r] = "committing" /\ files' = Committed(r))

MovesStep == \A r \in Request : RequestMoves(r)

(* A step of r moves nobody else. *)
LEMMA MovesOne ==
  ASSUME NEW r \in Request, RequestMoves(r),
         \A q \in Request \ {r} : /\ pc'[q] = pc[q] /\ file'[q] = file[q] /\ io'[q] = io[q]
                                  /\ actor'[q] = actor[q] /\ read'[q] = read[q]
                                  /\ raised'[q] = raised[q] /\ cancels'[q] = cancels[q]
                                  /\ outcome'[q] = outcome[q],
         cancels \in [Request -> Nat]
  PROVE  MovesStep
  BY DEF MovesStep, RequestMoves

(* Every step is a MovesStep.                                              *)
LEMMA MovesNext == TypeOK /\ CallsInv /\ [Next]_vars => MovesStep
<1> SUFFICES ASSUME TypeOK, CallsInv, [Next]_vars PROVE MovesStep
  OBVIOUS
<1>0. /\ pc \in [Request -> PC] /\ file \in [Request -> 0..MaxFiles]
      /\ read \in [Request -> Row] /\ io \in [Request -> [Call -> IoState]]
      /\ raised \in [Request -> Exception] /\ outcome \in [Request -> Outcome]
      /\ cancels \in [Request -> Nat] /\ DOMAIN actor = Request
  BY MaxCancelsIsNat DEF TypeOK, ControlTypeOK, ContextTypeOK, StorageTypeOK
<1> USE <1>0, MovesOne, RequestsDisjoint
    DEF RequestMoves, Past, Readers, Goto, End, Handle, Submit, storageVars, contextVars, Call
<1>1. ASSUME NEW r \in Request, Arrive(r) PROVE MovesStep
  <2>1. CASE r \in Uploads
    BY <1>1, <2>1, SMTT(30) DEF Arrive, StartUpload
  <2>2. CASE r \notin Uploads
    BY <1>1, <2>2 DEF Arrive, StartRead, Request
  <2> QED  BY <2>1, <2>2
<1>2. ASSUME NEW r \in Request, Coroutine(r) PROVE MovesStep
  <2>1. CASE r \in Uploads /\ (ValidateReturns(r) \/ PutReturns(r) \/ CompensateReturns(r))
    BY <2>1, CallsOf, SMTT(30) DEF ValidateReturns, PutReturns, CompensateReturns, Calls, UploadCalls, Early
  <2>2. CASE r \in Uploads /\ Insert(r)
    BY <2>2 DEF Insert
  <2>3. CASE r \in Deletes /\ DeleteStep(r)
    BY <2>3 DEF DeleteStep, RemoveReturns, DeleteRow
  <2>4. CASE r \in Downloads /\ DownloadStep(r)
    BY <2>4 DEF DownloadStep, Check, Serve
  <2>5. CASE r \notin Uploads /\ ReadRow(r)
    BY <2>5, SMTT(30) DEF ReadRow
  <2>6. CASE Commit(r) \/ ReadFails(r) \/ StatementFails(r)
    BY <2>6, SMTT(30) DEF Commit, ReadFails, StatementFails
  <2>7. CASE Rollback(r)
    BY <2>7 DEF Rollback, Exception
  <2>8. CASE DrainReturns(r)
    BY <2>8 DEF DrainReturns, Unwind, Drains
  <2> QED  BY <1>2, <2>1, <2>2, <2>3, <2>4, <2>5, <2>6, <2>7, <2>8
           DEF Coroutine, UploadStep, CommonStep
<1>3. ASSUME NEW r \in Request, Thread(r) PROVE MovesStep
  BY <1>3
  DEF Thread, UploadThread, RemoveThread, ValidateEnd, PutOpen, PutEnd, PutError, RemoveEnd,
      RemoveError, Unfinished, requestVars
<1>4. ASSUME NEW r \in Request, Cancel(r) PROVE MovesStep
  <2>1. RequestMoves(r)
    BY <1>4
    DEF Cancel, CancelStorage, CancelDatabase, CancelUncaught, Detach, Unwind, Waits, Drains,
        DrainOf, Serving
  <2> QED
    BY <1>4, <2>1
    DEF Cancel, CancelStorage, CancelDatabase, CancelUncaught, Detach, Unwind
<1>5. ASSUME NEW r \in Request, Crash(r) PROVE MovesStep
  BY <1>5 DEF Crash, Kill, Unfinished
<1>6. CASE UserChange \/ UNCHANGED vars
  BY <1>6 DEF UserChange, vars, requestVars, MovesStep
<1> QED  BY <1>1, <1>2, <1>3, <1>4, <1>5, <1>6 DEF Next

-----------------------------------------------------------------------------
(* At first nothing was called, read or cancelled.                         *)
LEMMA EndsInit == Init => EndsInv
  BY RequestsDisjoint
  DEF Init, StorageInit, NoRow, Request, EndsInv, UploadEnds, ReaderLoads, Readers, Unfinished,
      Window, Loaded, Serving, Call

(* A step of r reaches only what EndsInv says of r; log entries stay. *)
LEMMA EndsKept ==
  ASSUME EndsInv, NEW r \in Request, logged \subseteq logged',
         \A q \in Request \ {r} : /\ pc'[q] = pc[q] /\ io'[q] = io[q] /\ outcome'[q] = outcome[q]
                                  /\ raised'[q] = raised[q] /\ cancels'[q] = cancels[q]
                                  /\ read'[q] = read[q],
         r \in Uploads => UploadEnds(r)',
         r \in Readers => ReaderLoads(r)'
  PROVE  EndsInv'
<1>1. ASSUME NEW u \in Uploads PROVE UploadEnds(u)'
  <2>1. CASE u = r
    BY <2>1
  <2>2. CASE u # r
    BY <2>2 DEF Request, EndsInv, UploadEnds, Interrupted, Abandoned, Excused, Unfinished
  <2> QED  BY <2>1, <2>2
<1>2. ASSUME NEW d \in Readers PROVE ReaderLoads(d)'
  <2>1. CASE d = r
    BY <2>1
  <2>2. CASE d # r
    BY <2>2 DEF Request, Readers, EndsInv, ReaderLoads
  <2> QED  BY <2>1, <2>2
<1> QED  BY <1>1, <1>2 DEF EndsInv

(* What the cases below need of the types and of a request r. *)
Course(r) ==
    /\ Calls(r)
    /\ cancels \in [Request -> Nat]
    /\ r \in Uploads => UploadEnds(r)
    /\ r \in Readers => ReaderLoads(r)

(* Course holds of every request.                                          *)
LEMMA CourseOf ==
  ASSUME TypeOK, CallsInv, EndsInv, NEW r \in Request PROVE Course(r)
<1>1. cancels \in [Request -> Nat]
  BY MaxCancelsIsNat DEF TypeOK, ContextTypeOK
<1> QED  BY <1>1, CallsOf DEF EndsInv, Course

(* The steps of the coroutine of r.                                        *)
LEMMA EndsCoroutine ==
  ASSUME EndsInv, NEW r \in Request, Course(r), Coroutine(r)
  PROVE  EndsInv'
<1> USE RequestsDisjoint, EndsKept
    DEF Goto, End, Handle, Course, Calls, UploadCalls, DeleteCalls, Early, BeforeCommit, DeleteOnly,
        UploadEnds, ReaderLoads, Readers, Unfinished, Interrupted, Abandoned, Excused, Window,
        Loaded, Serving, storageVars, contextVars, Call
<1>1. CASE r \in Uploads /\ ValidateReturns(r)
  <2>1. UploadEnds(r)'
    BY <1>1 DEF ValidateReturns, Submit
  <2> QED  BY <1>1, <2>1 DEF ValidateReturns, Submit
<1>2. CASE r \in Uploads /\ PutReturns(r)
  BY <1>2, ZenonT(60) DEF PutReturns
<1>3. CASE r \in Uploads /\ Insert(r)
  BY <1>3 DEF Insert
<1>4. CASE r \in Uploads /\ CompensateReturns(r)
  BY <1>4 DEF CompensateReturns, Exception, Returned, Log, Key
<1>5. CASE r \in Deletes /\ DeleteStep(r)
  BY <1>5 DEF DeleteStep, RemoveReturns, DeleteRow
<1>6. CASE r \in Downloads /\ DownloadStep(r)
  BY <1>6 DEF DownloadStep, Check, Serve
<1>7. CASE r \notin Uploads /\ ReadRow(r)
  BY <1>7, ZenonT(40) DEF ReadRow, Submit
<1>8. CASE Commit(r)
  BY <1>8 DEF Commit
<1>9. CASE ReadFails(r)
  <2>1. (r \in Uploads => UploadEnds(r)') /\ (r \in Readers => ReaderLoads(r)')
    BY <1>9 DEF ReadFails
  <2> QED  BY <1>9, <2>1 DEF ReadFails
<1>10. CASE StatementFails(r)
  BY <1>10 DEF StatementFails, LogDangling, Log
<1>11. CASE Rollback(r)
  <2>1. (r \in Uploads => UploadEnds(r)') /\ (r \in Readers => ReaderLoads(r)')
    BY <1>11 DEF Rollback, Submit, Exception, Log
  <2> QED  BY <1>11, <2>1 DEF Rollback, Submit, Log
<1>12. CASE DrainReturns(r)
  <2>1. pc[r] \in {"validateDrain", "putDrain", "compensateDrain", "removeDrain"}
    BY <1>12 DEF DrainReturns, Drains
  <2> QED  BY <1>12, <2>1 DEF DrainReturns, Unwind, Returned, Drains
<1> QED
  BY <1>1, <1>2, <1>3, <1>4, <1>5, <1>6, <1>7, <1>8, <1>9, <1>10, <1>11, <1>12
  DEF Coroutine, UploadStep, CommonStep

(* A thread of r.                                                          *)
LEMMA EndsThread ==
  ASSUME EndsInv, NEW r \in Request, Course(r), Thread(r)
  PROVE  EndsInv'
  BY RequestsDisjoint, EndsKept
  DEF Thread, UploadThread, RemoveThread, ValidateEnd, PutOpen, PutEnd, PutError, RemoveEnd,
      RemoveError, Unfinished, requestVars, Course, Calls, UploadCalls, DeleteCalls, Early,
      BeforeCommit, DeleteOnly, UploadEnds, ReaderLoads, Readers, Interrupted, Abandoned, Excused,
      Call

(* A cancellation of r.                                                    *)
LEMMA EndsCancel ==
  ASSUME EndsInv, NEW r \in Request, Course(r), Cancel(r)
  PROVE  EndsInv'
<1> USE RequestsDisjoint, EndsKept
    DEF Goto, End, Handle, Course, Calls, UploadCalls, DeleteCalls, Early, BeforeCommit, DeleteOnly,
        UploadEnds, ReaderLoads, Readers, Unfinished, Interrupted, Abandoned, Excused, Window,
        Loaded, Serving, Exception, Call
<1>1. CASE CancelDatabase(r)
  BY <1>1 DEF Cancel, CancelDatabase, LogDangling, Log
<1>2. CASE CancelUncaught(r)
  <2>1. (r \in Uploads => UploadEnds(r)') /\ (r \in Readers => ReaderLoads(r)')
    BY <1>2 DEF Cancel, CancelUncaught
  <2> QED  BY <1>2, <2>1 DEF Cancel, CancelUncaught
<1>3. CASE pc[r] \in DOMAIN Waits /\ Goto(r, DrainOf[pc[r]]) /\ UNCHANGED <<io, logged>>
  <2>1. pc[r] \in {"validating", "putting", "compensating", "removing"}
    BY <1>3 DEF Waits
  <2> QED  BY <1>3, <2>1 DEF Cancel, DrainOf
<1>4. CASE pc[r] \in DOMAIN Drains /\ Detach(r, Drains[pc[r]]) /\ Unwind(r) /\ UNCHANGED logged
  <2>1. (r \in Uploads => UploadEnds(r)') /\ (r \in Readers => ReaderLoads(r)')
    <3>1. CASE pc[r] = "validateDrain"
      <4>1. Drains[pc[r]] = "validate"  BY <3>1 DEF Drains
      <4> QED  BY <1>4, <3>1, <4>1 DEF Cancel, Unwind, Detach
    <3>2. CASE pc[r] = "putDrain"
      <4>1. Drains[pc[r]] = "put"  BY <3>2 DEF Drains
      <4> QED  BY <1>4, <3>2, <4>1 DEF Cancel, Unwind, Detach
    <3>3. CASE pc[r] \in {"compensateDrain", "removeDrain"}
      <4>1. Drains[pc[r]] = "remove"  BY <3>3 DEF Drains
      <4> QED  BY <1>4, <3>3, <4>1 DEF Cancel, Unwind, Detach
    <3> QED  BY <1>4, <3>1, <3>2, <3>3 DEF Drains
  <2> QED  BY <1>4, <2>1 DEF Cancel, Unwind, Detach
<1> QED  BY <1>1, <1>2, <1>3, <1>4 DEF Cancel, CancelStorage

(* EndsInv is inductive.                                                   *)
LEMMA EndsNext == TypeOK /\ CallsInv /\ EndsInv /\ [Next]_vars => EndsInv'
<1> SUFFICES ASSUME TypeOK, CallsInv, EndsInv, [Next]_vars PROVE EndsInv'
  OBVIOUS
<1> USE DEF Course, Calls, UploadEnds, ReaderLoads, Unfinished, Interrupted, Abandoned, Excused,
            Window, Loaded, Serving, Readers
<1>1. ASSUME NEW r \in Request, Arrive(r) PROVE EndsInv'
  <2> USE <1>1, CourseOf, RequestsDisjoint
      DEF Arrive, StartUpload, StartRead, Goto, Submit, storageVars, Request, Call
  <2>1. (r \in Uploads => UploadEnds(r)') /\ (r \in Readers => ReaderLoads(r)')
    BY DEF UploadCalls, Early, BeforeCommit
  <2> QED  BY <2>1, EndsKept
<1>2. ASSUME NEW r \in Request, Coroutine(r) \/ Thread(r) \/ Cancel(r) PROVE EndsInv'
  BY <1>2, CourseOf, EndsCoroutine, EndsThread, EndsCancel
<1>3. ASSUME NEW r \in Request, Crash(r) PROVE EndsInv'
  <2> USE <1>3, CourseOf, RequestsDisjoint DEF Crash, Kill, contextVars, Ended, Call
  <2>1. (r \in Uploads => UploadEnds(r)') /\ (r \in Readers => ReaderLoads(r)')
    BY DEF UploadCalls
  <2> QED  BY <2>1, EndsKept
<1>4. CASE UserChange \/ UNCHANGED vars
  BY <1>4 DEF UserChange, vars, storageVars, requestVars, EndsInv
<1> QED  BY <1>1, <1>2, <1>3, <1>4 DEF Next

(* What a step may do to the rows: a commit, or a change of the users.     *)
RowsChange ==
    \/ UNCHANGED files
    \/ UserChange
    \/ \E r \in Request :
         /\ pc[r] = "committing" /\ pc'[r] \in Past
         /\ files' = Committed(r)
         /\ UNCHANGED objects /\ \A u \in Uploads : io'[u]["put"] = io[u]["put"]

(* Every step is a RowsChange.                                             *)
LEMMA RowsChangeNext == TypeOK /\ CallsInv /\ [Next]_vars => RowsChange
<1> SUFFICES ASSUME TypeOK, CallsInv, [Next]_vars PROVE RowsChange
  OBVIOUS
<1>0. pc \in [Request -> PC] /\ io \in [Request -> [Call -> IoState]]
  BY DEF TypeOK, ControlTypeOK, StorageTypeOK
<1>1. ASSUME NEW r \in Request, files' # files,
             Arrive(r) \/ Coroutine(r) \/ Thread(r) \/ Cancel(r) \/ Crash(r)
      PROVE  /\ pc[r] = "committing" /\ pc'[r] \in Past /\ files' = Committed(r)
             /\ UNCHANGED objects /\ \A u \in Uploads : io'[u]["put"] = io[u]["put"]
  <2> USE <1>0 DEF Goto, End, Handle, Past
  <2>1. CASE Arrive(r)
    BY <1>1, <2>1 DEF Arrive, StartUpload, StartRead, databaseVars
  <2>2. CASE Coroutine(r)
    BY <1>1, <2>2
    DEF Coroutine, UploadStep, ValidateReturns, PutReturns, Insert, CompensateReturns, DeleteStep,
        RemoveReturns, DeleteRow, DownloadStep, Check, Serve, ReadRow, CommonStep, Commit,
        StatementFails, CommitUnknown, ReadFails, Rollback, DrainReturns, databaseVars, databaseKept,
        storageVars
  <2>3. CASE Thread(r)
    BY <1>1, <2>3 DEF Thread, databaseVars
  <2>4. CASE Cancel(r)
    BY <1>1, <2>4 DEF Cancel, CancelStorage, CancelDatabase, CancelUncaught, CommitUnknown
  <2>5. CASE Crash(r)
    <3>1. pc[r] = "committing" /\ io' = [io EXCEPT ![r] =
             [c \in Call |-> IF Unfinished(r, c) THEN "dead" ELSE io[r][c]]]
      BY <1>1, <2>5 DEF Crash, Kill
    <3>2. r \in Uploads => io[r]["put"] = "ok"
      BY <3>1 DEF CallsInv, UploadCalls
    <3> QED  BY <1>1, <2>5, <3>1, <3>2 DEF Crash, Unfinished, Request, Call
  <2> QED  BY <1>1, <2>1, <2>2, <2>3, <2>4, <2>5
<1> QED  BY <1>1 DEF Next, RowsChange, vars, databaseVars

(* What a step may do to the object of k. *)
ObjectMoves(k) ==
    \/ io'[k]["put"] = io[k]["put"] /\ objects'[k] = objects[k]
    \/ io[k]["put"] = "idle" /\ io'[k]["put"] = "called" /\ objects'[k] = objects[k]
    \/ Unfinished(k, "put") /\ io'[k]["put"] = "dead" /\ objects'[k] = objects[k]
    \/ /\ io[k]["put"] = "called" /\ io'[k]["put"] = "writing"
       /\ objects[k] = "absent" /\ objects'[k] = "partial"
    \/ /\ io[k]["put"] = "writing" /\ io'[k]["put"] = "ok"
       /\ objects'[k] = IF objects[k] = "partial" THEN "full" ELSE objects[k]
    \/ /\ Unfinished(k, "put") /\ io'[k]["put"] = "error"
       /\ objects'[k] \in {objects[k], "absent"}
    \/ io'[k]["put"] = io[k]["put"] /\ objects'[k] = "absent"

(* One object at most, and a removal that returns has removed.             *)
ObjectsStep ==
    /\ \E k \in Uploads \cup {NoKey} :
         /\ k \in Uploads => ObjectMoves(k)
         /\ \A u \in Uploads \ {k} :
              io'[u]["put"] = io[u]["put"] /\ objects'[u] = objects[u]
    /\ \A r \in Request : io'[r]["remove"] = "ok" =>
         \/ io[r]["remove"] = "ok"
         \/ io[r]["remove"] = "called" /\ (Key(r) \in Uploads => objects'[Key(r)] = "absent")

(* A step of r that touches only the put of r. *)
LEMMA ObjectsOne ==
  ASSUME NEW r \in Request, UNCHANGED objects \/ r \in Uploads,
         \A q \in Request \ {r} : io'[q] = io[q],
         io'[r]["remove"] = "ok" => io[r]["remove"] = "ok",
         r \in Uploads => ObjectMoves(r) /\ \A u \in Uploads \ {r} : objects'[u] = objects[u]
  PROVE  ObjectsStep
<1>1. CASE r \in Uploads
  BY <1>1 DEF ObjectsStep, Request
<1>2. CASE r \notin Uploads
  BY <1>2, NoKeyIsNoUpload DEF ObjectsStep, Request
<1> QED  BY <1>1, <1>2

(* Every step is an ObjectsStep.                                           *)
LEMMA ObjectsNext == TypeOK /\ CallsInv /\ [Next]_vars => ObjectsStep
<1> SUFFICES ASSUME TypeOK, CallsInv, [Next]_vars PROVE ObjectsStep
  OBVIOUS
<1>0. /\ io \in [Request -> [Call -> IoState]] /\ objects \in [Uploads -> ObjectState]
      /\ pc \in [Request -> PC]
  BY DEF TypeOK, StorageTypeOK, ControlTypeOK
<1> USE <1>0, RequestsDisjoint
    DEF ObjectMoves, Unfinished, Submit, storageVars, Call
<1>1. ASSUME NEW r \in Request, Arrive(r) PROVE ObjectsStep
  BY <1>1, ObjectsOne DEF Arrive, StartUpload, StartRead
<1>2. ASSUME NEW r \in Request, Coroutine(r) PROVE ObjectsStep
  <2>1. CASE r \in Uploads /\ UploadStep(r)
    BY <2>1, ObjectsOne, CallsOf
    DEF UploadStep, ValidateReturns, PutReturns, Insert, CompensateReturns, Calls, UploadCalls, Early
  <2>2. CASE r \in Deletes /\ DeleteStep(r)
    BY <2>2, ObjectsOne DEF DeleteStep, RemoveReturns, DeleteRow
  <2>3. CASE r \in Downloads /\ DownloadStep(r)
    BY <2>3, ObjectsOne DEF DownloadStep, Check, Serve
  <2>4. CASE r \notin Uploads /\ ReadRow(r)
    BY <2>4, ObjectsOne DEF ReadRow
  <2>5. CASE Commit(r) \/ ReadFails(r) \/ StatementFails(r) \/ DrainReturns(r)
    BY <2>5, ObjectsOne DEF Commit, ReadFails, StatementFails, DrainReturns
  <2>6. CASE Rollback(r)
    BY <2>6, ObjectsOne DEF Rollback
  <2> QED  BY <1>2, <2>1, <2>2, <2>3, <2>4, <2>5, <2>6 DEF Coroutine, CommonStep
<1>3. ASSUME NEW r \in Request, Thread(r) PROVE ObjectsStep
  <2>1. CASE r \in Uploads /\ UploadThread(r)
    BY <2>1, ObjectsOne DEF UploadThread, ValidateEnd, PutOpen, PutEnd, PutError
  <2>2. CASE r \notin Downloads /\ RemoveThread(r)
    <3>1. /\ \A u \in Uploads : io'[u]["put"] = io[u]["put"]
          /\ \A u \in Uploads \ {Key(r)} : objects'[u] = objects[u]
          /\ Key(r) \in Uploads => objects'[Key(r)] \in {objects[Key(r)], "absent"}
          /\ io[r]["remove"] = "called"
          /\ io'[r]["remove"] = "ok" /\ Key(r) \in Uploads => objects'[Key(r)] = "absent"
          /\ \A q \in Request \ {r} : io'[q] = io[q]
      BY <2>2 DEF RemoveThread, RemoveEnd, RemoveError, Request
    <3>2. Key(r) \in Uploads \cup {NoKey}
      BY DEF Key, TypeOK, ContextTypeOK, Row
    <3> QED  BY <3>1, <3>2 DEF ObjectsStep
  <2> QED  BY <1>3, <2>1, <2>2 DEF Thread
<1>4. ASSUME NEW r \in Request, Cancel(r) PROVE ObjectsStep
  BY <1>4, ObjectsOne
  DEF Cancel, CancelStorage, CancelDatabase, CancelUncaught, Detach, Drains
<1>5. ASSUME NEW r \in Request, Crash(r) PROVE ObjectsStep
  BY <1>5, ObjectsOne DEF Crash, Kill
<1>6. CASE UserChange \/ UNCHANGED vars
  BY <1>6, NoKeyIsNoUpload DEF UserChange, vars, ObjectsStep
<1> QED  BY <1>1, <1>2, <1>3, <1>4, <1>5, <1>6 DEF Next

-----------------------------------------------------------------------------
(* The invariants, from what a step does. *)

(* At first there is no object, no row, no reader, and every actor is      *)
(* anonymous.                                                              *)
LEMMA GuaranteesInit == Init => ObjectInv /\ KeyInv /\ WithdrawnInv /\ GoneInv /\ OwnerInv
<1> SUFFICES ASSUME Init PROVE ObjectInv /\ KeyInv /\ WithdrawnInv /\ GoneInv /\ OwnerInv
  OBVIOUS
<1> USE DEF Init, StorageInit, DatabaseInit, Request, Call
<1>1. ObjectInv
  BY DEF ObjectInv
<1>2. KeyInv
  BY NoKeyIsNoUpload DEF KeyInv, NoRow, Readers
<1>3. WithdrawnInv
  BY DEF WithdrawnInv
<1>4. GoneInv
  BY DEF GoneInv, Removers
<1>5. OwnerInv
  BY BoundsAreNat DEF OwnerInv, NoRow, UserId, Anonymous
<1> QED  BY <1>1, <1>2, <1>3, <1>4, <1>5

(* ObjectInv is inductive.                                                 *)
LEMMA ObjectInvNext ==
  ASSUME TypeOK, ObjectInv, ObjectsStep
  PROVE  ObjectInv'
<1>1. PICK k \in Uploads \cup {NoKey} :
        /\ k \in Uploads => ObjectMoves(k)
        /\ \A u \in Uploads \ {k} : io'[u]["put"] = io[u]["put"] /\ objects'[u] = objects[u]
  BY DEF ObjectsStep
<1>2. ASSUME NEW u \in Uploads
      PROVE  /\ io'[u]["put"] \in {"idle", "called"} => objects'[u] = "absent"
             /\ io'[u]["put"] = "writing" => objects'[u] # "full"
             /\ io'[u]["put"] = "ok" => objects'[u] # "partial"
  BY <1>1, <1>2 DEF ObjectInv, ObjectMoves, Unfinished
<1> QED  BY <1>2 DEF ObjectInv

(* A settled upload stays settled.                                         *)
LEMMA SettledStays ==
  ASSUME MovesStep, NEW u \in Uploads, NEW i, Settled(u, i)
  PROVE  Settled(u, i)'
  BY DEF Settled, MovesStep, RequestMoves, Request, Past

(* KeyInv is inductive.                                                    *)
LEMMA KeyInvNext ==
  ASSUME TypeOK, Locked, RowInv, CallsInv, EndsInv, KeyInv, RowsChange, MovesStep
  PROVE  KeyInv'
<1>1. ASSUME NEW i \in FileId, files'[i].key \in Uploads
      PROVE  Settled(files[i].key, i)'
  <2>1. CASE files'[i].key = files[i].key
    BY <1>1, <2>1, SettledStays DEF KeyInv
  <2>2. CASE files'[i].key # files[i].key
    <3>1. PICK r \in Request : /\ pc[r] = "committing" /\ pc'[r] \in Past
                               /\ files' = Committed(r)
      BY <2>2 DEF RowsChange, UserChange, CreateUser, DeleteUser, TypeOK, DatabaseTypeOK, Row
    <3>2. i = file[r] /\ r \in Uploads /\ files'[i].key = r
      BY <1>1, <2>2, <3>1, NoKeyIsNoUpload DEF Committed, NoRow, TypeOK, DatabaseTypeOK
    <3>3. io[r]["put"] = "ok"
      BY <3>1, <3>2 DEF CallsInv, UploadCalls
    <3> QED
      BY <3>1, <3>2, <3>3 DEF Settled, MovesStep, RequestMoves, Readers
  <2> QED  BY <2>1, <2>2
<1>2. ASSUME NEW r \in Readers, read'[r].key \in Uploads
      PROVE  Settled(read[r].key, file[r])'
  <2>1. r \in Request /\ r \notin Uploads
    BY RequestsDisjoint DEF Readers, Request
  <2>2. CASE read'[r] = read[r] /\ (pc[r] # "new" => file'[r] = file[r])
    <3>1. pc[r] # "new"
      BY <1>2, <2>2, NoKeyIsNoUpload DEF EndsInv, ReaderLoads
    <3> QED  BY <1>2, <2>2, <3>1, SettledStays DEF KeyInv
  <2>3. CASE pc[r] = "reading" /\ file'[r] = file[r] /\ read'[r] = files[file[r]]
    <3>1. file[r] \in FileId
      BY <2>1, <2>3 DEF TypeOK, Addressed
    <3> QED  BY <1>2, <2>3, <3>1, SettledStays DEF KeyInv
  <2> QED  BY <2>1, <2>2, <2>3 DEF MovesStep, RequestMoves
<1> QED  BY <1>1, <1>2 DEF KeyInv

(* A DELETE that commits withdraws the row of the key it read, and only    *)
(* uploads that have not committed get a row.                              *)
LEMMA WithdrawnInvNext ==
  ASSUME TypeOK, Locked, RowInv, EndsInv, KeyInv, WithdrawnInv, RowsStep, MovesStep
  PROVE  WithdrawnInv'
<1> SUFFICES ASSUME NEW d \in Deletes, outcome'[d] = "ok", NEW i \in FileId,
                    files'[i].key = read'[d].key, read'[d].key # NoKey
             PROVE  FALSE
  BY DEF WithdrawnInv, RowKeys
<1>1. d \in Request /\ d \in Readers /\ d \notin Uploads
  BY RequestsDisjoint DEF Request, Readers
<1>2. pc[d] \in {"done", "committing"}
  BY <1>1 DEF MovesStep, RequestMoves, EndsInv, ReaderLoads
<1>3. read'[d] = read[d] /\ read[d].key \in Uploads /\ pc[read[d].key] \in Past
      /\ file[read[d].key] = file[d]
  <2>1. read'[d] = read[d]
    BY <1>1, <1>2 DEF MovesStep, RequestMoves
  <2>2. read[d].key \in Uploads
    BY <1>1, <2>1 DEF TypeOK, ContextTypeOK, Row
  <2> QED  BY <1>1, <2>1, <2>2 DEF KeyInv, Settled
<1>4. files[i].key = read[d].key
  BY <1>3 DEF RowsStep, Past
<1>5. i = file[d]
  BY <1>3, <1>4 DEF KeyInv, Settled
<1>6. CASE outcome[d] = "ok"
  BY <1>3, <1>4, <1>6 DEF WithdrawnInv, RowKeys
<1>7. CASE files' = Committed(d)
  BY <1>1, <1>3, <1>5, <1>7, NoKeyIsNoUpload DEF Committed, NoRow, TypeOK, DatabaseTypeOK
<1> QED  BY <1>1, <1>6, <1>7 DEF MovesStep, RequestMoves

(* What was removed stays away.                                            *)
LEMMA GoneInvNext ==
  ASSUME TypeOK, CallsInv, EndsInv, KeyInv, GoneInv, ObjectsStep, MovesStep
  PROVE  GoneInv'
<1> DEFINE Left(u) == objects[u] # "absent" \/ objects'[u] = "absent"
<1>1. PICK k \in Uploads \cup {NoKey} :
        /\ k \in Uploads => ObjectMoves(k)
        /\ \A u \in Uploads \ {k} : io'[u]["put"] = io[u]["put"] /\ objects'[u] = objects[u]
  BY DEF ObjectsStep
<1>2. ASSUME NEW u \in Uploads PROVE io[u]["put"] = "called" \/ Left(u)
  BY <1>1 DEF ObjectMoves
<1>3. ASSUME NEW u \in Uploads, io'[u]["remove"] = "ok"
      PROVE  (objects[u] = "absent" \/ Abandoned(u))'
  <2>1. u \in Request /\ Key(u) = u
    BY DEF Request, Key
  <2>2. CASE io[u]["remove"] = "ok"
    <3>1. pc[u] \in Past
      BY <2>1, <2>2 DEF CallsInv, UploadCalls, EndsInv, UploadEnds, BeforeCommit, Early, DeleteOnly,
                   Serving, Past, TypeOK, ControlTypeOK, PC, Waits, Drains, DatabaseAwaits, Ended
    <3>2. Abandoned(u) => Abandoned(u)'
      BY <2>1, <3>1, MaxCancelsIsNat
      DEF Abandoned, MovesStep, RequestMoves, TypeOK, ContextTypeOK
    <3>3. io[u]["put"] = "called" => Abandoned(u)
      BY <3>1 DEF EndsInv, UploadEnds, Unfinished, Past
    <3> QED  BY <1>2, <2>2, <3>2, <3>3 DEF GoneInv
  <2>3. CASE io[u]["remove"] # "ok"
    BY <1>3, <2>1, <2>3 DEF ObjectsStep
  <2> QED  BY <2>2, <2>3
<1>4. ASSUME NEW u \in Uploads, NEW d \in Deletes, read'[d].key = u, io'[d]["remove"] = "ok"
      PROVE  objects'[u] = "absent"
  <2>1. d \in Request /\ d \in Readers /\ d \notin Uploads
    BY RequestsDisjoint DEF Request, Readers
  <2>2. read'[d] = read[d]
    BY <1>4, <2>1 DEF MovesStep, RequestMoves, ObjectsStep, CallsInv, DeleteCalls
  <2>3. CASE io[d]["remove"] = "ok"
    <3>1. objects[u] = "absent" /\ io[u]["put"] = "ok"
      BY <1>4, <2>1, <2>2, <2>3 DEF GoneInv, Removers, KeyInv, Settled
    <3> QED  BY <1>2, <3>1
  <2>4. CASE io[d]["remove"] # "ok"
    <3>1. Key(d) = u
      BY <1>4, <2>1, <2>2 DEF Key
    <3> QED  BY <1>4, <2>1, <2>4, <3>1 DEF ObjectsStep
  <2> QED  BY <2>3, <2>4
<1> QED  BY <1>3, <1>4 DEF GoneInv, Removers

(* The id an account had names it or nobody, and so the rows it owns.      *)
LEMMA OwnerInvNext ==
  ASSUME TypeOK, Locked, RowInv, KeyInv, OwnerInv, [Next]_vars, RowsChange, MovesStep
  PROVE  OwnerInv'
<1> USE DEF UserId
<1>0. /\ userSeq \in Nat /\ accounts \in Nat /\ userSeq <= accounts
      /\ users \in [UserId -> 0..MaxAccounts] /\ MaxAccounts \in Nat
      /\ files \in [FileId -> Row]
  BY BoundsAreNat DEF TypeOK, DatabaseTypeOK
<1>1. CASE UserChange
  <2>0. /\ UNCHANGED <<actor, pc>> /\ \A i \in FileId : files'[i].key = files[i].key
    BY <1>0, <1>1 DEF UserChange, CreateUser, DeleteUser, requestVars, Row
  <2>1. CASE CreateUser
    <3>1. /\ UNCHANGED files /\ userSeq' = userSeq + 1 /\ userSeq + 1 \in UserId
          /\ users' = [users EXCEPT ![userSeq + 1] = accounts + 1]
      BY <1>0, <2>1 DEF CreateUser, NextUserId
    <3>2. \A i \in 1..userSeq : users'[i] = users[i]
      BY <1>0, <3>1
    <3>3. \A i \in UserId : users'[i] # 0 => i <= userSeq'
      BY <1>0, <3>1 DEF OwnerInv
    <3>4. \A r \in Request : actor[r] = Anonymous \/ Known(actor[r])'
      BY <1>0, <2>0, <3>1, <3>2 DEF OwnerInv, Known
    <3>5. ASSUME NEW u \in Uploads, pc[u] = "committing" PROVE users'[actor[u].id] # 0
      BY <3>2, <3>5 DEF OwnerInv, Known, Request
    <3>6. ASSUME NEW i \in FileId, files[i].owner # 0 PROVE users'[files[i].owner] # 0
      BY <3>2, <3>6 DEF OwnerInv, Known, Request, Anonymous
    <3> QED  BY <2>0, <3>1, <3>3, <3>4, <3>5, <3>6 DEF OwnerInv
  <2>2. ASSUME NEW o \in UserId, DeleteUser(o, [q \in Request |-> actor[q].id], file)
        PROVE  OwnerInv'
    <3>1. /\ users' = [users EXCEPT ![o] = 0] /\ UNCHANGED userSeq
          /\ \A i \in FileId : files'[i].owner \in {0, files[i].owner} /\ files'[i].owner # o
      BY <1>0, <2>2 DEF DeleteUser, Row
    <3>2. ASSUME NEW u \in Uploads, pc[u] = "committing" PROVE actor[u].id # o
      <4>1. tx[u] = "insert"
        BY <3>2, RequestsDisjoint DEF Locked, Request
      <4> QED  BY <2>2, <4>1 DEF DeleteUser, Request
    <3>3. \A i \in UserId : users'[i] # 0 => i <= userSeq'
      BY <1>0, <3>1 DEF OwnerInv
    <3>4. \A r \in Request : actor[r] = Anonymous \/ Known(actor[r])'
      BY <1>0, <2>0, <3>1 DEF OwnerInv, Known
    <3>5. ASSUME NEW u \in Uploads, pc[u] = "committing" PROVE users'[actor[u].id] # 0
      BY <1>0, <3>1, <3>2, <3>5 DEF OwnerInv
    <3>6. ASSUME NEW i \in FileId, files'[i].owner # 0 PROVE users'[files'[i].owner] # 0
      BY <1>0, <3>1, <3>6 DEF OwnerInv
    <3> QED  BY <2>0, <3>1, <3>3, <3>4, <3>5, <3>6 DEF OwnerInv
  <2> QED  BY <1>1, <2>1, <2>2 DEF UserChange
<1>2. CASE ~UserChange
  <2>0. UNCHANGED <<users, userSeq>>
    BY <1>2
    DEF Next, Arrive, StartUpload, StartRead, Coroutine, UploadStep, ValidateReturns, PutReturns,
        Insert, CompensateReturns, DeleteStep, RemoveReturns, DeleteRow, DownloadStep, Check, Serve,
        ReadRow, CommonStep, Commit, StatementFails, ReadFails, Rollback, DrainReturns, Thread,
        Cancel, Crash, vars, databaseVars, databaseKept
  <2>1. ASSUME NEW r \in Request PROVE (actor[r] = Anonymous \/ Known(actor[r]))'
    <3>1. CASE actor'[r] = actor[r] \/ actor'[r] = Anonymous
      BY <2>0, <3>1 DEF OwnerInv, Known, Anonymous
    <3>2. ASSUME NEW i \in LiveUsers, actor'[r] = Snapshot(i)
          PROVE  Known(actor[r])'
      BY <1>0, <2>0, <3>2 DEF OwnerInv, Known, LiveUsers, Snapshot
    <3> QED  BY <3>1, <3>2 DEF MovesStep, RequestMoves
  <2>2. ASSUME NEW u \in Uploads, pc'[u] # "new" PROVE actor'[u] # Anonymous
    <3>1. u \in Request /\ u \notin Downloads
      BY RequestsDisjoint DEF Request
    <3>2. \A i \in LiveUsers : Snapshot(i).id # Anonymous.id
      BY <1>0 DEF LiveUsers, Snapshot, Anonymous
    <3> QED  BY <2>2, <3>1, <3>2 DEF OwnerInv, MovesStep, RequestMoves
  <2>3. ASSUME NEW u \in Uploads, pc'[u] = "committing" PROVE users'[actor'[u].id] # 0
    <3>1. u \in Request /\ pc[u] # "new"
      BY <2>3 DEF MovesStep, RequestMoves, Request
    <3> QED  BY <2>0, <2>3, <3>1 DEF OwnerInv, MovesStep, RequestMoves
  <2>4. ASSUME NEW i \in FileId, files'[i].owner # 0
        PROVE  /\ files'[i].key \in Uploads
               /\ files'[i].owner = actor'[files'[i].key].id
               /\ users'[files'[i].owner] # 0
    <3>1. CASE files'[i] = files[i]
      <4>1. files[i].key \in Uploads /\ files[i].key \in Request /\ pc[files[i].key] # "new"
        BY <2>4, <3>1 DEF OwnerInv, KeyInv, Settled, Past, Request
      <4> QED  BY <2>0, <2>4, <3>1, <4>1 DEF OwnerInv, MovesStep, RequestMoves
    <3>2. CASE files'[i] # files[i]
      <4>1. PICK r \in Request : pc[r] = "committing" /\ files' = Committed(r)
        BY <1>2, <3>2 DEF RowsChange
      <4>2. r \in Uploads /\ files'[i] = [key |-> r, owner |-> actor[r].id]
        BY <1>0, <2>4, <3>2, <4>1 DEF Committed, NoRow
      <4>3. actor'[r] = actor[r] /\ users[actor[r].id] # 0
        BY <4>1, <4>2 DEF OwnerInv, MovesStep, RequestMoves
      <4> QED  BY <2>0, <4>2, <4>3
    <3> QED  BY <3>1, <3>2
  <2> QED  BY <1>0, <2>0, <2>1, <2>2, <2>3, <2>4 DEF OwnerInv
<1> QED  BY <1>1, <1>2

-----------------------------------------------------------------------------
(* The inductive invariant of the file component. *)
FileInv ==
    /\ TypeOK /\ Locked /\ RowInv /\ CallsInv /\ WholeInv /\ RowKept
    /\ ObjectInv /\ KeyInv /\ EndsInv /\ WithdrawnInv /\ GoneInv /\ OwnerInv

(* FileInv is preserved by every step.                                     *)
LEMMA FileInvNext == FileInv /\ [Next]_vars => FileInv'
<1> SUFFICES ASSUME FileInv, [Next]_vars PROVE FileInv'
  OBVIOUS
<1> USE DEF FileInv
<1>1. TypeOK' /\ Locked' /\ RowInv' /\ CallsInv' /\ EndsInv'
  BY NextTypeOK, LockedNext, RowInvNext, CallsNext, EndsNext
<1>2. RowsStep /\ RemoversStep /\ AnswersStep /\ MovesStep /\ ObjectsStep /\ RowsChange
  BY RowsNext, AnswersNext, MovesNext, ObjectsNext, RowsChangeNext
<1>3. WholeInv' /\ RowKept' /\ ObjectInv' /\ KeyInv' /\ WithdrawnInv' /\ GoneInv' /\ OwnerInv'
  BY <1>2, WholeNext, RowKeptNext, ObjectInvNext, KeyInvNext, WithdrawnInvNext, GoneInvNext,
     OwnerInvNext
<1> QED  BY <1>1, <1>3

(* So it holds in every state.                                             *)
LEMMA FileInvAlways == Spec => []FileInv
<1>1. Init => FileInv
  BY InitTypeOK, LockedInit, RowInvInit, CallsInit, WholeInit, RowKeptInit, EndsInit,
     GuaranteesInit DEF FileInv
<1> QED  BY <1>1, FileInvNext, PTL DEF Spec

-----------------------------------------------------------------------------
(* The guarantees. *)

(* A download that the service lets through never sees a file that is      *)
(* still being written: its row came after the object was complete, and    *)
(* LocalStorage.put never opens a key twice.                               *)
THEOREM NoPartialServed == Spec => []NeverServesPartial
<1>1. FileInv => NeverServesPartial
  BY RequestsDisjoint
  DEF FileInv, NeverServesPartial, ObjectInv, KeyInv, Settled, EndsInv, ReaderLoads, Readers,
      TypeOK, ContextTypeOK, Row, Request
<1> QED  BY <1>1, FileInvAlways, PTL

(* Nothing that another request does later - a put a cancelled upload left *)
(* running, a second DELETE, a new upload under the same id - brings back  *)
(* the object or the row of a DELETE that answered 200.                    *)
THEOREM RemovalIsFinal == Spec => []RemovedIsGone
<1>1. ASSUME FileInv, NEW d \in Deletes, outcome[d] = "ok"
      PROVE  objects[read[d].key] = "absent" /\ read[d].key \notin RowKeys
  <2>1. io[d]["remove"] = "ok" /\ read[d].key \in Uploads
    BY <1>1 DEF FileInv, EndsInv, ReaderLoads, Readers, TypeOK, ContextTypeOK, Row, Request
  <2> QED  BY <1>1, <2>1 DEF FileInv, GoneInv, Removers, WithdrawnInv
<1>2. FileInv => RemovedIsGone
  BY <1>1 DEF RemovedIsGone
<1> QED  BY <1>2, FileInvAlways, PTL

(* An upload that failed leaves no object without a row unless its log or  *)
(* a further cancellation says so, wherever the faults and cancellations   *)
(* hit it and whatever its abandoned put thread still does.                *)
THEOREM OrphansExplained == Spec => []OrphanHasCause
<1>1. ASSUME FileInv, NEW u \in Uploads, pc[u] = "done", objects[u] # "absent", u \notin RowKeys
      PROVE  Excused(u)
  <2>1. /\ UploadEnds(u) /\ UploadCalls(u) /\ pc[u] = "done"
    BY <1>1 DEF FileInv, EndsInv, CallsInv
  <2>2. CASE outcome[u] = "ok"
    BY <1>1, <2>2 DEF FileInv, RowKept, GoneInv
  <2>3. CASE io[u]["put"] = "idle"
    BY <1>1, <2>3 DEF FileInv, ObjectInv
  <2>4. CASE io[u]["remove"] = "ok"
    BY <1>1, <2>4 DEF FileInv, GoneInv, Abandoned, Excused, Interrupted
  <2> QED  BY <2>1, <2>2, <2>3, <2>4 DEF UploadEnds
<1>2. FileInv => OrphanHasCause
  BY <1>1 DEF OrphanHasCause, Excused, Interrupted
<1> QED  BY <1>2, FileInvAlways, PTL

(* However accounts are deleted and created around the INSERT, a row names *)
(* its uploader or nobody.                                                 *)
THEOREM RowsKeepTheirOwner == Spec => []OwnerIsUploader
<1>1. ASSUME FileInv, NEW i \in FileId, files[i].owner # 0
      PROVE  users[files[i].owner] = actor[files[i].key].acct
  BY <1>1 DEF FileInv, OwnerInv, Known, Anonymous, Request
<1>2. FileInv => OwnerIsUploader
  BY <1>1 DEF OwnerIsUploader
<1> QED  BY <1>2, FileInvAlways, PTL

(* Only uploaders and administrators get to act on a private file: the     *)
(* check made on the row at its load stays true of that row.               *)
THEOREM OnlyOwnersAct == Spec => []OnlyForOwner
<1>1. Init => OnlyForOwner
  BY DEF Init, NoRow, OnlyForOwner, Request
<1>2. ASSUME FileInv, OnlyForOwner, [Next]_vars PROVE OnlyForOwner'
  <2>0. MovesStep
    BY <1>2, MovesNext DEF FileInv
  <2> SUFFICES ASSUME NEW r \in Readers, read'[r].key # NoKey
               PROVE  (\/ actor[r].acct \in {Administrator, actor[read[r].key].acct}
                       \/ r \in Downloads /\ read[r].key \in PublicUploads)'
    BY DEF OnlyForOwner, Readers
  <2>1. r \in Request /\ r \notin Uploads /\ r \in Deletes \cup Downloads
    BY RequestsDisjoint DEF Readers, Request
  <2>2. ASSUME NEW k \in Uploads, NEW i, Settled(k, i) PROVE actor'[k] = actor[k]
    BY <2>0, <2>2 DEF Settled, Past, MovesStep, RequestMoves, Request
  <2>3. CASE read'[r] = read[r]
    <3>1. pc[r] # "new" /\ read[r].key \in Uploads
      BY <1>2, <2>1, <2>3
      DEF FileInv, EndsInv, ReaderLoads, TypeOK, ContextTypeOK, Row
    <3>2. actor'[r] = actor[r] /\ actor'[read[r].key] = actor[read[r].key]
      BY <1>2, <2>0, <2>1, <2>2, <3>1 DEF MovesStep, RequestMoves, FileInv, KeyInv
    <3> QED  BY <1>2, <2>1, <2>3, <3>2 DEF OnlyForOwner
  <2>4. CASE pc[r] = "reading" /\ read'[r] = files[file[r]] /\ Authorized(r, files[file[r]])
    <3> DEFINE row == files[file[r]]
    <3>1. file[r] \in FileId /\ row.key \in Uploads
      BY <1>2, <2>1, <2>4
      DEF FileInv, TypeOK, Addressed, DatabaseTypeOK, Row
    <3>2. actor'[r] = actor[r] /\ actor'[row.key] = actor[row.key]
      BY <1>2, <2>0, <2>1, <2>2, <2>4, <3>1 DEF MovesStep, RequestMoves, FileInv, KeyInv
    <3>3. ASSUME actor[r] # Anonymous, actor[r].id = row.owner
          PROVE  actor[r].acct = actor[row.key].acct
      <4>1. Known(actor[r]) /\ row.owner # 0
        BY <1>2, <2>1, <3>3 DEF FileInv, OwnerInv, Known
      <4>2. /\ row.owner = actor[row.key].id /\ users[row.owner] # 0
            /\ Known(actor[row.key])
        BY <1>2, <3>1, <4>1 DEF FileInv, OwnerInv, Request, Anonymous
      <4> QED  BY <3>3, <4>1, <4>2 DEF Known
    <3> QED  BY <2>4, <3>2, <3>3 DEF Authorized
  <2> QED  BY <2>0, <2>1, <2>3, <2>4 DEF MovesStep, RequestMoves
<1> QED  BY <1>1, <1>2, FileInvAlways, PTL DEF Spec

(* As long as the server cancels a request at most once, the router closes *)
(* the upload stream only when no thread reads it any more.  A second      *)
(* cancellation breaks this: the violation run shows it.                   *)
THEOREM StreamStaysOpen ==
  ASSUME MaxCancels <= 1
  PROVE  Spec => []StreamOpenWhileRead
<1>1. ASSUME FileInv, NEW u \in Uploads, pc[u] = "done"
      PROVE  ~Unfinished(u, "validate") /\ ~Unfinished(u, "put")
  <2>1. cancels[u] \in 0..MaxCancels
    BY <1>1 DEF FileInv, TypeOK, ContextTypeOK, Request
  <2> QED  BY <1>1, <2>1, MaxCancelsIsNat DEF FileInv, EndsInv, UploadEnds, Abandoned
<1>2. FileInv => StreamOpenWhileRead
  BY <1>1 DEF StreamOpenWhileRead
<1> QED  BY <1>2, FileInvAlways, PTL

-----------------------------------------------------------------------------
(* The refinement: Life(k) and RowKeys move as FileLifecycle says. *)

(* The object of one key at most moves, and along its life.                *)
LEMMA LifeStep ==
  ASSUME ObjectInv, ObjectsStep, TypeOK, TypeOK'
  PROVE  \E k \in Uploads \cup {NoKey} :
           /\ \A u \in Uploads \ {k} : Life(u)' = Life(u)
           /\ k \in Uploads =>
                \/ Life(k)' = Life(k)
                \/ Life(k) = "none" /\ Life(k)' = "writing"
                \/ Life(k) = "writing" /\ Life(k)' = "stored"
                \/ Life(k)' = "removed"
<1>1. PICK k \in Uploads \cup {NoKey} :
        /\ k \in Uploads => ObjectMoves(k)
        /\ \A u \in Uploads \ {k} : io'[u]["put"] = io[u]["put"] /\ objects'[u] = objects[u]
  BY DEF ObjectsStep
<1>2. \A u \in Uploads \ {k} : Life(u)' = Life(u)
  BY <1>1 DEF Life
<1>3. ASSUME k \in Uploads
      PROVE  \/ Life(k)' = Life(k)
             \/ Life(k) = "none" /\ Life(k)' = "writing"
             \/ Life(k) = "writing" /\ Life(k)' = "stored"
             \/ Life(k)' = "removed"
  <2>1. objects[k] \in ObjectState /\ objects'[k] \in ObjectState
    BY <1>3 DEF TypeOK, StorageTypeOK
  <2> QED  BY <1>1, <1>3, <2>1 DEF ObjectInv, ObjectMoves, Unfinished, Life, ObjectState
<1> QED  BY <1>1, <1>2, <1>3

(* A commit publishes a stored object or withdraws a removed one.          *)
LEMMA CommitRefines ==
  ASSUME FileInv, NEW r \in Request, pc[r] = "committing", files' = Committed(r)
  PROVE  \/ RowKeys' = RowKeys
         \/ \E k \in Uploads :
              \/ Life(k) = "stored" /\ k \notin RowKeys /\ RowKeys' = RowKeys \cup {k}
              \/ Life(k) = "removed" /\ k \in RowKeys /\ RowKeys' = RowKeys \ {k}
<1>0. files \in [FileId -> Row]
  BY DEF FileInv, TypeOK, DatabaseTypeOK
<1>1. CASE r \in Uploads
  <2>1. file[r] \in FileId /\ files[file[r]].key = NoKey
    BY <1>1 DEF FileInv, RowInv
  <2>2. \A i \in FileId : files'[i].key = IF i = file[r] THEN r ELSE files[i].key
    BY <1>0, <1>1, <2>1 DEF Committed
  <2>3. RowKeys' = RowKeys \cup {r}
    BY <1>1, <2>1, <2>2, NoKeyIsNoUpload DEF RowKeys
  <2>4. r \notin RowKeys
    BY <1>1 DEF FileInv, KeyInv, Settled, Past, RowKeys
  <2>5. io[r]["put"] = "ok" /\ io[r]["remove"] = "idle"
    BY <1>1 DEF FileInv, CallsInv, UploadCalls, BeforeCommit
  <2>6. Removers(r) = {}
    BY <1>1 DEF FileInv, KeyInv, Settled, Past, Removers, Readers
  <2>7. Life(r) = "stored"
    BY <1>1, <2>5, <2>6 DEF FileInv, WholeInv, Untouched, Life
  <2> QED  BY <1>1, <2>3, <2>4, <2>7
<1>2. CASE r \in Deletes
  <2> DEFINE k == read[r].key
  <2>1. /\ r \notin Uploads /\ r \in Readers /\ file[r] \in FileId
        /\ k \in Uploads /\ files[file[r]].key \in {k, NoKey} /\ io[r]["remove"] = "ok"
    BY <1>2, RequestsDisjoint
    DEF FileInv, TypeOK, Addressed, ContextTypeOK, Row, Readers, EndsInv, ReaderLoads, RowInv,
        Window, CallsInv, DeleteCalls
  <2>2. \A i \in FileId : files'[i].key = IF i = file[r] THEN NoKey ELSE files[i].key
    BY <1>0, <2>1 DEF Committed, NoRow
  <2>3. CASE files[file[r]].key = NoKey
    <3>1. \A i \in FileId : files'[i].key = files[i].key
      BY <2>2, <2>3
    <3> QED  BY <3>1 DEF RowKeys
  <2>4. CASE files[file[r]].key = k
    <3>1. \A i \in FileId : files[i].key = k => i = file[r]
      BY <2>1, <2>4 DEF FileInv, KeyInv, Settled
    <3>2. k \in RowKeys /\ RowKeys' = RowKeys \ {k}
      BY <2>1, <2>2, <2>4, <3>1, NoKeyIsNoUpload DEF RowKeys
    <3>3. objects[k] = "absent" /\ io[k]["put"] = "ok"
      BY <1>2, <2>1 DEF FileInv, GoneInv, Removers, KeyInv, Settled
    <3>4. Life(k) = "removed"
      BY <3>3 DEF Life
    <3> QED  BY <2>1, <3>2, <3>4
  <2> QED  BY <2>1, <2>3, <2>4
<1> QED  BY <1>1, <1>2 DEF FileInv, Locked

(* A step of the file component is a step of FileLifecycle or none.        *)
LEMMA StepRefines ==
  ASSUME FileInv, FileInv', [Next]_vars
  PROVE  [Lifecycle!Next]_<<[k \in Uploads |-> Life(k)], RowKeys>>
<1> DEFINE life == [k \in Uploads |-> Life(k)]
<1> USE DEF Lifecycle!Next, Lifecycle!BeginWrite, Lifecycle!Complete, Lifecycle!Remove,
            Lifecycle!Publish, Lifecycle!Withdraw, Lifecycle!Become
<1>1. ObjectsStep /\ RowsChange
  BY ObjectsNext, RowsChangeNext DEF FileInv
<1>2. CASE RowKeys' = RowKeys
  <2>1. PICK k \in Uploads \cup {NoKey} :
           /\ \A u \in Uploads \ {k} : Life(u)' = Life(u)
           /\ k \in Uploads =>
                \/ Life(k)' = Life(k)
                \/ Life(k) = "none" /\ Life(k)' = "writing"
                \/ Life(k) = "writing" /\ Life(k)' = "stored"
                \/ Life(k)' = "removed"
    BY <1>1, LifeStep DEF FileInv
  <2>2. CASE \A u \in Uploads : Life(u)' = Life(u)
    BY <1>2, <2>2
  <2>3. CASE ~\A u \in Uploads : Life(u)' = Life(u)
    <3>1. k \in Uploads /\ life' = [life EXCEPT ![k] = Life(k)'] /\ life[k] = Life(k)
      BY <2>1, <2>3
    <3>2. \/ life[k] = "none" /\ life' = [life EXCEPT ![k] = "writing"]
          \/ life[k] = "writing" /\ life' = [life EXCEPT ![k] = "stored"]
          \/ life' = [life EXCEPT ![k] = "removed"]
      BY <2>1, <2>3, <3>1
    <3> HIDE DEF life
    <3> QED  BY <1>2, <3>1, <3>2 DEF life
  <2> QED  BY <2>2, <2>3
<1>3. CASE RowKeys' # RowKeys
  <2>1. ~UserChange /\ files' # files
    BY <1>3
    DEF UserChange, CreateUser, DeleteUser, RowKeys, FileInv, TypeOK, DatabaseTypeOK, Row
  <2>2. PICK r \in Request :
          /\ pc[r] = "committing" /\ files' = Committed(r)
          /\ UNCHANGED objects /\ \A u \in Uploads : io'[u]["put"] = io[u]["put"]
    BY <1>1, <2>1 DEF RowsChange
  <2>3. life' = life
    BY <2>2 DEF Life
  <2>4. PICK k \in Uploads :
          \/ Life(k) = "stored" /\ k \notin RowKeys /\ RowKeys' = RowKeys \cup {k}
          \/ Life(k) = "removed" /\ k \in RowKeys /\ RowKeys' = RowKeys \ {k}
    BY <1>3, <2>2, CommitRefines
  <2>5. life[k] = Life(k)
    OBVIOUS
  <2> QED  BY <2>3, <2>4, <2>5
<1> QED  BY <1>2, <1>3

(* FileService implements FileLifecycle: each object is written once, its  *)
(* row is published only over a complete object and withdrawn only when    *)
(* the object is gone.                                                     *)
THEOREM LifecycleRefined == Spec => ImplementsLifecycle
<1>1. Init => Lifecycle!Init
  BY DEF Init, StorageInit, DatabaseInit, NoRow, Lifecycle!Init, Life, RowKeys, Request, Call
<1>2. FileInv /\ FileInv' /\ [Next]_vars =>
        [Lifecycle!Next]_<<[k \in Uploads |-> Life(k)], RowKeys>>
  BY StepRefines
<1> QED  BY <1>1, <1>2, FileInvAlways, PTL DEF Spec, ImplementsLifecycle, Lifecycle!Spec
=============================================================================
