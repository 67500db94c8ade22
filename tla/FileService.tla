---------------------------- MODULE FileService -----------------------------
(***************************************************************************)
(* FileService (modules/file/service.py) with its routes                   *)
(* (modules/file/router.py): the object goes to the storage backend and    *)
(* its row to the database, in that order, with no transaction over both.  *)
(*                                                                         *)
(* Each request is a coroutine; pc is the await it stands at.  A           *)
(* cancellation can reach it at any await and is handled as the except     *)
(* clauses do; a crash takes its process away.                             *)
(***************************************************************************)
EXTENDS ObjectStorage, Database

CONSTANT PublicUploads   \* the uploads sent with visibility=public

ASSUME PublicUploadsAreUploads == PublicUploads \subseteq Uploads

VARIABLES
    pc,       \* the await the request stands at
    actor,    \* the user snapshot authentication returned
    file,     \* the id of the row the request creates, deletes or serves
    read,     \* the row a delete or a download loaded
    raised,   \* the exception its handler is unwinding, if any
    outcome,  \* how it ended
    cancels,  \* cancellations delivered to it
    logged    \* the error events written, with their key

requestVars == <<pc, actor, file, read, raised, outcome, cancels, logged>>
vars == <<storageVars, databaseVars, requestVars>>

Anonymous == [id |-> 0, acct |-> 0]
Administrator == 1
Key(r) == IF r \in Uploads THEN r ELSE read[r].key

(* The call each storage await waits for, and where it stands once a first *)
(* cancellation has reached it: waiting for the thread before unwinding.   *)
Waits == [validating |-> "validate", putting |-> "put",
          compensating |-> "remove", removing |-> "remove"]
Drains == [validateDrain |-> "validate", putDrain |-> "put",
           compensateDrain |-> "remove", removeDrain |-> "remove"]
DrainOf == [validating |-> "validateDrain", putting |-> "putDrain",
            compensating |-> "compensateDrain", removing |-> "removeDrain"]
DatabaseAwaits == {"reading", "inserting", "deleting", "committing", "rollback"}
Serving == {"checking", "opening"}
Ended == {"done", "dead"}

PC == {"new"} \cup DOMAIN Waits \cup DOMAIN Drains \cup DatabaseAwaits \cup Serving \cup Ended

Event == {"upload_rollback_failed", "upload_compensation_failed",
          "delete_metadata_failed", "delete_rollback_failed"}

Exception == {"none", "error", "cancelled"}
Outcome == Exception \cup {"ok", "rejected"}

ControlTypeOK ==
    /\ pc \in [Request -> PC]
    /\ raised \in [Request -> Exception]
    /\ outcome \in [Request -> Outcome]

ContextTypeOK ==
    /\ actor \in [Request -> [id : 0..MaxAccounts, acct : 0..MaxAccounts]]
    /\ file \in [Request -> 0..MaxFiles]
    /\ read \in [Request -> Row]
    /\ cancels \in [Request -> 0..MaxCancels]
    /\ logged \subseteq Event \X (Uploads \cup {NoKey})

(* DELETE and download routes carry the id in their path. *)
Addressed == \A r \in Request \ Uploads : pc[r] # "new" => file[r] \in FileId

TypeOK ==
    /\ StorageTypeOK
    /\ DatabaseTypeOK
    /\ ControlTypeOK
    /\ ContextTypeOK
    /\ Addressed

Init ==
    /\ StorageInit
    /\ DatabaseInit
    /\ pc = [r \in Request |-> "new"]
    /\ actor = [r \in Request |-> Anonymous]
    /\ file = [r \in Request |-> 0]
    /\ read = [r \in Request |-> NoRow]
    /\ raised = [r \in Request |-> "none"]
    /\ outcome = [r \in Request |-> "none"]
    /\ cancels = [r \in Request |-> 0]
    /\ logged = {}

-----------------------------------------------------------------------------
(* Control flow. *)
Goto(r, p) ==
    /\ pc' = [pc EXCEPT ![r] = p]
    /\ UNCHANGED <<raised, outcome>>

(* The response or the error leaves; the router closes the upload stream   *)
(* and get_session the session, which ends what the transaction has open.  *)
End(r, result) ==
    /\ pc' = [pc EXCEPT ![r] = "done"]
    /\ outcome' = [outcome EXCEPT ![r] = result]
    /\ EndTx(r)
    /\ UNCHANGED raised

(* The exception enters the except clause, whose first await is rollback(). *)
Handle(r, exception) ==
    /\ pc' = [pc EXCEPT ![r] = "rollback"]
    /\ raised' = [raised EXCEPT ![r] = exception]
    /\ UNCHANGED outcome

Log(r, event) == logged' = logged \cup {<<event, Key(r)>>}

(* delete_file logs when it knows that provider.delete returned. *)
LogDangling(r) ==
    IF r \in Deletes /\ pc[r] \in {"deleting", "committing"}
    THEN Log(r, "delete_metadata_failed") ELSE UNCHANGED logged

databaseKept == <<users, userSeq, accounts, files, fileSeq>>
contextVars  == <<actor, file, read, cancels>>

-----------------------------------------------------------------------------
(* upload: validate, put, insert, commit. *)

Snapshot(u) == [id |-> u, acct |-> users[u]]
LiveUsers == {u \in UserId : users[u] # 0}

StartUpload(u) ==
    /\ pc[u] = "new"
    /\ \E i \in LiveUsers : actor' = [actor EXCEPT ![u] = Snapshot(i)]
    /\ Submit(u, "validate")
    /\ Goto(u, "validating")
    /\ UNCHANGED <<objects, databaseVars, file, read, cancels, logged>>

(* Mutant: the row is inserted while the put thread is still writing. *)
InsertWhilePutting(u) ==
    /\ pc[u] = "validating"
    /\ io[u]["validate"] = "ok"
    /\ Submit(u, "put")
    /\ Goto(u, "inserting")
    /\ UNCHANGED <<objects, databaseVars, contextVars, logged>>

ValidateReturns(u) ==
    /\ pc[u] = "validating"
    /\ \/ /\ io[u]["validate"] = "ok"
          /\ Submit(u, "put")
          /\ Goto(u, "putting")
          /\ UNCHANGED tx
       \/ /\ io[u]["validate"] = "error"
          /\ End(u, "rejected")
          /\ UNCHANGED io
    /\ UNCHANGED <<objects, databaseKept, contextVars, logged>>

PutReturns(u) ==
    /\ pc[u] = "putting"
    /\ \/ io[u]["put"] = "ok" /\ Goto(u, "inserting")
       \/ io[u]["put"] = "error" /\ Handle(u, "error")
    /\ UNCHANGED <<storageVars, databaseVars, contextVars, logged>>

(* The flush of the INSERT: created_by must exist. *)
Insert(u) ==
    /\ pc[u] = "inserting"
    /\ users[actor[u].id] # 0
    /\ MayWrite(u, file[u], file)
    /\ \E i \in FileId :
         /\ IsNextFileId(i)
         /\ file' = [file EXCEPT ![u] = i]
         /\ fileSeq' = IF Sqlite THEN fileSeq ELSE i
    /\ tx' = [tx EXCEPT ![u] = "insert"]
    /\ Goto(u, "committing")
    /\ UNCHANGED <<storageVars, users, userSeq, accounts, files, actor, read, cancels, logged>>

-----------------------------------------------------------------------------
(* delete_file and download: load the row, authorize, then act. *)

StartRead(r) ==
    /\ pc[r] = "new"
    /\ \E a \in {Snapshot(i) : i \in LiveUsers}
                  \cup (IF r \in Downloads THEN {Anonymous} ELSE {}) :
         actor' = [actor EXCEPT ![r] = a]
    /\ \E i \in FileId : file' = [file EXCEPT ![r] = i]
    /\ Goto(r, "reading")
    /\ UNCHANGED <<storageVars, databaseVars, read, cancels, logged>>

(* Mutant: compares the ids without asking for an actor first. *)
AuthorizedByIdOnly(r, row) ==
    \/ r \in Downloads /\ row.key \in PublicUploads
    \/ actor[r].id = row.owner \/ actor[r].acct = Administrator

(* FileService._authorize: public rows are read by anyone; everything else *)
(* is for the owner and administrators.                                    *)
Authorized(r, row) ==
    \/ r \in Downloads /\ row.key \in PublicUploads
    \/ /\ actor[r] # Anonymous
       /\ (actor[r].id = row.owner \/ actor[r].acct = Administrator)

ReadRow(r) ==
    /\ pc[r] = "reading"
    /\ LET row == files[file[r]] IN
       IF row.key # NoKey /\ Authorized(r, row)
       THEN /\ read' = [read EXCEPT ![r] = row]
            /\ BeginRead(r)
            /\ IF r \in Deletes
               THEN Submit(r, "remove") /\ Goto(r, "removing")
               ELSE UNCHANGED io /\ Goto(r, "checking")
       ELSE End(r, "rejected") /\ UNCHANGED <<read, io>>
    /\ UNCHANGED <<objects, databaseKept, actor, file, cancels, logged>>

(* Mutant: delete_file goes on although provider.delete raised. *)
RemoveErrorIgnored(d) ==
    /\ pc[d] = "removing"
    /\ Returned(d, "remove")
    /\ Goto(d, "deleting")
    /\ UNCHANGED <<storageVars, databaseVars, contextVars, logged>>

RemoveReturns(d) ==
    /\ pc[d] = "removing"
    /\ \/ io[d]["remove"] = "ok" /\ Goto(d, "deleting")
       \/ io[d]["remove"] = "error" /\ Handle(d, "error")
    /\ UNCHANGED <<storageVars, databaseVars, contextVars, logged>>

(* DELETE FROM files WHERE id: a row that is gone is no error. *)
DeleteRow(d) ==
    /\ pc[d] = "deleting"
    /\ MayWrite(d, file[d], file)
    /\ tx' = [tx EXCEPT ![d] = "delete"]
    /\ Goto(d, "committing")
    /\ UNCHANGED <<storageVars, databaseKept, contextVars, logged>>

(* provider.exists, then provider.access. *)
Check(l) ==
    /\ pc[l] = "checking"
    /\ IF Exists(read[l].key) THEN Goto(l, "opening") /\ UNCHANGED tx
                              ELSE End(l, "rejected")
    /\ UNCHANGED <<storageVars, databaseKept, contextVars, logged>>

(* FileResponse opens the path only when it sends: a file removed since    *)
(* makes the response fail.                                                *)
Serve(l) ==
    /\ pc[l] = "opening"
    /\ End(l, IF Exists(read[l].key) THEN "ok" ELSE "error")
    /\ UNCHANGED <<storageVars, databaseKept, contextVars, logged>>

-----------------------------------------------------------------------------
(* Commit, failures, and the except clauses. *)

Committed(r) ==
    [files EXCEPT ![file[r]] =
       IF r \in Uploads THEN [key |-> r, owner |-> actor[r].id] ELSE NoRow]

(* Mutant: answers without session.commit(). *)
CommitForgotten(r) ==
    /\ pc[r] = "committing"
    /\ End(r, "ok")
    /\ UNCHANGED <<storageVars, databaseKept, contextVars, logged>>

Commit(r) ==
    /\ pc[r] = "committing"
    /\ MayCommit(r)
    /\ files' = Committed(r)
    /\ End(r, "ok")
    /\ UNCHANGED <<storageVars, users, userSeq, accounts, fileSeq, contextVars, logged>>

(* A commit whose answer is lost took effect or did not. *)
CommitUnknown(r) ==
    \/ MayCommit(r) /\ files' = Committed(r) /\ EndTx(r)
    \/ UNCHANGED <<files, tx>>

(* A write statement whose answer is lost or an error ran or did not; what *)
(* it locked stays locked until the rollback.                              *)
StatementUnknown(r) ==
    \/ UNCHANGED tx
    \/ /\ MayWrite(r, file[r], file)
       /\ tx' = [tx EXCEPT ![r] = IF r \in Uploads THEN "insert" ELSE "delete"]

(* SQLite answers BUSY when the lock does not come in time. *)
Busy(granted) == Sqlite /\ ~granted

StatementFails(r) ==
    /\ \/ /\ pc[r] \in {"inserting", "deleting"}
          /\ \/ "database" \in Faults
             \/ Busy(MayWrite(r, file[r], file))
             \/ pc[r] = "inserting" /\ users[actor[r].id] = 0
          /\ StatementUnknown(r)
          /\ UNCHANGED files
       \/ /\ pc[r] = "committing"
          /\ \/ "database" \in Faults /\ CommitUnknown(r)
             \/ Busy(MayCommit(r)) /\ UNCHANGED <<files, tx>>
    /\ Handle(r, "error")
    /\ LogDangling(r)
    /\ UNCHANGED <<storageVars, users, userSeq, accounts, fileSeq, contextVars>>

(* Before the try block, or in a download: the error leaves as it is. *)
ReadFails(r) ==
    /\ \/ pc[r] = "reading" /\ ("database" \in Faults \/ Busy(MayRead(r)))
       \/ pc[r] = "checking" /\ "storage" \in Faults
    /\ End(r, "error")
    /\ UNCHANGED <<storageVars, databaseKept, contextVars, logged>>

(* rollback(), whose own failure is only logged; then upload compensates   *)
(* and delete_file re-raises.                                              *)
Rollback(r) ==
    /\ pc[r] = "rollback"
    /\ \/ UNCHANGED logged
       \/ /\ "database" \in Faults
          /\ Log(r, IF r \in Uploads THEN "upload_rollback_failed" ELSE "delete_rollback_failed")
    /\ IF r \in Uploads
       THEN Submit(r, "remove") /\ Goto(r, "compensating") /\ EndTx(r)
       ELSE End(r, raised[r]) /\ UNCHANGED io
    /\ UNCHANGED <<objects, databaseKept, contextVars>>

CompensateReturns(u) ==
    /\ pc[u] = "compensating"
    /\ Returned(u, "remove")
    /\ IF io[u]["remove"] = "error" THEN Log(u, "upload_compensation_failed")
                                    ELSE UNCHANGED logged
    /\ End(u, raised[u])
    /\ UNCHANGED <<storageVars, databaseKept, contextVars>>

-----------------------------------------------------------------------------
(* Cancellation. *)

(* Mutant: `except Exception` where the code has `except BaseException`. *)
UnwindUncaught(r) == End(r, "cancelled")

(* CancelledError leaves a storage call: put and delete_file's delete are  *)
(* inside the try block; validation and compensation are not.              *)
Unwind(r) ==
    IF pc[r] \in {"putDrain", "removeDrain"}
    THEN Handle(r, "cancelled") /\ UNCHANGED tx
    ELSE End(r, "cancelled")

(* Mutant: polls for the thread's result, which a failed call never has. *)
DrainUntilResult(r) ==
    /\ pc[r] \in DOMAIN Drains
    /\ io[r][Drains[pc[r]]] = "ok"
    /\ Unwind(r)
    /\ UNCHANGED <<storageVars, databaseKept, contextVars, logged>>

DrainReturns(r) ==
    /\ pc[r] \in DOMAIN Drains
    /\ Returned(r, Drains[pc[r]])
    /\ Unwind(r)
    /\ UNCHANGED <<storageVars, databaseKept, contextVars, logged>>

(* Mutant: awaits the thread without shield. *)
CancelUnshielded(r) ==
    /\ pc[r] \in DOMAIN Waits
    /\ IF pc[r] \in {"putting", "removing"} THEN Handle(r, "cancelled") /\ UNCHANGED tx
                                            ELSE End(r, "cancelled")
    /\ UNCHANGED <<io, files, logged>>

CancelStorage(r) ==
    /\ \/ /\ pc[r] \in DOMAIN Waits
          /\ Goto(r, DrainOf[pc[r]])
          /\ UNCHANGED <<io, tx>>
       \/ /\ pc[r] \in DOMAIN Drains
          /\ Detach(r, Drains[pc[r]])
          /\ Unwind(r)
    /\ UNCHANGED <<files, logged>>

CancelDatabase(r) ==
    /\ pc[r] \in {"inserting", "deleting", "committing"}
    /\ IF pc[r] = "committing" THEN CommitUnknown(r)
                              ELSE StatementUnknown(r) /\ UNCHANGED files
    /\ Handle(r, "cancelled")
    /\ LogDangling(r)
    /\ UNCHANGED io

(* Nothing catches it: a load, a download, and rollback() in the handler,  *)
(* which only excepts Exception.                                           *)
CancelUncaught(r) ==
    /\ pc[r] \in {"reading", "rollback"} \cup Serving
    /\ End(r, "cancelled")
    /\ UNCHANGED <<files, io, logged>>

Cancel(r) ==
    /\ cancels[r] < MaxCancels
    /\ cancels' = [cancels EXCEPT ![r] = @ + 1]
    /\ CancelStorage(r) \/ CancelDatabase(r) \/ CancelUncaught(r)
    /\ UNCHANGED <<objects, users, userSeq, accounts, fileSeq, actor, file, read>>

(* The process dies: the database rolls back, or had committed. *)
Crash(r) ==
    /\ "crash" \in Faults
    /\ pc[r] \notin {"new"} \cup Ended
    /\ pc' = [pc EXCEPT ![r] = "dead"]
    /\ Kill(r)
    /\ EndTx(r)
    /\ \/ UNCHANGED files
       \/ pc[r] = "committing" /\ MayCommit(r) /\ files' = Committed(r)
    /\ UNCHANGED <<objects, users, userSeq, accounts, fileSeq, contextVars,
                   raised, outcome, logged>>

-----------------------------------------------------------------------------
UploadStep(u) ==
    ValidateReturns(u) \/ PutReturns(u) \/ Insert(u) \/ CompensateReturns(u)
DeleteStep(d) == RemoveReturns(d) \/ DeleteRow(d)
DownloadStep(l) == Check(l) \/ Serve(l)
CommonStep(r) ==
    Commit(r) \/ StatementFails(r) \/ ReadFails(r) \/ Rollback(r) \/ DrainReturns(r)

Coroutine(r) ==
    \/ r \in Uploads /\ UploadStep(r)
    \/ r \in Deletes /\ DeleteStep(r)
    \/ r \in Downloads /\ DownloadStep(r)
    \/ r \notin Uploads /\ ReadRow(r)
    \/ CommonStep(r)

UploadThread(u) == ValidateEnd(u) \/ PutOpen(u) \/ PutEnd(u) \/ PutError(u, pc[u] = "done")
RemoveThread(r) == RemoveEnd(r, Key(r)) \/ RemoveError(r, Key(r))
Thread(r) ==
    /\ \/ r \in Uploads /\ UploadThread(r)
       \/ r \notin Downloads /\ RemoveThread(r)
    /\ UNCHANGED <<databaseVars, requestVars>>

Arrive(r) == IF r \in Uploads THEN StartUpload(r) ELSE StartRead(r)

UserChange ==
    /\ \/ CreateUser
       \/ \E u \in UserId : DeleteUser(u, [q \in Request |-> actor[q].id], file)
    /\ UNCHANGED <<storageVars, requestVars>>

Next ==
    \/ \E r \in Request : Arrive(r) \/ Coroutine(r) \/ Thread(r) \/ Cancel(r) \/ Crash(r)
    \/ UserChange

Spec == Init /\ [][Next]_vars
=============================================================================
