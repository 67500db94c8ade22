--------------------------- MODULE FileGuarantees ---------------------------
(***************************************************************************)
(* What FileService guarantees about the objects, the rows and the         *)
(* requests of one run.                                                    *)
(***************************************************************************)
EXTENDS FileService

RowKeys == {files[i].key : i \in FileId} \ {NoKey}

(* The requests that were authorized to remove key k and asked for it. *)
Removers(k) == {d \in Deletes : read[d].key = k}

(* A 201 is kept: the row stays until a DELETE that loaded that very row   *)
(* commits, the object stays whole until such a DELETE removes it          *)
(* (upload's order put, flush, commit; delete_file's order remove, delete, *)
(* commit; SQLite's reuse of file ids).                                    *)
AckedSurvives ==
    \A u \in Uploads : outcome[u] = "ok" =>
        /\ u \in RowKeys \/ \E d \in Removers(u) : io[d]["remove"] = "ok"
        /\ objects[u] = "full" \/ \E d \in Removers(u) : io[d]["remove"] # "called"

(* An object without a row is never left silently by an upload that ended: *)
(* compensation removed it or its failure was logged, unless a             *)
(* cancellation reached the except clause itself (service.py 119-130).     *)
OrphanHasCause ==
    \A u \in Uploads :
        pc[u] = "done" /\ objects[u] # "absent" /\ u \notin RowKeys =>
            \/ <<"upload_compensation_failed", u>> \in logged
            \/ cancels[u] > (IF raised[u] = "error" THEN 0 ELSE 1)

(* A DELETE that answered 200 left neither the object nor the row          *)
(* (service.py 163-183).                                                   *)
RemovedIsGone ==
    \A d \in Deletes : outcome[d] = "ok" =>
        /\ objects[read[d].key] = "absent"
        /\ read[d].key \notin RowKeys

(* Nobody downloads a file that is still being written: LocalStorage shows *)
(* it under its final name from the first byte, and only the order of put  *)
(* and commit keeps readers away.                                          *)
NeverServesPartial ==
    \A l \in Downloads : pc[l] \in Serving => objects[read[l].key] # "partial"

(* A row never passes to another account, whichever accounts are deleted   *)
(* and created around the INSERT: created_by names the uploader or nobody  *)
(* (user ids are not given twice; ON DELETE SET NULL).                     *)
OwnerIsUploader ==
    \A i \in FileId : files[i].owner # 0 =>
        users[files[i].owner] = actor[files[i].key].acct

(* Removing a file, and reading a private one, is for its uploader and     *)
(* administrators, on the row read and not on what its id meant earlier.   *)
OnlyForOwner ==
    \A r \in Deletes \cup Downloads : read[r].key # NoKey =>
        \/ actor[r].acct \in {Administrator, actor[read[r].key].acct}
        \/ r \in Downloads /\ read[r].key \in PublicUploads

(* The router closes the upload stream only when no thread reads it any    *)
(* more (service.py 88-94, common.py 45-54).                               *)
StreamOpenWhileRead ==
    \A u \in Uploads : pc[u] = "done" =>
        ~Unfinished(u, "validate") /\ ~Unfinished(u, "put")

(* The row a DELETE is about to remove is the row it authorized: SQLite    *)
(* may give the id of a removed row again, and only the transaction opened *)
(* by the load (engine.py 60-62) keeps that from happening in between.     *)
DeletesAuthorizedRow ==
    \A d \in Deletes : pc[d] \in {"removing", "removeDrain", "deleting", "committing"} =>
        files[file[d]].key \in {read[d].key, NoKey}

(* service.py 176: an object that is gone while its row stays is logged    *)
(* when the DELETE that removed it fails.                                  *)
DanglingDeleteLogged ==
    \A d \in Deletes :
        /\ pc[d] = "done" /\ outcome[d] # "ok"
        /\ io[d]["remove"] = "ok"
        /\ read[d].key \in RowKeys
        => <<"delete_metadata_failed", read[d].key>> \in logged

-----------------------------------------------------------------------------
(* A key's object is "removed" once its put was made and it is not there.  *)
Life(k) ==
    CASE objects[k] = "full" -> "stored"
      [] objects[k] = "partial" -> "writing"
      [] objects[k] = "absent" ->
           IF io[k]["put"] \in {"idle", "called"} THEN "none" ELSE "removed"

Lifecycle == INSTANCE FileLifecycle
               WITH Keys <- Uploads,
                    object <- [k \in Uploads |-> Life(k)],
                    published <- RowKeys

(* FileService implements FileLifecycle. *)
ImplementsLifecycle == Lifecycle!Spec
=============================================================================
