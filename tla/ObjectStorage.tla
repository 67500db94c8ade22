---------------------------- MODULE ObjectStorage ---------------------------
(***************************************************************************)
(* The local storage adapter (infrastructure/storage/local.py) and the     *)
(* worker threads storage_io runs its blocking calls in                    *)
(* (infrastructure/storage/common.py).                                     *)
(*                                                                         *)
(* objects is what the backend holds under each key.  io is the state of   *)
(* the threads a request owns, one per kind of call it makes:              *)
(*   validate  FileService._validate reading the upload stream             *)
(*   put       provider.put reading the stream and writing the object      *)
(*   remove    provider.delete                                             *)
(* A thread is a process of its own: it goes on while its request waits,   *)
(* and also when the request has stopped waiting for it.                   *)
(***************************************************************************)
EXTENDS FileRequests

VARIABLES objects, io

storageVars == <<objects, io>>

Call == {"validate", "put", "remove"}

(* "called": handed to the executor, without effect so far; "writing": a   *)
(* put that has opened its file; "dead": it will never finish, because the *)
(* process died or the executor dropped the call before starting it.       *)
IoState == {"idle", "called", "writing", "ok", "error", "dead"}

ObjectState == {"absent", "partial", "full"}

StorageTypeOK ==
    /\ objects \in [Uploads -> ObjectState]
    /\ io \in [Request -> [Call -> IoState]]

StorageInit ==
    /\ objects = [k \in Uploads |-> "absent"]
    /\ io = [r \in Request |-> [c \in Call |-> "idle"]]

-----------------------------------------------------------------------------
(* The coroutine's side: asyncio.to_thread hands the call over, and        *)
(* shield(task) keeps the first cancellation away from it.                 *)
Submit(r, c) == io' = [io EXCEPT ![r][c] = "called"]

Returned(r, c) == io[r][c] \in {"ok", "error"}

Unfinished(r, c) == io[r][c] \in {"called", "writing"}

(* A cancellation that reaches the task itself drops a call the executor   *)
(* has not started; a started thread cannot be stopped.                    *)
Detach(r, c) ==
    \/ UNCHANGED io
    \/ io[r][c] = "called" /\ io' = [io EXCEPT ![r][c] = "dead"]

(* The process dies, and its threads with it. *)
Kill(r) ==
    io' = [io EXCEPT ![r] =
             [c \in Call |-> IF Unfinished(r, c) THEN "dead" ELSE io[r][c]]]

-----------------------------------------------------------------------------
(* The threads' side. *)

(* FileService._validate reads the whole stream, then accepts or rejects   *)
(* the name, the type and the size.                                        *)
ValidateEnd(u) ==
    /\ io[u]["validate"] = "called"
    /\ \E verdict \in {"ok", "error"} :
         io' = [io EXCEPT ![u]["validate"] = verdict]
    /\ UNCHANGED objects

(* LocalStorage.put: the file is there from the exclusive open onwards and *)
(* complete only when the last chunk is written.                           *)
PutOpen(u) ==
    /\ io[u]["put"] = "called"
    /\ objects[u] = "absent"
    /\ io' = [io EXCEPT ![u]["put"] = "writing"]
    /\ objects' = [objects EXCEPT ![u] = "partial"]

(* The last chunk; a file unlinked meanwhile stays without a name. *)
PutEnd(u) ==
    /\ io[u]["put"] = "writing"
    /\ io' = [io EXCEPT ![u]["put"] = "ok"]
    /\ objects' = [objects EXCEPT ![u] = IF @ = "partial" THEN "full" ELSE @]

(* A failed put unlinks what it wrote, unless the unlink or the closing    *)
(* flush is what fails; a stream closed under the thread fails it too.     *)
PutError(u, streamClosed) ==
    /\ Unfinished(u, "put")
    /\ streamClosed \/ "storage" \in Faults
    /\ io' = [io EXCEPT ![u]["put"] = "error"]
    /\ \E left \in IF "storage" \in Faults THEN {objects[u], "absent"} ELSE {"absent"} :
         objects' = [objects EXCEPT ![u] = left]

(* provider.delete: idempotent; a failed call may have taken effect. *)
RemoveEnd(r, k) ==
    /\ io[r]["remove"] = "called"
    /\ io' = [io EXCEPT ![r]["remove"] = "ok"]
    /\ objects' = [objects EXCEPT ![k] = "absent"]

RemoveError(r, k) ==
    /\ io[r]["remove"] = "called"
    /\ "storage" \in Faults
    /\ io' = [io EXCEPT ![r]["remove"] = "error"]
    /\ \E left \in {objects[k], "absent"} : objects' = [objects EXCEPT ![k] = left]

(* provider.exists asks whether the file is there, complete or not. *)
Exists(k) == objects[k] # "absent"
=============================================================================
