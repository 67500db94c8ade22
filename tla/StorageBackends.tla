-------------------------- MODULE StorageBackends --------------------------
(***************************************************************************)
(* Where the objects of the files are: the registry of the configured      *)
(* backends (providers/storage.py, bootstrap/providers.py) and the calls   *)
(* of the local, OSS and COS adapters.  The configuration changes between  *)
(* restarts, a row keeps the backend it was written to, and a backend may  *)
(* be unreachable or its bucket missing.  What happens between the steps   *)
(* of one request is FileService's subject: here each is one step.         *)
(***************************************************************************)
EXTENDS Naturals

CONSTANTS
    File,           \* the keys of the files
    Backend,        \* subset of {"local", "oss", "cos"} with "local"
    MaxRestarts,    \* bounds the restarts with another configuration
    MaxFaults       \* bounds the changes of a backend's health

VARIABLES
    registry,   \* the backends registered
    default,    \* storage_backend
    health,     \* backend -> "up", "down" or "noBucket"
    record,     \* file -> the backend and visibility of its row
    store,      \* the objects: backend, visibility prefix, key
    urls,       \* the objects a signed URL was issued for
    deleted,    \* the files whose DELETE was answered with 200
    answer,     \* the answer to the last download, and what the backend told
    restarts, faults

vars == <<registry, default, health, record, store, urls, deleted, answer, restarts, faults>>

Visibility == {"private", "public"}
Object == Backend \X Visibility \X File
NoRecord == [backend |-> "none", visibility |-> "none"]
Record == [backend : Backend, visibility : Visibility]
Heads == {"found", "noKey", "noBucket", "bodiless", "refused"}
NoAnswer == [file |-> "none", code |-> 0, head |-> "none"]

(* object_key: the visibility is a prefix of the name in the bucket. *)
ObjectOf(f) == <<record[f].backend, record[f].visibility, f>>

TypeOK ==
    /\ registry \subseteq Backend /\ default \in registry
    /\ health \in [Backend -> {"up", "down", "noBucket"}]
    /\ record \in [File -> Record \cup {NoRecord}]
    /\ store \subseteq Object /\ urls \subseteq Object /\ deleted \subseteq File
    /\ answer \in {NoAnswer} \cup [file : File, code : {200, 307, 404, 503}, head : Heads]
    /\ restarts \in 0..MaxRestarts /\ faults \in 0..MaxFaults

Init ==
    /\ registry = Backend /\ default = "local"
    /\ health = [b \in Backend |-> "up"]
    /\ record = [f \in File |-> NoRecord]
    /\ store = {} /\ urls = {} /\ deleted = {} /\ answer = NoAnswer
    /\ restarts = 0 /\ faults = 0

-----------------------------------------------------------------------------
(* validate_storage: a cloud backend that is chosen needs its settings. *)
Valid(optional, b) == b \in optional \cup {"local"}

(* Every configured backend is registered, not only the default one. *)
Restart(optional, b) ==
    /\ restarts < MaxRestarts /\ restarts' = restarts + 1
    /\ Valid(optional, b)
    /\ registry' = optional \cup {"local"} /\ default' = b
    /\ answer' = NoAnswer
    /\ UNCHANGED <<health, record, store, urls, deleted, faults>>

(* A backend fails, recovers, or answers that there is no such bucket,     *)
(* which a local directory never does.                                     *)
Fault(b, h) ==
    /\ faults < MaxFaults /\ faults' = faults + 1
    /\ b = "local" => h # "noBucket"
    /\ health' = [health EXCEPT ![b] = h]
    /\ answer' = NoAnswer
    /\ UNCHANGED <<registry, default, record, store, urls, deleted, restarts>>

(* Mutant: the default backend is taken, whatever the row says. *)
ProviderDefault(b) == IF b = "none" THEN b ELSE default

(* StorageRegistry.get: the backend of the row, or an error. *)
Provider(b) == IF b \in registry THEN b ELSE "none"

Located(f) == <<Provider(record[f].backend), record[f].visibility, f>>
Reached(b) == b # "none" /\ health[b] = "up"

(* put, insert, commit.  A put that failed may have been done, and the     *)
(* compensation may fail in the same way.                                  *)
Upload(f, v) ==
    /\ record[f] = NoRecord /\ f \notin deleted
    /\ \A o \in store : o[3] # f
    /\ \/ /\ Reached(Provider(default))
          /\ store' = store \cup {<<default, v, f>>}
          /\ record' = [record EXCEPT ![f] = [backend |-> default, visibility |-> v]]
       \/ /\ ~Reached(Provider(default)) /\ UNCHANGED record
          /\ \/ health[default] = "down" /\ store' = store \cup {<<default, v, f>>}
             \/ UNCHANGED store
    /\ answer' = NoAnswer
    /\ UNCHANGED <<registry, default, health, urls, deleted, restarts, faults>>

(* What a backend tells of an object.  The HEAD of COS has no body: its 404 *)
(* names what is missing, or comes with the code "" or "Unknown", which is  *)
(* "bodiless" and the same for a missing object and a missing bucket.  OSS  *)
(* names it in a header, which the SDK's is_object_exist reads.             *)
Named(b) == IF health[b] = "up" THEN "noKey" ELSE "noBucket"
Told(o) ==
    IF o[1] = "none" \/ health[o[1]] = "down" THEN {"refused"}
    ELSE IF Reached(o[1]) /\ o \in store THEN {"found"}
    ELSE {Named(o[1])} \cup (IF o[1] = "cos" THEN {"bodiless"} ELSE {})

(* exists: a bucket that is named as missing, refused credentials and the  *)
(* network are errors; a 404 that names nothing is taken for the object's. *)
Exists(head) ==
    IF head = "found" THEN "yes"
    ELSE IF head \in {"noKey", "bodiless"} THEN "no" ELSE "error"

(* get_file, exists, access: a local file, or a redirect to a signed URL. *)
Download(f) ==
    /\ record[f] # NoRecord
    /\ \E head \in Told(Located(f)) :
         LET o == Located(f)
             code == CASE Exists(head) = "error" -> 503
                       [] Exists(head) = "no" -> 404
                       [] Exists(head) = "yes" /\ o[1] = "local" -> 200
                       [] OTHER -> 307
         IN  /\ answer' = [file |-> f, code |-> code, head |-> head]
             /\ urls' = IF code = 307 THEN urls \cup {o} ELSE urls
    /\ UNCHANGED <<registry, default, health, record, store, deleted, restarts, faults>>

(* provider.delete, which is idempotent, then the row; an error of the     *)
(* backend keeps the row, whether the object is gone or not.               *)
Delete(f) ==
    /\ record[f] # NoRecord
    /\ LET o == Located(f)
       IN  \/ /\ Reached(o[1])
              /\ store' = store \ {o}
              /\ record' = [record EXCEPT ![f] = NoRecord]
              /\ deleted' = deleted \cup {f}
           \/ /\ ~Reached(o[1]) /\ UNCHANGED <<record, deleted>>
              /\ \/ o[1] # "none" /\ store' = store \ {o}
                 \/ UNCHANGED store
    /\ answer' = NoAnswer
    /\ UNCHANGED <<registry, default, health, urls, restarts, faults>>

Next ==
    \/ \E optional \in SUBSET (Backend \ {"local"}), b \in Backend : Restart(optional, b)
    \/ \E b \in Backend, h \in {"up", "down", "noBucket"} : Fault(b, h)
    \/ \E f \in File : (\E v \in Visibility : Upload(f, v)) \/ Download(f) \/ Delete(f)

Spec == Init /\ [][Next]_vars

-----------------------------------------------------------------------------
(* "File not found" is the truth about the bucket the file was written to: *)
(* it is there and lacks the object.  Only a COS that answers without a     *)
(* body can hide that its bucket is missing; a backend that is no longer    *)
(* configured, refuses or does not answer is never taken for a missing file.*)
NotFoundIsTrue ==
    answer.code = 404 =>
        LET b == record[answer.file].backend
        IN  \/ health[b] = "up" /\ ObjectOf(answer.file) \notin store
            \/ answer.head = "bodiless" /\ b = "cos" /\ health[b] = "noBucket"

(* exists says what its docstrings claim (tencent_cos.py 43, 47): only an   *)
(* object known to be missing is "no", told apart from a missing bucket.    *)
MissingIsExplicit ==
    answer.code = 404 => health[record[answer.file].backend] = "up"

(* A file whose DELETE was acknowledged is nowhere any more, in no backend *)
(* an earlier configuration used, and no URL that was signed for it opens. *)
DeletedIsGone ==
    /\ \A f \in deleted : \A o \in store : o[3] # f
    /\ \A o \in urls : o \in store => record[o[3]] # NoRecord

=============================================================================
