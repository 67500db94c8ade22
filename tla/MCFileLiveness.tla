--------------------------- MODULE MCFileLiveness ---------------------------
(***************************************************************************)
(* The file component on both dialects, for the liveness of its requests.  *)
(* Which one a behaviour runs on is chosen at first and never changes.     *)
(***************************************************************************)
CONSTANTS Uploads, PublicUploads, Deletes, Downloads, NoKey, Faults,
          MaxCancels, MaxAccounts, MaxFiles

VARIABLES
    dialect,    \* "sqlite" or "server"
    objects, io, users, userSeq, accounts, files, fileSeq, tx,
    pc, actor, file, read, raised, outcome, cancels, logged

Lite == INSTANCE FileGuarantees WITH Sqlite <- TRUE
Server == INSTANCE FileGuarantees WITH Sqlite <- FALSE

Init ==
    \/ dialect = "sqlite" /\ Lite!Init
    \/ dialect = "server" /\ Server!Init

Next ==
    \/ dialect = "sqlite" /\ Lite!Next /\ UNCHANGED dialect
    \/ dialect = "server" /\ Server!Next /\ UNCHANGED dialect

Coroutine(r) ==
    \/ dialect = "sqlite" /\ Lite!Coroutine(r) /\ UNCHANGED dialect
    \/ dialect = "server" /\ Server!Coroutine(r) /\ UNCHANGED dialect

Thread(r) == Lite!Thread(r) /\ UNCHANGED dialect

vars == <<dialect, Lite!vars>>
Spec == Init /\ [][Next]_vars

(* FileService's fairness, on the dialect of the behaviour: every coroutine *)
(* whose await is over is resumed, every call the executor has is run.      *)
FairSpec == Spec /\ \A r \in Lite!Request : WF_vars(Coroutine(r)) /\ WF_vars(Thread(r))

(* Every request that arrived is answered, or lost with its process: no     *)
(* waiting on threads, row locks or SQLite's file lock is for ever.         *)
RequestsEnd ==
    \A r \in Lite!Request : pc[r] # "new" ~> pc[r] \in Lite!Ended
=============================================================================
