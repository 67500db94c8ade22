------------------------------ MODULE Database ------------------------------
(***************************************************************************)
(* The two tables the file component touches, and the transactions of its  *)
(* request sessions (database/engine.py, database/session.py).  A session  *)
(* opens its transaction with its first statement; what it writes becomes  *)
(* visible in one step when it commits.                                    *)
(*                                                                         *)
(* Two dialects.  SQLite (rollback journal, explicit BEGIN): a transaction *)
(* that has read holds SHARED, one that has written holds RESERVED, a      *)
(* commit needs EXCLUSIVE; a statement that cannot have its lock fails     *)
(* with BUSY.  Its rowids are one more than the largest in use, so a       *)
(* deleted id can come back.  PostgreSQL and MySQL: row locks, ids from a  *)
(* counter that never goes back.                                           *)
(***************************************************************************)
EXTENDS FileRequests

CONSTANTS
    Sqlite,        \* BOOLEAN: the dialect
    MaxAccounts,   \* bounds the accounts ever created
    MaxFiles       \* bounds the file ids

ASSUME DialectIsBoolean == Sqlite \in BOOLEAN
ASSUME BoundsAreNat == MaxAccounts \in Nat /\ MaxAccounts >= 2 /\ MaxFiles \in Nat

VARIABLES
    users,     \* user id -> the account living under it (its auth_id), 0 if none
    userSeq,   \* the largest user id ever given (sqlite_autoincrement, sequences)
    accounts,  \* how many accounts were ever created
    files,     \* file id -> row
    fileSeq,   \* the server dialects' file id counter
    tx         \* what the request's transaction has done so far

databaseVars == <<users, userSeq, accounts, files, fileSeq, tx>>

UserId == 1..MaxAccounts
FileId == 1..MaxFiles
Row    == [key : Uploads \cup {NoKey}, owner : 0..MaxAccounts]  \* owner 0: NULL
NoRow  == [key |-> NoKey, owner |-> 0]
TxState == {"none", "read", "insert", "delete"}

DatabaseTypeOK ==
    /\ users \in [UserId -> 0..MaxAccounts]
    /\ accounts \in 0..MaxAccounts
    /\ userSeq \in 0..accounts
    /\ files \in [FileId -> Row]
    /\ fileSeq \in 0..MaxFiles
    /\ tx \in [Request -> TxState]

(* The administrator (account 1) and one ordinary user exist already. *)
DatabaseInit ==
    /\ users = [u \in UserId |-> IF u <= 2 THEN u ELSE 0]
    /\ userSeq = 2
    /\ accounts = 2
    /\ files = [i \in FileId |-> NoRow]
    /\ fileSeq = 0
    /\ tx = [r \in Request |-> "none"]

Writing(r) == tx[r] \in {"insert", "delete"}

-----------------------------------------------------------------------------
(* Mutant: the driver's legacy mode, where a SELECT opens no transaction. *)
ReadUncovered(r) == UNCHANGED tx

(* The transaction a SELECT leaves open: an explicit BEGIN on SQLite, the  *)
(* driver's implicit one elsewhere.                                        *)
BeginRead(r) == tx' = [tx EXCEPT ![r] = "read"]

EndTx(r) == tx' = [tx EXCEPT ![r] = "none"]

(* A write statement needs RESERVED on SQLite, elsewhere only that no other *)
(* transaction has deleted the same row.                                    *)
MayWrite(r, i, target) ==
    \A q \in Request \ {r} :
        IF Sqlite THEN ~Writing(q) ELSE ~(tx[q] = "delete" /\ target[q] = i)

(* A commit needs EXCLUSIVE on SQLite: no other open transaction. *)
MayCommit(r) == Sqlite => \A q \in Request \ {r} : tx[q] = "none"

(* A commit under way that waits for EXCLUSIVE lets no new reader in. *)
MayRead(r) == \A q \in Request \ {r} : ~Writing(q)

(* The id the next INSERT INTO files gets. *)
IsNextFileId(i) ==
    IF Sqlite
    THEN /\ \A j \in FileId : files[j].key # NoKey => j < i
         /\ i > 1 => files[i - 1].key # NoKey
    ELSE i = fileSeq + 1

-----------------------------------------------------------------------------
(* The user rows change while file requests are in flight: create_user and *)
(* delete_user, each taken as the one step in which it commits.            *)
(* Mutants: ids without sqlite_autoincrement; a sequence that skips. *)
ReusedUserId == CHOOSE i \in UserId : users[i] = 0
SkippingUserId == userSeq + 2

NextUserId == userSeq + 1

CreateUser ==
    /\ accounts < MaxAccounts
    /\ Sqlite => \A q \in Request : tx[q] = "none"
    /\ accounts' = accounts + 1
    /\ users' = [users EXCEPT ![NextUserId] = accounts + 1]
    /\ userSeq' = NextUserId
    /\ UNCHANGED <<files, fileSeq, tx>>

(* ON DELETE SET NULL on files.created_by.  The only administrator cannot  *)
(* delete itself.  A pending INSERT that refers to the user, or a pending  *)
(* DELETE of one of its files, makes the statement wait.                   *)
DeleteUser(u, pendingOwner, target) ==
    /\ users[u] > 1
    /\ \A q \in Request :
         IF Sqlite THEN tx[q] = "none"
         ELSE /\ tx[q] = "insert" => pendingOwner[q] # u
              /\ tx[q] = "delete" => files[target[q]].owner # u
    /\ users' = [users EXCEPT ![u] = 0]
    /\ files' = [i \in FileId |->
                   IF files[i].owner = u THEN [files[i] EXCEPT !.owner = 0] ELSE files[i]]
    /\ UNCHANGED <<userSeq, accounts, fileSeq, tx>>
=============================================================================
