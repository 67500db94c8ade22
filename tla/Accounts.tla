------------------------------ MODULE Accounts ------------------------------
(***************************************************************************)
(* User accounts (modules/user/service.py): create_user, create_superuser, *)
(* update_user and delete_user, each a coroutine with a session of its own *)
(* that follows an authentication in another, already closed, session.     *)
(*                                                                         *)
(* pc is the await a request stands at, or its answer.  A transaction is   *)
(* open from the first statement (SHARED on SQLite), writes with one       *)
(* statement (RESERVED on SQLite, row and index locks elsewhere, at READ   *)
(* COMMITTED) and is seen when it commits (EXCLUSIVE on SQLite).           *)
(***************************************************************************)
EXTENDS Integers

CONSTANTS
    Creates, Updates, Deletes,  \* the requests of one run
    Sqlite,                     \* BOOLEAN: the dialect
    Admins,                     \* how many administrators exist at first
    Users,                      \* how many accounts exist at first
    MaxName, MaxEmail,          \* bound the names and e-mail addresses
    MaxId,                      \* bounds the ids given
    Faults                      \* may contain "database"

Request == Creates \cup Updates \cup Deletes

VARIABLES
    rows,    \* id -> the committed row, Gone if there is none
    seq,     \* the largest id ever given
    pc,      \* the await at which the request stands, or its answer
    actor,   \* the id in the snapshot authentication returned, 0 for the CLI
    ask,     \* the fields the request provides
    target,  \* the id it is about
    seen     \* the row it loaded

vars == <<rows, seq, pc, actor, ask, target, seen>>

Id == 1..MaxId
NoEmail == 0
Value == [name |-> 1..MaxName, email |-> 0..MaxEmail, active |-> BOOLEAN]
Field == DOMAIN Value
Account == [name : Value.name, email : Value.email, active : BOOLEAN, super : BOOLEAN]
Gone == [name |-> 0, email |-> NoEmail, active |-> FALSE, super |-> FALSE]

(* Mutant: a PATCH may set the name to null. *)
PatchWithNull ==
    {[f \in S |-> b[f]] : b \in [name : Value.name \cup {0}, email : Value.email, active : BOOLEAN],
                         S \in SUBSET Field}

(* A body that passed UserCreate or UserUpdate.  PATCH leaves fields out;  *)
(* only email may be null.                                                 *)
Body == [name : Value.name, email : Value.email, active : BOOLEAN]
Patch == {[f \in S |-> b[f]] : b \in Body, S \in SUBSET Field}
Nothing == [f \in {} |-> NoEmail]

Answer == {"ok", "conflict", "missing", "self", "error"}
PC == {"new", "load", "name", "email", "write", "commit"} \cup Answer

Exists(i) == i \in Id /\ rows[i] # Gone
Administrators == {i \in Id : rows[i].super}

TypeOK ==
    /\ rows \in [Id -> Account \cup {Gone}]
    /\ seq \in 0..MaxId
    /\ pc \in [Request -> PC]
    /\ actor \in [Request -> 0..MaxId]
    /\ ask \in [Request -> Patch]
    /\ target \in [Request -> 0..MaxId]
    /\ seen \in [Request -> Account \cup {Gone}]

Init ==
    /\ rows = [i \in Id |-> IF i > Users THEN Gone
                 ELSE [name |-> i, email |-> IF i <= MaxEmail THEN i ELSE NoEmail,
                       active |-> TRUE, super |-> i <= Admins]]
    /\ seq = Users
    /\ pc = [r \in Request |-> "new"]
    /\ actor = [r \in Request |-> 0]
    /\ ask = [r \in Request |-> Nothing]
    /\ target = [r \in Request |-> 0]
    /\ seen = [r \in Request |-> Gone]

-----------------------------------------------------------------------------
(* Mutant: an UPDATE that names every column. *)
ChangedAll(r) == Field

(* What a request writes: the ORM compares the assigned attributes with    *)
(* the loaded ones and its UPDATE names only those that differ.            *)
Changed(r) == {f \in DOMAIN ask[r] : ask[r][f] # seen[r][f]}

(* The fields g gives, and those of h that g leaves out. *)
Over(g, h) == [f \in DOMAIN g \cup DOMAIN h |-> IF f \in DOMAIN g THEN g[f] ELSE h[f]]

After(r, i) ==
    CASE r \in Creates -> Over(ask[r], [super |-> actor[r] = 0])
      [] r \in Updates -> Over([f \in Changed(r) |-> Over(ask[r], seen[r])[f]], rows[i])
      [] r \in Deletes -> Gone

(* A PATCH that changes nothing issues no UPDATE. *)
Silent(r) == r \in Updates /\ Changed(r) = {}

(* Transactions. *)
Writing(r) == pc[r] = "commit" /\ ~Silent(r)
(* Mutant: the driver's legacy mode, where a SELECT opens no transaction. *)
ReadingNothing(r) == FALSE

Reading(r) == \/ pc[r] \in {"name", "email"}
              \/ pc[r] = "write" /\ r \notin Creates
              \/ pc[r] = "commit" /\ ~Writing(r)
Open(r) == Reading(r) \/ Writing(r)

(* Two rows may not share a name, nor an address other than NULL. *)
Clash(a, b) == a.name = b.name \/ (a.email = b.email /\ a.email # NoEmail)

(* Mutant: no constraint in the table, only _check_unique. *)
NoConstraint(r, i) == FALSE
Violates(r, i) ==
    r \notin Deletes /\ \E j \in Id \ {i} : rows[j] # Gone /\ Clash(After(r, i), rows[j])

(* A statement waits for another transaction that holds RESERVED, or the   *)
(* same row, or a value its own row may clash with.                        *)
Blocked(r, i) ==
    \E q \in Request \ {r} :
        /\ Writing(q)
        /\ \/ Sqlite
           \/ target[q] = i
           \/ r \notin Deletes /\ Clash(After(r, i), rows[target[q]])
           \/ {r, q} \cap Deletes = {} /\ Clash(After(r, i), After(q, target[q]))

-----------------------------------------------------------------------------
Step(r, at, to) == pc[r] = at /\ pc' = [pc EXCEPT ![r] = to]

(* require_permission: the snapshot of an active administrator, taken in a *)
(* session that is closed at once.                                         *)
Permitted(a) == Exists(a) /\ rows[a].active /\ rows[a].super

Arrive(r, a, i, p) ==
    /\ Permitted(a)
    /\ actor' = [actor EXCEPT ![r] = a]
    /\ target' = [target EXCEPT ![r] = i]
    /\ ask' = [ask EXCEPT ![r] = p]
    /\ UNCHANGED <<rows, seq, seen>>

(* create_user; create_superuser is the CLI's, and active whatever it asks. *)
ArriveCreate(r) ==
    /\ Step(r, "new", "write")
    /\ \E b \in Body :
         \/ \E a \in Id : Arrive(r, a, 0, b)
         \/ /\ b.active
            /\ ask' = [ask EXCEPT ![r] = b]
            /\ UNCHANGED <<rows, seq, actor, target, seen>>

ArriveUpdate(r) ==
    Step(r, "new", "load") /\ \E a, i \in Id, p \in Patch : Arrive(r, a, i, p)

(* Mutant: no rule against deleting oneself. *)
ArriveDeleteAny(r) ==
    Step(r, "new", "load") /\ \E a, i \in Id : Arrive(r, a, i, Nothing)

ArriveDelete(r) ==
    \E a, i \in Id :
        /\ Step(r, "new", IF i = a THEN "self" ELSE "load")
        /\ Arrive(r, a, i, Nothing)

(* get_user *)
Load(r) ==
    /\ Step(r, "load", IF ~Exists(target[r]) THEN "missing"
                       ELSE IF r \in Updates THEN "name" ELSE "write")
    /\ seen' = [seen EXCEPT ![r] = rows[target[r]]]
    /\ UNCHANGED <<rows, seq, actor, ask, target>>

(* _check_unique: a SELECT for the name and one for the address, with what *)
(* the row had when it was loaded where the request provides nothing.      *)
Held(r, f) ==
    LET v == Over(ask[r], seen[r])[f]
    IN  v # NoEmail /\ \E j \in Id \ {target[r]} : rows[j] # Gone /\ rows[j][f] = v

CheckUnique(r, f, next) ==
    /\ Step(r, f, IF Held(r, f) THEN "conflict" ELSE next)
    /\ UNCHANGED <<rows, seq, actor, ask, target, seen>>

(* The one writing statement of a transaction, and the refresh after it.   *)
(* SQLite refuses the statement at once to a transaction that has read     *)
(* while another writes; a row that is gone stops an UPDATE or its refresh,*)
(* and only warns a DELETE.                                                *)
Statement(r, i) ==
    /\ Step(r, "write",
            IF Sqlite /\ r \notin Creates /\ ~Silent(r) /\ Blocked(r, i) THEN "error"
            ELSE IF r \in Updates /\ ~Exists(i) THEN "error"
            ELSE IF Violates(r, i) THEN "conflict"
            ELSE "commit")
    /\ target' = [target EXCEPT ![r] = i]
    /\ UNCHANGED <<rows, actor, ask, seen>>

Insert(r) ==
    /\ r \in Creates /\ pc[r] = "write" /\ seq < MaxId /\ ~Blocked(r, seq + 1)
    /\ Statement(r, seq + 1)
    /\ seq' = seq + 1

Change(r) ==
    /\ r \notin Creates /\ pc[r] = "write"
    /\ Sqlite \/ ~Blocked(r, target[r]) \/ Silent(r)
    /\ Statement(r, target[r])
    /\ UNCHANGED seq

Apply(r) ==
    rows' = IF Writing(r) THEN [rows EXCEPT ![target[r]] = After(r, target[r])] ELSE rows

(* SQLite's EXCLUSIVE waits for every other transaction to end. *)
MayCommit(r) == ~(Sqlite /\ Writing(r)) \/ \A q \in Request \ {r} : ~Open(q)

Commit(r) ==
    /\ Step(r, "commit", "ok") /\ MayCommit(r)
    /\ Apply(r)
    /\ UNCHANGED <<seq, actor, ask, target, seen>>

(* A statement that fails or waits too long, a cancellation, a commit whose *)
(* answer is lost: the except clause, or the end of the session, rolls back *)
(* what was not committed.                                                  *)
Fail(r) ==
    /\ "database" \in Faults
    /\ pc[r] \in PC \ ({"new"} \cup Answer)
    /\ pc' = [pc EXCEPT ![r] = "error"]
    /\ UNCHANGED rows \/ (pc[r] = "commit" /\ MayCommit(r) /\ Apply(r))
    /\ UNCHANGED <<seq, actor, ask, target, seen>>

(* What goes on without the client, everything but arrivals and failures:  *)
(* the event loop resumes a coroutine whose statement has its lock.        *)
Proceed(r) ==
    \/ Load(r)
    \/ CheckUnique(r, "name", "email")
    \/ CheckUnique(r, "email", "write")
    \/ Insert(r)
    \/ Change(r)
    \/ Commit(r)

Next ==
    \/ \E r \in Creates : ArriveCreate(r)
    \/ \E r \in Updates : ArriveUpdate(r)
    \/ \E r \in Deletes : ArriveDelete(r)
    \/ \E r \in Request : Proceed(r) \/ Fail(r)

Spec == Init /\ [][Next]_vars

-----------------------------------------------------------------------------
(* No two accounts share a name or an address, whatever races (the checks  *)
(* of create_user and update_user, with the constraints behind them).      *)
AccountsDistinct ==
    \A i, j \in Id : i # j /\ rows[i] # Gone /\ rows[j] # Gone => ~Clash(rows[i], rows[j])

(* A 201 is kept: the account is there until a DELETE of its id commits,   *)
(* and no other request was given the id.                                  *)
CreatedIsKept ==
    \A r \in Creates : pc[r] = "ok" =>
        /\ \/ Exists(target[r])
           \/ \E d \in Deletes : target[d] = target[r] /\ pc[d] \in {"ok", "error"}
        /\ \A q \in Creates \ {r} : pc[q] = "ok" => target[q] # target[r]

(* Two PATCHes of one account do not overwrite each other: a commit leaves *)
(* the fields its request did not provide as they are in the table.        *)
OnlyProvided ==
    \A r \in Updates : pc[r] = "commit" /\ pc'[r] # "commit" /\ Exists(target[r]) =>
        \A f \in DOMAIN rows[target[r]] \ DOMAIN ask[r] :
            rows'[target[r]][f] = rows[target[r]][f]

(* On SQLite the transaction that loaded the row also commits it: what a   *)
(* PATCH answers 200 to is what the table then holds.                      *)
PatchIsExact ==
    \A r \in Updates : pc[r] = "commit" /\ pc'[r] = "ok" =>
        rows'[target[r]] = Over(ask[r], rows[target[r]])

(* A 409 names a real rival: at that moment another account holds a value  *)
(* this request provided.                                                  *)
ConflictIsReal ==
    \A r \in Request : pc'[r] = "conflict" /\ pc[r] # "conflict" =>
        \E j \in Id \ {target'[r]}, f \in DOMAIN ask[r] \cap {"name", "email"} :
            rows[j] # Gone /\ rows[j][f] = ask[r][f] /\ ask[r][f] # NoEmail

(* The last administrator is removed only by a request whose own account   *)
(* was deleted after it had been authenticated: deleting one after the     *)
(* other always leaves one (the self-delete rule over a stale snapshot).   *)
LastByStale ==
    Administrators # {} /\ Administrators' = {} =>
        \E r \in Deletes : pc[r] = "commit" /\ pc'[r] # "commit"
                            /\ actor[r] \notin Administrators

Begun(r) == pc[r] # "new"
Answered(r) == pc[r] \in Answer
Served(r) == pc[r] \in {"ok", "conflict"}
=============================================================================
