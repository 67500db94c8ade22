----------------------------- MODULE Migrations -----------------------------
(***************************************************************************)
(* `fastplus db upgrade` and `fastplus db downgrade -- -1` (cli/db.py),    *)
(* which several operators or deployments may run at once and which may    *)
(* die.  alembic/env.py runs all revisions of a command in one transaction *)
(* that it opens itself; revision 1 is the users table, revision 2 the     *)
(* files table, and table 0 is Alembic's own, with the version.            *)
(*                                                                         *)
(* On SQLite a transaction that has read cannot begin to write while       *)
(* another writes, and commits when it is alone.  PostgreSQL lets DDL wait *)
(* for the transaction that created the same table.  MySQL commits before  *)
(* and after every DDL statement.                                          *)
(***************************************************************************)
EXTENDS Integers, FiniteSets

CONSTANTS
    Commands,   \* the command runs
    Kinds,      \* which commands are run: subset of {"upgrade", "downgrade"}
    Dialect,    \* "sqlite", "postgresql" or "mysql"
    Faults      \* what may go wrong: subset of {"kill", "database"}

VARIABLES
    tables,     \* the committed tables
    version,    \* the committed version, 0 for none
    pc,
    kind,       \* command -> what it was asked for
    at,         \* command -> the revision it takes the database to be at
    target,     \* command -> the revision it goes to
    mine,       \* command -> the tables it made and dropped, and the version it set
    broken      \* some command failed or died

vars == <<tables, version, pc, kind, at, target, mine, broken>>

Head == 2
Revision == 0..Head
Unset == -1
Nothing == [made |-> {}, dropped |-> {}, version |-> Unset]

TypeOK ==
    /\ tables \subseteq Revision /\ version \in Revision
    /\ pc \in [Commands -> {"new", "ensure", "next", "stamp", "ok", "failed", "dead"}]
    /\ kind \in [Commands -> Kinds]
    /\ at \in [Commands -> Revision] /\ target \in [Commands -> Revision]
    /\ mine \in [Commands -> [made : SUBSET Revision, dropped : SUBSET Revision,
                              version : Revision \cup {Unset}]]
    /\ \A c \in Commands : pc[c] \in {"new", "ok", "failed", "dead"} => mine[c] = Nothing
    /\ broken \in BOOLEAN

Init ==
    /\ version \in Revision
    /\ tables = (IF version = 0 THEN {} ELSE 0..version)
    /\ pc = [c \in Commands |-> "new"]
    /\ kind \in [Commands -> Kinds]
    /\ at = [c \in Commands |-> 0] /\ target = [c \in Commands |-> 0]
    /\ mine = [c \in Commands |-> Nothing]
    /\ broken = FALSE

-----------------------------------------------------------------------------
Tables(c) == (tables \cup mine[c].made) \ mine[c].dropped
Version(c) == IF mine[c].version = Unset THEN version ELSE mine[c].version
InTransaction(c) == pc[c] \in {"ensure", "next", "stamp"}
Writing(c) == mine[c] # Nothing
Others(c) == Commands \ {c}

Go(c, to) == pc' = [pc EXCEPT ![c] = to]
Persist(c) == tables' = Tables(c) /\ version' = Version(c)
End(c, result) == Go(c, result) /\ mine' = [mine EXCEPT ![c] = Nothing]

Autocommits == Dialect = "mysql"

(* The transaction of engine.begin() is rolled back. *)
Fail(c) ==
    /\ End(c, "failed") /\ broken' = TRUE
    /\ UNCHANGED <<tables, version, kind, at, target>>

(* current_heads: SQLite keeps the lock of this read. *)
ReadHeads(c) ==
    /\ pc[c] = "new"
    /\ at' = [at EXCEPT ![c] = version]
    /\ IF kind[c] = "upgrade" THEN target' = [target EXCEPT ![c] = Head]
       ELSE target' = [target EXCEPT ![c] = IF version = 0 THEN 0 ELSE version - 1]
    /\ Go(c, IF kind[c] = "downgrade" /\ version = 0 THEN "failed"
             ELSE IF version = 0 THEN "ensure" ELSE "next")
    /\ UNCHANGED <<tables, version, kind, mine, broken>>

(* SQLite refuses the lock to a transaction that has read. *)
Refused(c) == Dialect = "sqlite" /\ \E q \in Others(c) : Writing(q)

(* The files table refers to the users table. *)
References(t) == IF t = 2 THEN {1} ELSE {}
Locks(ts) == ts \cup UNION {References(t) : t \in ts}

(* Another transaction has locked one of the tables, or the version's row. *)
Waits(c, changed) ==
    \E q \in Others(c) :
        \/ Dialect = "sqlite" /\ Writing(q)
        \/ Locks(mine[q].made \cup mine[q].dropped) \cap Locks(changed) # {}
        \/ changed = {} /\ mine[q].version # Unset

(* One DDL statement; "allowed" is what the database asks of the tables.   *)
Statement(c, made, dropped, allowed, to) ==
    IF Refused(c) THEN Fail(c)
    ELSE /\ ~Waits(c, made \cup dropped)
         /\ IF ~allowed
            THEN /\ IF Autocommits THEN Persist(c) ELSE UNCHANGED <<tables, version>>
                 /\ End(c, "failed") /\ broken' = TRUE
            ELSE IF Autocommits
            THEN /\ tables' = (Tables(c) \cup made) \ dropped /\ version' = Version(c)
                 /\ mine' = [mine EXCEPT ![c] = Nothing]
                 /\ Go(c, to) /\ UNCHANGED broken
            ELSE /\ mine' = [mine EXCEPT ![c].made = (@ \cup made) \ dropped,
                                         ![c].dropped = (@ \cup dropped) \ made]
                 /\ Go(c, to) /\ UNCHANGED <<tables, version, broken>>
         /\ UNCHANGED <<kind, at, target>>

(* Alembic creates its table when it has found no version. *)
EnsureVersionTable(c) ==
    /\ pc[c] = "ensure"
    /\ IF 0 \in tables
       THEN Go(c, "next") /\ UNCHANGED <<tables, version, kind, at, target, mine, broken>>
       ELSE Statement(c, {0}, {}, TRUE, "next")

(* upgrade() of the next revision. *)
CreateTable(c) ==
    /\ pc[c] = "next" /\ at[c] < target[c]
    /\ LET t == at[c] + 1 IN
       Statement(c, {t}, {}, t \notin Tables(c) /\ References(t) \subseteq Tables(c), "stamp")

(* downgrade() of the present one. *)
DropTable(c) ==
    /\ pc[c] = "next" /\ at[c] > target[c]
    /\ LET t == at[c] IN
       Statement(c, {}, {t}, t \in Tables(c) /\ \A u \in Tables(c) : t \notin References(u),
                 "stamp")

Toward(c) == IF at[c] < target[c] THEN at[c] + 1 ELSE at[c] - 1

(* The version row is inserted, updated or deleted; it must be the one the *)
(* command started from.                                                   *)
Stamp(c) ==
    /\ pc[c] = "stamp"
    /\ IF Refused(c) \/ (~Waits(c, {}) /\ Version(c) # at[c]) THEN Fail(c)
       ELSE /\ ~Waits(c, {})
            /\ mine' = [mine EXCEPT ![c].version = Toward(c)]
            /\ at' = [at EXCEPT ![c] = Toward(c)]
            /\ Go(c, "next") /\ UNCHANGED <<tables, version, kind, target, broken>>

(* Mutant: engine.connect() instead of engine.begin(). *)
CommitForgotten(c) ==
    /\ pc[c] = "next" /\ at[c] = target[c] /\ End(c, "ok")
    /\ UNCHANGED <<tables, version, kind, at, target, broken>>

(* engine.begin() commits when its block ends normally. *)
Commit(c) ==
    /\ pc[c] = "next" /\ at[c] = target[c]
    /\ Dialect = "sqlite" /\ Writing(c) => \A q \in Others(c) : ~InTransaction(q)
    /\ Persist(c) /\ End(c, "ok")
    /\ UNCHANGED <<kind, at, target, broken>>

(* A transaction ends before it is committed; where DDL commits, the       *)
(* version set before the statement may have been.                         *)
Interrupt(c, result) ==
    /\ InTransaction(c) /\ End(c, result) /\ broken' = TRUE
    /\ UNCHANGED <<tables, version>> \/ (Autocommits /\ Persist(c))
    /\ UNCHANGED <<kind, at, target>>

Error(c) == "database" \in Faults /\ Interrupt(c, "failed")

Kill(c) == "kill" \in Faults /\ Interrupt(c, "dead")

Proceed(c) ==
    EnsureVersionTable(c) \/ CreateTable(c) \/ DropTable(c) \/ Stamp(c) \/ Commit(c)

Next == \E c \in Commands : ReadHeads(c) \/ Proceed(c) \/ Error(c) \/ Kill(c)

Spec == Init /\ [][Next]_vars

-----------------------------------------------------------------------------
Stamped(v) == tables \ {0} = 1..v

(* The version and the tables persist together, whatever fails, dies or    *)
(* runs at the same time: where DDL is transactional, every committed      *)
(* state is that of a revision (env.py 46).                                *)
SchemaIsStamped == Stamped(version) /\ (version > 0 => 0 \in tables)

(* On MySQL, concurrent upgrades may leave the tables one revision away    *)
(* from the version, never more, and only when a command has failed or     *)
(* died.                                                                   *)
OneStepApart ==
    /\ \E v \in Revision : Stamped(v) /\ v - version \in -1..1
    /\ ~Stamped(version) => broken \/ \E c \in Commands : InTransaction(c)

(* A command that changed something and reports success has left the       *)
(* database at its target, although another may have run beside it.        *)
DoneIsTarget ==
    \A c \in Commands : pc[c] = "next" /\ pc'[c] = "ok" /\ Writing(c) =>
        version' = target[c] /\ tables' \ {0} = 1..target[c]

Begun == \E c \in Commands : pc[c] # "new"
AtHead == version = Head
=============================================================================
