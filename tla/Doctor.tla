------------------------------- MODULE Doctor -------------------------------
(***************************************************************************)
(* `fastplus doctor` (cli/doctor.py): the configuration, the database and   *)
(* its migrations, then each backend that is enabled, one by one; a check  *)
(* that fails must not hide the others.  Meanwhile the database file and   *)
(* the services come and go.                                               *)
(***************************************************************************)
EXTENDS Naturals, Sequences

CONSTANTS
    Enabled     \* which of oss, cos, redis and celery are configured

VARIABLES
    pc,         \* "load", "find", "connect", "heads", "dispose", "checks", "checking", "end"
    check,      \* which of Checks is next
    database,   \* the state of the SQLite file: "none", "empty", "old", "head"
    outcome,    \* what reading the heads gave: "none", "error", "old" or "head"
    report,     \* the lines printed
    healthy,
    open,       \* the resources that are open
    exit        \* the exit code, or "none"

vars == <<pc, check, database, outcome, report, healthy, open, exit>>

Checks == <<"local", "oss", "cos", "redis", "celery">>
Lines == {"database", "migrations"} \cup {Checks[i] : i \in 1..Len(Checks)}

TypeOK ==
    /\ pc \in {"load", "find", "connect", "heads", "dispose", "checks", "checking", "end"}
    /\ check \in 1..(Len(Checks) + 1)
    /\ database \in {"none", "empty", "old", "head"}
    /\ outcome \in {"none", "error", "old", "head"}
    /\ report \in [Lines -> {"none", "OK", "FAIL", "unchecked", "disabled"}]
    /\ healthy \in BOOLEAN
    /\ open \subseteq {"engine", "redis", "celery"}
    /\ exit \in {"none", "0", "1", "2"} /\ (exit = "none" <=> pc # "end")

Init ==
    /\ pc = "load" /\ check = 1 /\ outcome = "none"
    /\ database \in {"none", "old", "head"}
    /\ report = [l \in Lines |-> "none"]
    /\ healthy = TRUE /\ open = {} /\ exit = "none"

-----------------------------------------------------------------------------
Exit(code) == pc' = "end" /\ exit' = code

(* command_errors: settings that are not valid and a missing alembic.ini   *)
(* give 2, any other error 1.                                              *)
Load ==
    /\ pc = "load"
    /\ \/ pc' = "find" /\ UNCHANGED exit
       \/ Exit("2")
       \/ Exit("1")
    /\ UNCHANGED <<check, database, outcome, report, healthy, open>>

(* current_heads: a database that is not there is not opened. *)
Find ==
    /\ pc = "find"
    /\ IF database = "none" THEN outcome' = "error" /\ pc' = "dispose"
       ELSE pc' = "connect" /\ UNCHANGED outcome
    /\ UNCHANGED <<check, database, report, healthy, open, exit>>

(* Mutant: the file is opened for writing, which makes a missing one. *)
OpenedForWriting(d) == IF d = "none" THEN "empty" ELSE d

(* The file after SQLite has opened it with mode=ro: as it was. *)
OpenedFile(d) == d

(* The file may have vanished since, or refuse to be opened. *)
Connect ==
    /\ pc = "connect" /\ open' = open \cup {"engine"}
    /\ database' = OpenedFile(database)
    /\ \/ database' # "none" /\ pc' = "heads" /\ UNCHANGED outcome
       \/ outcome' = "error" /\ pc' = "dispose"
    /\ UNCHANGED <<check, report, healthy, exit>>

ReadHeads ==
    /\ pc = "heads" /\ pc' = "dispose"
    /\ \/ outcome' = IF database = "head" THEN "head" ELSE "old"
       \/ outcome' = "error"
    /\ UNCHANGED <<check, database, report, healthy, open, exit>>

HealthyAfter(o) == o = "head"

DatabaseLines(o) ==
    [report EXCEPT !["database"] = IF o = "error" THEN "FAIL" ELSE "OK",
                   !["migrations"] = CASE o = "error" -> "unchecked"
                                       [] o = "old" -> "FAIL"
                                       [] OTHER -> "OK"]

(* finally: the engine is disposed of; then the two lines. *)
Dispose ==
    /\ pc = "dispose" /\ open' = open \ {"engine"}
    /\ report' = DatabaseLines(outcome) /\ healthy' = HealthyAfter(outcome)
    /\ pc' = "checks"
    /\ UNCHANGED <<check, database, outcome, exit>>

(* check_redis and check_celery open a client of their own; the other      *)
(* checks look at a directory or ask a bucket for one object.              *)
Opened(c) == {c} \cap {"redis", "celery"}

(* Whatever a check ended with, what it opened is closed. *)
KeptOpen(c, result) == {}

Disabled ==
    /\ pc = "checks" /\ check <= Len(Checks)
    /\ Checks[check] \notin Enabled \cup {"local"}
    /\ report' = [report EXCEPT ![Checks[check]] = "disabled"]
    /\ check' = check + 1
    /\ UNCHANGED <<pc, database, outcome, healthy, open, exit>>

BeginCheck ==
    /\ pc = "checks" /\ check <= Len(Checks)
    /\ Checks[check] \in Enabled \cup {"local"}
    /\ open' = open \cup Opened(Checks[check])
    /\ pc' = "checking"
    /\ UNCHANGED <<check, database, outcome, report, healthy, exit>>

EndCheck ==
    /\ pc = "checking" /\ pc' = "checks"
    /\ \E result \in {"OK", "FAIL"} :
         /\ report' = [report EXCEPT ![Checks[check]] = result]
         /\ healthy' = (healthy /\ result = "OK")
         /\ open' = (open \ Opened(Checks[check])) \cup KeptOpen(Checks[check], result)
    /\ check' = check + 1
    /\ UNCHANGED <<database, outcome, exit>>

Finish ==
    /\ pc = "checks" /\ check > Len(Checks)
    /\ Exit(IF healthy THEN "0" ELSE "1")
    /\ UNCHANGED <<check, database, outcome, report, healthy, open>>

(* Somebody moves the file away, or migrates it. *)
Environment ==
    /\ pc \in {"find", "connect", "heads"}
    /\ \/ database' = "none"
       \/ database = "old" /\ database' = "head"
    /\ UNCHANGED <<pc, check, outcome, report, healthy, open, exit>>

Next == \/ Load \/ Find \/ Connect \/ ReadHeads \/ Dispose
        \/ Disabled \/ BeginCheck \/ EndCheck \/ Finish \/ Environment

Spec == Init /\ [][Next]_vars

-----------------------------------------------------------------------------
(* A diagnosis that was begun reports every line, whichever of the checks  *)
(* before it failed.                                                       *)
ReportIsComplete ==
    pc = "end" /\ report["database"] # "none" => \A l \in Lines : report[l] # "none"

(* The exit code is 0 only when every line says OK or disabled.            *)
ExitTellsReport ==
    exit = "0" => \A l \in Lines : report[l] \in {"OK", "disabled"}

(* The diagnosis is read-only: a database file that vanishes between the   *)
(* look for it and its opening is not created again.                       *)
NeverCreates == database # "empty"

(* However the checks went, everything they opened is closed at the end.   *)
NothingLeftOpen == pc = "end" => open = {}

=============================================================================
