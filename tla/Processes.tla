----------------------------- MODULE Processes -----------------------------
(***************************************************************************)
(* What happens around the requests: start and stop of the application,    *)
(* background tasks, storage backends over several configurations,         *)
(* diagnosis, migrations, and the assembly of a process from its settings. *)
(* Their models share nothing; a behaviour is of one of them, which part   *)
(* names.                                                                  *)
(***************************************************************************)
EXTENDS Naturals

CONSTANTS
    AppFeatures, MaxLives,                              \* Lifespan
    RetryTasks, RetryWorkers, max_retries,              \* TaskRuns, many retries
    ContextTasks, ContextWorkers, ContextRetries,       \* TaskRuns, many tasks
    MaxRedeliveries, TaskFaults,
    File, Backend, MaxRestarts, MaxFaults,              \* StorageBackends
    DoctorFeatures,                                     \* Doctor
    Commands, SchemaFaults,                             \* Migrations
    Urls, Secrets, Databases                            \* Assembly

VARIABLES
    part,    \* which component the behaviour is of
    appPc, life, state, opened, closes, undisposed,
    published, queue, sent, redelivered, tasksPc, run, context, previous,
    raised, engine, glitched, finished, unlogged,
    filesRegistry, default, health, record, store, urls, deleted,
    filesAnswer, restarts, faults,
    doctorPc, check, database, outcome, report, healthy, open, exit,
    tables, version, schemaPc, kind, at, target, mine, broken,
    settings, process, bootPc, bootRegistry, made, missed, bootAnswer

app == <<appPc, life, state, opened, closes, undisposed>>
tasks == <<published, queue, sent, redelivered, tasksPc, run, context,
           previous, raised, engine, glitched, finished, unlogged>>
files == <<filesRegistry, default, health, record, store, urls, deleted,
           filesAnswer, restarts, faults>>
doctor == <<doctorPc, check, database, outcome, report, healthy, open,
            exit>>
schema == <<tables, version, schemaPc, kind, at, target, mine, broken>>
boot == <<settings, process, bootPc, bootRegistry, made, missed,
          bootAnswer>>
vars == <<part, app, tasks, files, doctor, schema, boot>>

Lifespan == INSTANCE Lifespan WITH Enabled <- AppFeatures, pc <- appPc
Retries == INSTANCE TaskRunsProofs WITH Task <- RetryTasks, Workers <- RetryWorkers,
             Faults <- TaskFaults, pc <- tasksPc
Contexts == INSTANCE TaskRunsProofs WITH Task <- ContextTasks, Workers <- ContextWorkers,
              max_retries <- ContextRetries, Faults <- TaskFaults, pc <- tasksPc
Storage == INSTANCE StorageBackends WITH registry <- filesRegistry, answer <- filesAnswer
Diagnosis == INSTANCE Doctor WITH Enabled <- DoctorFeatures, pc <- doctorPc
Lite == INSTANCE MigrationsProofs WITH Kinds <- {"upgrade", "downgrade"}, Dialect <- "sqlite",
          Faults <- SchemaFaults, pc <- schemaPc
Postgres == INSTANCE MigrationsProofs WITH Kinds <- {"upgrade", "downgrade"},
              Dialect <- "postgresql", Faults <- SchemaFaults, pc <- schemaPc
(* Upgrades only: MySQL's DDL commits. *)
MySQL == INSTANCE MigrationsProofs WITH Kinds <- {"upgrade"}, Dialect <- "mysql",
           Faults <- SchemaFaults, pc <- schemaPc
Assembly == INSTANCE Assembly WITH pc <- bootPc, registry <- bootRegistry,
              answer <- bootAnswer

(* What the settings allow, and the names the modules use. *)
ASSUME LifespanBounds == MaxLives \in Nat
ASSUME TaskBounds ==
    /\ {max_retries, ContextRetries, MaxRedeliveries} \subseteq Nat
    /\ {"caller", "none", "request", "fresh", "no"} \cap
         (RetryTasks \cup RetryWorkers \cup ContextTasks \cup ContextWorkers) = {}
ASSUME StorageBounds ==
    /\ "local" \in Backend /\ Backend \subseteq {"local", "oss", "cos"}
    /\ {MaxRestarts, MaxFaults} \subseteq Nat

(* A component that is not the behaviour's does nothing. *)
NoApp == appPc = 0 /\ life = 0 /\ state = 0 /\ opened = 0 /\ closes = 0
         /\ undisposed = 0
NoTasks == published = 0 /\ queue = 0 /\ sent = 0 /\ redelivered = 0
           /\ tasksPc = 0 /\ run = 0 /\ context = 0 /\ previous = 0
           /\ raised = 0 /\ engine = 0 /\ glitched = 0 /\ finished = 0
           /\ unlogged = 0
NoFiles == filesRegistry = 0 /\ default = 0 /\ health = 0 /\ record = 0
           /\ store = 0 /\ urls = 0 /\ deleted = 0 /\ filesAnswer = 0
           /\ restarts = 0 /\ faults = 0
NoDoctor == doctorPc = 0 /\ check = 0 /\ database = 0 /\ outcome = 0
            /\ report = 0 /\ healthy = 0 /\ open = 0 /\ exit = 0
NoSchema == tables = 0 /\ version = 0 /\ schemaPc = 0 /\ kind = 0 /\ at = 0
            /\ target = 0 /\ mine = 0 /\ broken = 0
NoBoot == settings = 0 /\ process = 0 /\ bootPc = 0 /\ bootRegistry = 0
          /\ made = 0 /\ missed = 0 /\ bootAnswer = 0

Init ==
    \/ part = "lifespan" /\ Lifespan!Init /\ NoTasks /\ NoFiles /\ NoDoctor
       /\ NoSchema /\ NoBoot
    \/ part = "retries" /\ Retries!Init /\ NoApp /\ NoFiles /\ NoDoctor
       /\ NoSchema /\ NoBoot
    \/ part = "contexts" /\ Contexts!Init /\ NoApp /\ NoFiles /\ NoDoctor
       /\ NoSchema /\ NoBoot
    \/ part = "storage" /\ Storage!Init /\ NoApp /\ NoTasks /\ NoDoctor
       /\ NoSchema /\ NoBoot
    \/ part = "doctor" /\ Diagnosis!Init /\ NoApp /\ NoTasks /\ NoFiles
       /\ NoSchema /\ NoBoot
    \/ part = "sqlite" /\ Lite!Init /\ NoApp /\ NoTasks /\ NoFiles
       /\ NoDoctor /\ NoBoot
    \/ part = "postgresql" /\ Postgres!Init /\ NoApp /\ NoTasks /\ NoFiles
       /\ NoDoctor /\ NoBoot
    \/ part = "mysql" /\ MySQL!Init /\ NoApp /\ NoTasks /\ NoFiles
       /\ NoDoctor /\ NoBoot
    \/ part = "assembly" /\ Assembly!Init /\ NoApp /\ NoTasks /\ NoFiles
       /\ NoDoctor /\ NoSchema

Next ==
    \/ part = "lifespan" /\ Lifespan!Next /\ UNCHANGED <<part, tasks, files,
       doctor, schema, boot>>
    \/ part = "retries" /\ Retries!Next /\ UNCHANGED <<part, app, files,
       doctor, schema, boot>>
    \/ part = "contexts" /\ Contexts!Next /\ UNCHANGED <<part, app, files,
       doctor, schema, boot>>
    \/ part = "storage" /\ Storage!Next /\ UNCHANGED <<part, app, tasks,
       doctor, schema, boot>>
    \/ part = "doctor" /\ Diagnosis!Next /\ UNCHANGED <<part, app, tasks,
       files, schema, boot>>
    \/ part = "sqlite" /\ Lite!Next /\ UNCHANGED <<part, app, tasks, files,
       doctor, boot>>
    \/ part = "postgresql" /\ Postgres!Next /\ UNCHANGED <<part, app, tasks,
       files, doctor, boot>>
    \/ part = "mysql" /\ MySQL!Next /\ UNCHANGED <<part, app, tasks, files,
       doctor, boot>>
    \/ part = "assembly" /\ Assembly!Next /\ UNCHANGED <<part, app, tasks,
       files, doctor, schema>>

Spec == Init /\ [][Next]_vars

-----------------------------------------------------------------------------
(* Types, in each instance. *)
TypeOK ==
    CASE part = "lifespan" -> Lifespan!TypeOK
      [] part = "retries" -> Retries!TypeOK
      [] part = "contexts" -> Contexts!TypeOK
      [] part = "storage" -> Storage!TypeOK
      [] part = "doctor" -> Diagnosis!TypeOK
      [] part = "sqlite" -> Lite!TypeOK
      [] part = "postgresql" -> Postgres!TypeOK
      [] part = "mysql" -> MySQL!TypeOK
      [] part = "assembly" -> Assembly!TypeOK

(* However far a startup came and whatever failed on the way down, what it *)
(* opened is closed, once, and no later life serves with what an earlier   *)
(* one left in app.state (startup, shutdown).                              *)
ClosedOnce ==
    part = "lifespan" => /\ Lifespan!Released /\ Lifespan!ClosedOnce
                         /\ Lifespan!ServesItsOwn

(* Whichever worker runs a task, at whichever retry or redelivery, it logs *)
(* under the request that published it; a request that calls a task itself *)
(* has its own context back afterwards (BaseTask.__call__, add_context).   *)
RunsInItsContext ==
    CASE part = "retries" -> Retries!RunsInItsContext /\ Retries!ContextGivenBack
      [] part = "contexts" -> Contexts!RunsInItsContext /\ Contexts!ContextGivenBack
      [] OTHER -> TRUE

(* Every retry there is follows a run that failed transiently and whose    *)
(* event said "retry", an event "success" is of a run that returned, and   *)
(* no engine outlives the run it was made for (BaseTask, the bridge).      *)
RetryIsTold ==
    CASE part = "retries" -> /\ Retries!RetryIsTold /\ Retries!SuccessReturned
                            /\ Retries!EngineReleased
      [] part = "contexts" -> /\ Contexts!RetryIsTold /\ Contexts!SuccessReturned
                             /\ Contexts!EngineReleased
      [] OTHER -> TRUE

(* "File not found" is the truth about the backend the row names, unless a *)
(* COS answers for a missing bucket without naming it; and a file whose    *)
(* DELETE was acknowledged is in no backend, whatever was the default when *)
(* (StorageRegistry.get, exists and delete of the adapters).               *)
NotFoundIsTrue == part = "storage" => Storage!NotFoundIsTrue /\ Storage!DeletedIsGone

(* Whichever checks fail, doctor reports every line, exits 0 only when all *)
(* are well, closes what it opened and creates no database file.           *)
DoctorIsTrue ==
    part = "doctor" => /\ Diagnosis!ReportIsComplete /\ Diagnosis!ExitTellsReport
                       /\ Diagnosis!NeverCreates /\ Diagnosis!NothingLeftOpen

(* The version and the tables persist together, whatever fails, dies or    *)
(* runs at once; on MySQL they are one revision apart at most, and only    *)
(* after a failure; a command that says done has left its target.          *)
SchemaIsStamped ==
    /\ [](CASE part = "sqlite" -> Lite!SchemaIsStamped
           [] part = "postgresql" -> Postgres!SchemaIsStamped
           [] part = "mysql" -> MySQL!OneStepApart
           [] OTHER -> TRUE)
    /\ [][CASE part = "sqlite" -> Lite!DoneIsTarget
            [] part = "postgresql" -> Postgres!DoneIsTarget
            [] part = "mysql" -> MySQL!DoneIsTarget
            [] OTHER -> TRUE]_vars

(* Settings the validators accept fail no assertion and no lookup of the   *)
(* start or of a request, and what is disabled is never missed.            *)
AcceptedSuffices ==
    part = "assembly" => Assembly!AcceptedSuffices /\ Assembly!DisabledIsNotMissed
=============================================================================
