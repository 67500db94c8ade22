----------------------------- MODULE MCProgress -----------------------------
(***************************************************************************)
(* Instances for TLC of what must end: requests that wait for locks and    *)
(* connections, tasks, migrations.  A behaviour is of one of them, which   *)
(* part names.  No fault has to happen, and every client may stop to ask.  *)
(***************************************************************************)

VARIABLES
    part,    \* which component the behaviour is of
    rows, seq, usersPc, actor, ask, usersTarget, seen,
    published, queue, sent, redelivered, tasksPc, run, context, previous,
    raised, engine, glitched, finished, unlogged,
    poolAt, conn, idle, stalled, answer, restarts, since,
    tables, version, schemaPc, kind, schemaAt, schemaTarget, mine, broken

users == <<rows, seq, usersPc, actor, ask, usersTarget, seen>>
tasks == <<published, queue, sent, redelivered, tasksPc, run, context,
           previous, raised, engine, glitched, finished, unlogged>>
pool == <<poolAt, conn, idle, stalled, answer, restarts, since>>
schema == <<tables, version, schemaPc, kind, schemaAt, schemaTarget, mine,
            broken>>
vars == <<part, users, tasks, pool, schema>>

(* A creation, a PATCH and a DELETE that hold and upgrade SQLite's locks. *)
Accounts == INSTANCE Accounts WITH Creates <- {"a"}, Updates <- {"b"},
              Deletes <- {"c"}, Sqlite <- TRUE, Admins <- 1, Users <- 2,
              MaxName <- 2, MaxEmail <- 0, MaxId <- 3, Faults <- {},
              pc <- usersPc, target <- usersTarget
(* Three creations on SQLite. *)
Creations == INSTANCE Accounts WITH Creates <- {"a", "b", "c"},
               Updates <- {}, Deletes <- {}, Sqlite <- TRUE, Admins <- 1,
               Users <- 1, MaxName <- 2, MaxEmail <- 0, MaxId <- 4,
               Faults <- {}, pc <- usersPc, target <- usersTarget
(* A task with every fault there is. *)
Tasks == INSTANCE TaskRuns WITH Task <- {"t"}, Workers <- {"a", "b"},
           max_retries <- 3, MaxRedeliveries <- 0,
           Faults <- {"json", "broker", "dispose", "log", "terminate", "kill"},
           pc <- tasksPc
(* A pool of one connection and two requests that hang with it. *)
Stalls == INSTANCE ConnectionPool WITH Requests <- {"a", "b", "c"},
            Kind <- [a |-> "download", b |-> "ready", c |-> "upload"],
            PoolSize <- 1, MaxOverflow <- 0, MaxRestarts <- 0,
            Stallers <- {"a", "b"}, Timeouts <- TRUE, at <- poolAt
(* Four requests that wait for two connections, without any timeout. *)
Waits == INSTANCE ConnectionPool WITH Requests <- {"a", "b", "c", "d"},
           Kind <- [a |-> "delete", b |-> "download", c |-> "list", d |-> "login"],
           PoolSize <- 1, MaxOverflow <- 1, MaxRestarts <- 0,
           Stallers <- {}, Timeouts <- FALSE, at <- poolAt
(* Three upgrades started at once on SQLite. *)
Upgrades == INSTANCE Migrations WITH Commands <- {"a", "b", "c"},
              Kinds <- {"upgrade"}, Dialect <- "sqlite", Faults <- {},
              pc <- schemaPc, at <- schemaAt, target <- schemaTarget

(* A component that is not the behaviour's does nothing. *)
NoUsers == rows = 0 /\ seq = 0 /\ usersPc = 0 /\ actor = 0 /\ ask = 0
           /\ usersTarget = 0 /\ seen = 0
NoTasks == published = 0 /\ queue = 0 /\ sent = 0 /\ redelivered = 0
           /\ tasksPc = 0 /\ run = 0 /\ context = 0 /\ previous = 0
           /\ raised = 0 /\ engine = 0 /\ glitched = 0 /\ finished = 0
           /\ unlogged = 0
NoPool == poolAt = 0 /\ conn = 0 /\ idle = 0 /\ stalled = 0 /\ answer = 0
          /\ restarts = 0 /\ since = 0
NoSchema == tables = 0 /\ version = 0 /\ schemaPc = 0 /\ kind = 0
            /\ schemaAt = 0 /\ schemaTarget = 0 /\ mine = 0 /\ broken = 0

Init ==
    \/ part = "accounts" /\ Accounts!Init /\ NoTasks /\ NoPool /\ NoSchema
    \/ part = "creations" /\ Creations!Init /\ NoTasks /\ NoPool /\ NoSchema
    \/ part = "tasks" /\ Tasks!Init /\ NoUsers /\ NoPool /\ NoSchema
    \/ part = "stalls" /\ Stalls!Init /\ NoUsers /\ NoTasks /\ NoSchema
    \/ part = "waits" /\ Waits!Init /\ NoUsers /\ NoTasks /\ NoSchema
    \/ part = "upgrades" /\ Upgrades!Init /\ NoUsers /\ NoTasks /\ NoPool

Next ==
    \/ part = "accounts" /\ Accounts!Next /\ UNCHANGED <<part, tasks, pool,
       schema>>
    \/ part = "creations" /\ Creations!Next /\ UNCHANGED <<part, tasks,
       pool, schema>>
    \/ part = "tasks" /\ Tasks!Next /\ UNCHANGED <<part, users, pool,
       schema>>
    \/ part = "stalls" /\ Stalls!Next /\ UNCHANGED <<part, users, tasks,
       schema>>
    \/ part = "waits" /\ Waits!Next /\ UNCHANGED <<part, users, tasks,
       schema>>
    \/ part = "upgrades" /\ Upgrades!Next /\ UNCHANGED <<part, users, tasks,
       pool>>

Spec == Init /\ [][Next]_vars

(* What a request, worker or command does once it has begun.  The event    *)
(* loop resumes every coroutine whose statement has its lock or whose      *)
(* connection is there, and timeouts pass; a worker takes messages and     *)
(* goes on with what it took; a migration goes on.                         *)
Go(x) ==
    \/ /\ part = "accounts" /\ x \in {"a", "b", "c"}
       /\ Accounts!Proceed(x) /\ UNCHANGED <<part, tasks, pool, schema>>
    \/ /\ part = "creations" /\ x \in {"a", "b", "c"}
       /\ Creations!Proceed(x) /\ UNCHANGED <<part, tasks, pool, schema>>
    \/ /\ part = "tasks" /\ x \in {"a", "b", "caller"}
       /\ Tasks!Step(x) \/ (x # "caller" /\ \E m \in queue : Tasks!Take(x, m))
       /\ UNCHANGED <<part, users, pool, schema>>
    \/ /\ part = "stalls" /\ x \in {"a", "b", "c"}
       /\ Stalls!Step(x) /\ UNCHANGED <<part, users, tasks, schema>>
    \/ /\ part = "waits" /\ x \in {"a", "b", "c", "d"}
       /\ Waits!Step(x) /\ UNCHANGED <<part, users, tasks, schema>>
    \/ /\ part = "upgrades" /\ x \in {"a", "b", "c"}
       /\ Upgrades!Proceed(x) /\ UNCHANGED <<part, users, tasks, pool>>

FairSpec == Spec /\ \A x \in {"a", "b", "c", "d", "caller"} : WF_vars(Go(x))

-----------------------------------------------------------------------------
Asked(r) ==
    CASE part = "accounts" -> r # "d" /\ Accounts!Begun(r)
      [] part = "creations" -> r # "d" /\ Creations!Begun(r)
      [] part = "stalls" -> r # "d" /\ Stalls!Arrived(r)
      [] part = "waits" -> Waits!Arrived(r)
      [] OTHER -> FALSE

Answered(r) ==
    CASE part = "accounts" -> r # "d" /\ Accounts!Answered(r)
      [] part = "creations" -> r # "d" /\ Creations!Served(r)
      [] part = "stalls" -> r # "d" /\ Stalls!Answered(r)
      [] part = "waits" -> Waits!Served(r)
      [] OTHER -> TRUE

(* Every request is answered.  Upgrades of SQLite's locks end in BUSY and  *)
(* waits in a commit; a creation, which writes before it reads, is even    *)
(* served.  A request that does not hang is answered however many others   *)
(* keep their connections, a probe even if it hangs; and when nobody hangs *)
(* all are served without a timeout.                                       *)
RequestsAnswered == \A r \in {"a", "b", "c", "d"} : Asked(r) ~> Answered(r)

Begun ==
    \/ part = "tasks" /\ Tasks!Published("t")
    \/ part = "upgrades" /\ Upgrades!Begun

Settled == (part = "tasks" => Tasks!Settled("t")) /\ (part = "upgrades" => Upgrades!AtHead)

(* Work ends.  A published task is at last neither in the broker nor being *)
(* run, whatever is retried, terminated or killed; and of upgrades that    *)
(* refuse each other's locks one brings the database to the head.          *)
WorkSettles == Begun ~> Settled
=============================================================================
