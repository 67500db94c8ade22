------------------------------ MODULE TaskRuns ------------------------------
(***************************************************************************)
(* Background tasks: a request publishes user.status with its log context  *)
(* in the headers (infrastructure/celery/signals.py), a worker runs it     *)
(* through BaseTask.__call__ (base.py) and run_async_handler (bridge.py),  *)
(* and a transient failure of the database is retried (user/tasks.py).     *)
(* A request may also call the task directly.                              *)
(*                                                                         *)
(* Celery acknowledges a message before the task runs: what a killed       *)
(* process was running is lost.  The broker may deliver a message again.   *)
(***************************************************************************)
EXTENDS Naturals

CONSTANTS
    Task,            \* the ids of the tasks
    Workers,         \* the worker processes
    max_retries,     \* BaseTask.max_retries, 3 in the code
    MaxRedeliveries, \* bounds the messages delivered once more
    Faults           \* what may go wrong besides the database: subset of
                     \* {"json", "broker", "dispose", "log", "terminate", "kill"}

VARIABLES
    published,  \* task -> the context it was published in, Unpublished, or Direct
    queue,      \* the messages in the broker
    sent,       \* every message there ever was
    redelivered,\* how many were delivered once more
    pc, run,    \* executor -> where it stands and the message it runs
    context,    \* executor -> its log context
    previous,   \* executor -> the context BaseTask saved
    raised,     \* executor -> what the task raised
    engine,     \* the executors with an engine
    glitched,   \* the runs <<task, retries>> that met a transient failure
    finished,   \* the task.finished events
    unlogged    \* the runs <<executor, task, retries>> that logged none

messages == <<published, queue, sent, redelivered>>
events == <<glitched, finished, unlogged>>
vars == <<messages, pc, run, context, previous, raised, engine, events>>

Caller == "caller"          \* the request that calls the task itself
Executor == Workers \cup {Caller}
Context == [correlation : Task \cup {"none", "request", "fresh"}, actor : {"none", "user"}]
NoContext == [correlation |-> "none", actor |-> "none"]
Unpublished == [correlation |-> "no", actor |-> "none"]
Direct == [correlation |-> "fresh", actor |-> "none"]
RequestContext == [correlation |-> "request", actor |-> "user"]
Message == [task : Task, retries : 0..max_retries,
            x_correlation_id : Task \cup {"none", "request"}, actor_id : {"none", "user"}]
NoRun == [task |-> "none", retries |-> 0, x_correlation_id |-> "none", actor_id |-> "none"]

(* A TimeoutError, or a DBAPIError with connection_invalidated, is          *)
(* "transient" and becomes a TransientTaskError; only that is retried.     *)
DatabaseError == {"transient", "DBAPIError"}
Raised == DatabaseError \cup {"none", "Exception", "Retry", "SystemExit"}

IsTransient(e) == e = "transient"

TypeOK ==
    /\ published \in [Task -> Context \cup {Unpublished, Direct}]
    /\ queue \subseteq sent /\ sent \subseteq Message
    /\ redelivered \in 0..MaxRedeliveries
    /\ pc \in [Executor -> {"idle", "taken", "running", "disposing", "retrying", "ending"}]
    /\ context \in [Executor -> Context] /\ previous \in [Executor -> Context]
    /\ raised \in [Executor -> Raised]
    /\ engine \subseteq Executor /\ unlogged \subseteq Executor \X Task \X (0..max_retries)
    /\ run \in [Executor -> Message \cup {NoRun}]
    /\ \A e \in Executor : pc[e] # "idle" => run[e] \in Message
    /\ glitched \subseteq Task \X (0..max_retries)
    /\ finished \subseteq [task : Task, retries : 0..max_retries,
                           outcome : {"success", "retry", "failure"}, returned : BOOLEAN]

Init ==
    /\ published = [t \in Task |-> Unpublished]
    /\ queue = {} /\ sent = {} /\ redelivered = 0
    /\ pc = [e \in Executor |-> "idle"] /\ run = [e \in Executor |-> NoRun]
    /\ context = [e \in Executor |-> IF e = Caller THEN RequestContext ELSE NoContext]
    /\ previous = [e \in Executor |-> NoContext]
    /\ raised = [e \in Executor |-> "none"]
    /\ engine = {} /\ glitched = {} /\ finished = {} /\ unlogged = {}

-----------------------------------------------------------------------------
Move(e, to) == pc' = [pc EXCEPT ![e] = to]
Raise(e, exc) == raised' = [raised EXCEPT ![e] = exc]
RunOf(e) == <<e, run[e].task, run[e].retries>>
(* What an executor forgets when a run is over. *)
Idle(e) ==
    /\ Move(e, "idle") /\ Raise(e, "none")
    /\ run' = [run EXCEPT ![e] = NoRun]
    /\ previous' = [previous EXCEPT ![e] = NoContext]

Fails(fault) == fault \in Faults

(* propagate_context *)
Headers(c) == [x_correlation_id |-> c.correlation, actor_id |-> c.actor]

MessageOf(t, n, c) ==
    [task |-> t, retries |-> n, x_correlation_id |-> Headers(c).x_correlation_id,
     actor_id |-> Headers(c).actor_id]

Send(m) == queue' = queue \cup {m} /\ sent' = sent \cup {m}

(* A request, or a script without a context, publishes a task. *)
Publish(t, c) ==
    /\ published[t] = Unpublished
    /\ published' = [published EXCEPT ![t] = c]
    /\ Send(MessageOf(t, 0, c))
    /\ UNCHANGED <<redelivered, pc, run, context, previous, raised, engine, events>>

Take(w, m) ==
    /\ pc[w] = "idle"
    /\ Move(w, "taken") /\ run' = [run EXCEPT ![w] = m]
    /\ \/ queue' = queue \ {m} /\ UNCHANGED redelivered
       \/ /\ redelivered < MaxRedeliveries
          /\ redelivered' = redelivered + 1 /\ UNCHANGED queue
    /\ UNCHANGED <<published, sent, context, previous, raised, engine, events>>

(* task(...): no request of Celery's, so no headers and no id. *)
CallDirectly(t) ==
    /\ pc[Caller] = "idle" /\ published[t] = Unpublished
    /\ published' = [published EXCEPT ![t] = Direct]
    /\ Move(Caller, "taken")
    /\ run' = [run EXCEPT ![Caller] = MessageOf(t, 0, NoContext)]
    /\ UNCHANGED <<queue, sent, redelivered, context, previous, raised, engine, events>>

(* x_correlation_id, else the id, else a new one. *)
Correlation(e) ==
    IF run[e].x_correlation_id # "none" THEN run[e].x_correlation_id
    ELSE IF e = Caller THEN "fresh" ELSE run[e].task

(* Mutant: binding without clearing first. *)
BoundOver(e) ==
    [correlation |-> Correlation(e),
     actor |-> IF run[e].actor_id = "none" THEN context[e].actor ELSE run[e].actor_id]

Bound(e) == [correlation |-> Correlation(e), actor |-> run[e].actor_id]

(* The context is swapped, the arguments are checked, and the bridge       *)
(* creates an engine and a session in a loop of their own.                 *)
Begin(e) ==
    /\ pc[e] = "taken"
    /\ previous' = [previous EXCEPT ![e] = context[e]]
    /\ context' = [context EXCEPT ![e] = Bound(e)]
    /\ \/ /\ Move(e, "running") /\ Raise(e, "none")
          /\ engine' = engine \cup {e}
       \/ /\ Fails("json")
          /\ Move(e, "ending") /\ Raise(e, "Exception") /\ UNCHANGED engine
    /\ UNCHANGED <<messages, run, events>>

(* user_status_handler: it answers, the id is refused, the user is not     *)
(* found, the database fails, or the soft time limit strikes.              *)
Handle(e) ==
    /\ pc[e] = "running"
    /\ \E exc \in DatabaseError \cup {"none", "Exception"} :
         /\ Raise(e, exc)
         /\ glitched' = IF exc = "transient"
                        THEN glitched \cup {<<run[e].task, run[e].retries>>} ELSE glitched
    /\ Move(e, "disposing")
    /\ UNCHANGED <<messages, run, context, previous, engine, finished, unlogged>>

(* SIGTERM from a revoke with terminate: SystemExit, whatever runs. *)
Terminate(e) ==
    /\ Fails("terminate") /\ e \in Workers /\ pc[e] \in {"running", "retrying"}
    /\ Raise(e, "SystemExit")
    /\ Move(e, IF pc[e] = "running" THEN "disposing" ELSE "ending")
    /\ UNCHANGED <<messages, run, context, previous, engine, events>>

(* The session is closed and the engine disposed of, which may itself      *)
(* raise; user_status tells the transient errors from the others, and a    *)
(* result that is no JSON fails as well.                                   *)
Dispose(e) ==
    /\ pc[e] = "disposing"
    /\ engine' = engine \ {e}
    /\ \/ /\ UNCHANGED raised
          /\ Move(e, IF IsTransient(raised[e]) THEN "retrying" ELSE "ending")
       \/ /\ \/ Fails("dispose")
             \/ Fails("json") /\ raised[e] = "none"
          /\ Raise(e, "Exception") /\ Move(e, "ending")
    /\ UNCHANGED <<messages, run, context, previous, events>>

(* Mutant: the retry is published with the count it came with. *)
AutoretryUncounted(e) ==
    /\ pc[e] = "retrying" /\ Move(e, "ending")
    /\ Raise(e, "Retry")
    /\ Send(MessageOf(run[e].task, run[e].retries, context[e]))
    /\ UNCHANGED <<published, redelivered, run, context, previous, engine, events>>

(* Mutant: one retry too many. *)
AutoretryOnceMore(e) ==
    /\ pc[e] = "retrying" /\ Move(e, "ending")
    /\ IF run[e].retries <= max_retries
       THEN /\ Raise(e, "Retry")
            /\ Send(MessageOf(run[e].task, run[e].retries + 1, context[e]))
       ELSE Raise(e, "Exception") /\ UNCHANGED <<queue, sent>>
    /\ UNCHANGED <<published, redelivered, run, context, previous, engine, events>>

(* Celery's retry publishes the message again, in the task's own context,  *)
(* and raises Retry; a direct call, or the last retry, raises the error.   *)
Autoretry(e) ==
    /\ pc[e] = "retrying" /\ Move(e, "ending")
    /\ \/ /\ e # Caller /\ run[e].retries < max_retries
          /\ Raise(e, "Retry")
          /\ Send(MessageOf(run[e].task, run[e].retries + 1, context[e]))
       \/ /\ e = Caller \/ run[e].retries = max_retries \/ Fails("broker")
          /\ Raise(e, "Exception") /\ UNCHANGED <<queue, sent>>
    /\ UNCHANGED <<published, redelivered, run, context, previous, engine, events>>

(* Mutant: except Exception, of which Retry is one, comes first. *)
OutcomeOfException(exc) == IF exc \in {"none", "SystemExit"} THEN "success" ELSE "failure"

(* "success" stands until an except clause changes it. *)
Outcome(exc) == CASE exc = "Retry" -> "retry"
                  [] exc \in {"none", "SystemExit"} -> "success"
                  [] OTHER -> "failure"

(* finally: the event, then the saved context; a log call that fails       *)
(* leaves the task's context bound.                                        *)
End(e) ==
    /\ pc[e] = "ending" /\ Idle(e)
    /\ \/ /\ finished' = finished \cup {[task |-> run[e].task, retries |-> run[e].retries,
                outcome |-> Outcome(raised[e]), returned |-> raised[e] = "none"]}
          /\ context' = [context EXCEPT ![e] = previous[e]]
          /\ UNCHANGED unlogged
       \/ /\ Fails("log")
          /\ unlogged' = unlogged \cup {RunOf(e)} /\ UNCHANGED <<finished, context>>
    /\ UNCHANGED <<messages, engine, glitched>>

(* The hard time limit, or a crash: the pool starts another process. *)
Kill(w) ==
    /\ Fails("kill") /\ pc[w] # "idle" /\ Idle(w)
    /\ context' = [context EXCEPT ![w] = NoContext]
    /\ engine' = engine \ {w}
    /\ unlogged' = unlogged \cup {RunOf(w)}
    /\ UNCHANGED <<messages, glitched, finished>>

Step(e) == Begin(e) \/ Handle(e) \/ Dispose(e) \/ Autoretry(e) \/ End(e)

Next ==
    \/ \E t \in Task : (\E c \in {NoContext, RequestContext} : Publish(t, c)) \/ CallDirectly(t)
    \/ \E w \in Workers : (\E m \in queue : Take(w, m)) \/ Kill(w)
    \/ \E e \in Executor : Step(e) \/ Terminate(e)

Spec == Init /\ [][Next]_vars

-----------------------------------------------------------------------------
Running(e) == pc[e] \in {"running", "disposing", "retrying", "ending"}

(* Whichever worker runs a task, and at whichever retry or redelivery, it  *)
(* logs under the correlation id and the actor of the request that         *)
(* published it, and under nothing an earlier task left behind.            *)
RunsInItsContext ==
    \A w \in Workers : Running(w) =>
        LET origin == published[run[w].task] IN
        context[w] = [origin EXCEPT !.correlation = IF @ = "none" THEN run[w].task ELSE @]

(* A request that called the task itself has its own context back, however *)
(* the task ended, unless logging its end failed.                          *)
ContextGivenBack ==
    pc[Caller] = "idle" => context[Caller] = RequestContext \/ \E f \in unlogged : f[1] = Caller

(* Every retry there is follows a run that met a transient failure and     *)
(* whose event said "retry", or is about to.                               *)
RetryIsTold ==
    \A m \in sent : m.retries > 0 =>
        /\ <<m.task, m.retries - 1>> \in glitched
        /\ \/ \E f \in finished : /\ f.task = m.task /\ f.retries = m.retries - 1
                                  /\ f.outcome = "retry"
           \/ \E w \in Workers :
                \/ <<w, m.task, m.retries - 1>> \in unlogged
                \/ /\ pc[w] = "ending" /\ raised[w] = "Retry"
                   /\ run[w].task = m.task /\ run[w].retries = m.retries - 1

(* No engine outlives the run it was created for. *)
EngineReleased == \A e \in Executor : pc[e] \in {"idle", "retrying", "ending"} => e \notin engine

(* An event "success" is of a run that returned, unless the task was       *)
(* terminated: SystemExit leaves outcome as it was initialised.            *)
SuccessReturned ==
    "terminate" \notin Faults => \A f \in finished : f.outcome = "success" => f.returned

(* A task that came to an end is neither in the broker nor being run. *)
Settled(t) == (\A m \in queue : m.task # t) /\ \A e \in Executor : pc[e] # "idle" => run[e].task # t
Published(t) == published[t] # Unpublished
=============================================================================
