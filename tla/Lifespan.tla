------------------------------ MODULE Lifespan ------------------------------
(***************************************************************************)
(* Startup and shutdown of the application (bootstrap/lifespan.py): the    *)
(* engine, the Redis client and the Celery application, which one app      *)
(* object may open several times in its life.  Every step may fail, and    *)
(* every await may be cancelled.                                           *)
(***************************************************************************)
EXTENDS Naturals

CONSTANTS
    Enabled,    \* which of "redis" and "celery" are configured
    MaxLives    \* bounds the startups

VARIABLES
    pc,         \* where the lifespan stands
    life,       \* how often it was started
    state,      \* app.state: name -> the startup its resource is from, 0 if none
    opened,     \* the resources opened, each with its startup
    closes,     \* how often the closing of each was begun, up to 2
    undisposed  \* the startups whose engine.dispose() failed

vars == <<pc, life, state, opened, closes, undisposed>>

Name == {"engine", "redis", "celery"}
Resource == Name \X (1..MaxLives)

TypeOK ==
    /\ pc \in {"down", "redis", "ping", "unping", "celery", "broker", "up",
               "closeCelery", "closeRedis", "dispose"}
    /\ life \in 0..MaxLives
    /\ state \in [Name -> 0..life]
    /\ opened \subseteq Resource
    /\ closes \in [Resource -> 0..2]
    /\ undisposed \subseteq 1..life

Init ==
    /\ pc = "down" /\ life = 0
    /\ state = [n \in Name |-> 0]
    /\ opened = {} /\ undisposed = {}
    /\ closes = [r \in Resource |-> 0]

-----------------------------------------------------------------------------
Go(to) == pc' = to
Open(n) == opened' = opened \cup {<<n, life>>}
Close(r) == closes' = [closes EXCEPT ![r] = IF @ = 0 THEN 1 ELSE 2]
CloseFromState(n) == IF state[n] = 0 THEN UNCHANGED closes ELSE Close(<<n, state[n]>>)

(* create_engine and the session factory, which opens no connection. *)
Startup ==
    /\ pc = "down" /\ life < MaxLives
    /\ life' = life + 1
    /\ \/ /\ state' = [state EXCEPT !.engine = life']
          /\ opened' = opened \cup {<<"engine", life'>>}
          /\ Go("redis")
       \/ UNCHANGED <<state, opened>> /\ Go("closeCelery")
    /\ UNCHANGED <<closes, undisposed>>

(* create_redis_client up to the client, whose import may fail. *)
Redis ==
    /\ pc = "redis"
    /\ IF "redis" \in Enabled
       THEN /\ UNCHANGED state
            /\ \/ Open("redis") /\ Go("ping")
               \/ UNCHANGED opened /\ Go("closeCelery")
       ELSE state' = [state EXCEPT !.redis = 0] /\ UNCHANGED opened /\ Go("celery")
    /\ UNCHANGED <<life, closes, undisposed>>

(* Then it pings; app.state gets the client when it answers. *)
Ping ==
    /\ pc = "ping"
    /\ \/ state' = [state EXCEPT !.redis = life] /\ Go("celery")
       \/ UNCHANGED state /\ Go("unping")
    /\ UNCHANGED <<life, opened, closes, undisposed>>

(* Its own except clauses close the client that failed or was cancelled. *)
Unping ==
    /\ pc = "unping" /\ Close(<<"redis", life>>) /\ Go("closeCelery")
    /\ UNCHANGED <<life, state, opened, undisposed>>

(* create_celery_app, whose import may fail. *)
Celery ==
    /\ pc = "celery"
    /\ IF "celery" \in Enabled
       THEN \/ state' = [state EXCEPT !.celery = life] /\ Open("celery") /\ Go("broker")
            \/ UNCHANGED <<state, opened>> /\ Go("closeCelery")
       ELSE state' = [state EXCEPT !.celery = 0] /\ UNCHANGED opened /\ Go("up")
    /\ UNCHANGED <<life, closes, undisposed>>

(* check_broker, in a thread. *)
Broker ==
    /\ pc = "broker" /\ \E to \in {"up", "closeCelery"} : Go(to)
    /\ UNCHANGED <<life, state, opened, closes, undisposed>>

Stop ==
    /\ pc = "up" /\ Go("closeCelery")
    /\ UNCHANGED <<life, state, opened, closes, undisposed>>

(* shutdown: whether a step fails or not, the next one is taken. *)
CloseCelery ==
    /\ pc = "closeCelery" /\ CloseFromState("celery") /\ Go("closeRedis")
    /\ UNCHANGED <<life, state, opened, undisposed>>

CloseRedis ==
    /\ pc = "closeRedis" /\ CloseFromState("redis") /\ Go("dispose")
    /\ UNCHANGED <<life, state, opened, undisposed>>

(* Mutant: app.state is left as it is. *)
DisposeOnly ==
    /\ pc = "dispose" /\ CloseFromState("engine") /\ Go("down")
    /\ UNCHANGED <<life, state, opened, undisposed>>

(* Only a successful dispose reaches the loop that clears app.state. *)
Dispose ==
    /\ pc = "dispose" /\ CloseFromState("engine") /\ Go("down")
    /\ \/ state' = [n \in Name |-> 0] /\ UNCHANGED undisposed
       \/ state.engine # 0 /\ undisposed' = undisposed \cup {state.engine} /\ UNCHANGED state
    /\ UNCHANGED <<life, opened>>

Next == \/ Startup \/ Redis \/ Ping \/ Unping \/ Celery \/ Broker \/ Stop
        \/ CloseCelery \/ CloseRedis \/ Dispose

Spec == Init /\ [][Next]_vars

-----------------------------------------------------------------------------
(* However far a startup came and whatever failed on the way down, closing *)
(* was begun for everything it had opened.                                 *)
Released == pc = "down" => \A r \in opened : closes[r] > 0

(* Nothing is closed that a later startup did not open, nor closed twice,  *)
(* unless its own dispose failed and left it in app.state.                 *)
ClosedOnce == \A r \in Resource : closes[r] = 2 => r[2] \in undisposed

(* An application that serves has the resources of this startup, also when *)
(* an earlier shutdown failed and left its own in app.state.               *)
ServesItsOwn ==
    pc = "up" => \A n \in Name :
        (n = "engine" \/ n \in Enabled) => state[n] = life

=============================================================================
