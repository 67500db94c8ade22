--------------------------- MODULE ConnectionPool ---------------------------
(***************************************************************************)
(* The requests of one process on a server dialect and the connections     *)
(* create_engine lets them have (database/engine.py): pool_size that are   *)
(* kept and max_overflow more, each pinged at checkout.  A session takes   *)
(* one with its first statement and gives it back when it commits or       *)
(* closes; the request's session closes when the response has been sent.   *)
(***************************************************************************)
EXTENDS Integers, Sequences, FiniteSets

CONSTANTS
    Requests, Kind,         \* the requests and what each one is
    PoolSize, MaxOverflow,
    MaxRestarts,            \* bounds the restarts of the database server
    Stallers,               \* the requests whose thread or client may hang
    Timeouts                \* whether timeouts pass and clients leave

VARIABLES
    at,         \* request -> its next step, 0 before it arrives
    conn,       \* request -> session -> its connection
    idle,       \* "live" or "dead" -> how many of them are in the pool
    stalled,    \* the requests that hang
    answer,     \* request -> "none", "served" or "failed"
    restarts,
    since       \* request -> the restarts there had been when it arrived

vars == <<at, conn, idle, stalled, answer, restarts, since>>

Session == {"auth", "request"}
Op(s, o) == [session |-> s, op |-> o]
Statement == Op("request", "statement")
Await == Op("request", "await")     \* a storage thread, Argon2, PING, the client
Commit == Op("request", "commit")
Close == Op("request", "close")

(* resolve_current_user reads the account in a session of its own, which   *)
(* it closes before the route runs.                                        *)
Identify == Op("auth", "statement")

(* Mutant: the identity check leaves its session open. *)
KeepIdentity == Op("auth", "await")

EndIdentity == Op("auth", "close")

Program == [
    login |-> <<Statement, Await, Await, Close>>,
    list |-> <<Identify, EndIdentity, Statement, Statement, Await, Close>>,
    upload |-> <<Identify, EndIdentity, Await, Statement, Commit, Await, Close>>,
    download |-> <<Identify, EndIdentity, Statement, Await, Await, Close>>,
    delete |-> <<Identify, EndIdentity, Statement, Await, Statement, Commit, Await, Close>>,
    ready |-> <<Statement, Close, Await>>]

Running(r) == at[r] > 0 /\ answer[r] = "none"
Does(r, ops) == Running(r) /\ Program[Kind[r]][at[r]].op \in ops
SessionOf(r) == Program[Kind[r]][at[r]].session
Connected(r) == conn[r][SessionOf(r)] # "none"
Open == Cardinality({p \in Requests \X Session : conn[p[1]][p[2]] # "none"})
        + idle.live + idle.dead

Exhausted == idle.live + idle.dead = 0 /\ Open >= PoolSize + MaxOverflow
Waits(r) == Does(r, {"statement"}) /\ ~Connected(r) /\ Exhausted

TypeOK ==
    /\ at \in [Requests -> 0..9] /\ stalled \subseteq Stallers
    /\ conn \in [Requests -> [Session -> {"none", "live", "dead"}]]
    /\ idle \in [{"live", "dead"} -> 0..PoolSize]
    /\ answer \in [Requests -> {"none", "served", "failed"}]
    /\ restarts \in 0..MaxRestarts /\ since \in [Requests -> 0..MaxRestarts]
    /\ Open <= PoolSize + MaxOverflow

Init ==
    /\ at = [r \in Requests |-> 0]
    /\ conn = [r \in Requests |-> [s \in Session |-> "none"]]
    /\ idle = [c \in {"live", "dead"} |-> 0]
    /\ stalled = {} /\ restarts = 0
    /\ since = [r \in Requests |-> 0]
    /\ answer = [r \in Requests |-> "none"]

-----------------------------------------------------------------------------
Arrive(r) ==
    /\ at[r] = 0 /\ at' = [at EXCEPT ![r] = 1]
    /\ since' = [since EXCEPT ![r] = restarts]
    /\ UNCHANGED <<conn, idle, stalled, answer, restarts>>

(* Mutant: without pool_pre_ping a connection is used as it was left. *)
Unpinged(c) == c

(* pool_pre_ping: a connection whose ping fails is replaced. *)
Pinged(c) == IF c = "dead" THEN "live" ELSE c

(* A pooled connection, or a new one when the pool has none. *)
Checkout(r) ==
    /\ Does(r, {"statement"}) /\ ~Connected(r) /\ ~Exhausted
    /\ \/ /\ idle.live + idle.dead = 0 /\ UNCHANGED idle
          /\ conn' = [conn EXCEPT ![r][SessionOf(r)] = "live"]
       \/ \E c \in {"live", "dead"} :
            /\ idle[c] > 0 /\ idle' = [idle EXCEPT ![c] = @ - 1]
            /\ conn' = [conn EXCEPT ![r][SessionOf(r)] = Pinged(c)]
    /\ UNCHANGED <<at, stalled, answer, restarts, since>>

(* Closing sessions: the pool keeps pool_size connections that are alive. *)
GiveBack(r, sessions) ==
    /\ conn' = [conn EXCEPT ![r] = [s \in Session |-> IF s \in sessions THEN "none" ELSE @[s]]]
    /\ idle' = [idle EXCEPT !.live =
         LET sum == @ + Cardinality({s \in sessions : conn[r][s] = "live"})
         IN  IF sum + idle.dead <= PoolSize THEN sum ELSE PoolSize - idle.dead]

(* An exception (answered with 503), a timeout or a cancellation closes    *)
(* every session.                                                          *)
Fail(r) ==
    /\ answer' = [answer EXCEPT ![r] = "failed"] /\ GiveBack(r, Session)
    /\ at' = [at EXCEPT ![r] = Len(Program[Kind[r]]) + 1]
    /\ stalled' = stalled \ {r}
    /\ UNCHANGED <<restarts, since>>

Advance(r) ==
    /\ at' = [at EXCEPT ![r] = @ + 1]
    /\ answer' = [answer EXCEPT ![r] =
         IF at[r] = Len(Program[Kind[r]]) THEN "served" ELSE @]
    /\ UNCHANGED <<stalled, restarts, since>>

Execute(r) ==
    /\ Does(r, {"statement", "commit"}) /\ Connected(r)
    /\ IF conn[r][SessionOf(r)] = "dead" THEN Fail(r)
       ELSE /\ Advance(r)
            /\ IF Does(r, {"commit"}) THEN GiveBack(r, {SessionOf(r)})
               ELSE UNCHANGED <<conn, idle>>

Proceed(r) ==
    /\ Does(r, {"await"}) /\ r \notin stalled
    /\ Advance(r) /\ UNCHANGED <<conn, idle>>

CloseSession(r) == Does(r, {"close"}) /\ Advance(r) /\ GiveBack(r, {SessionOf(r)})

(* pool_timeout, which the exception handlers answer with 503. *)
PoolTimeout(r) == Timeouts /\ Waits(r) /\ Fail(r)

(* asyncio.timeout(readiness_timeout) around all of ready. *)
ReadyTimeout(r) ==
    Timeouts /\ Kind[r] = "ready" /\ Running(r) /\ Fail(r)

(* The client leaves and the server cancels the request. *)
Cancel(r) == Timeouts /\ Running(r) /\ Fail(r)

Stall(r) ==
    /\ r \in Stallers \ stalled /\ Does(r, {"await"})
    /\ stalled' = stalled \cup {r}
    /\ UNCHANGED <<at, conn, idle, answer, restarts, since>>

(* The database server restarts and every connection is dead. *)
Restart ==
    /\ restarts < MaxRestarts /\ restarts' = restarts + 1
    /\ idle' = [idle EXCEPT !.live = 0, !.dead = idle.dead + idle.live]
    /\ conn' = [r \in Requests |-> [s \in Session |->
                  IF conn[r][s] = "none" THEN "none" ELSE "dead"]]
    /\ UNCHANGED <<at, stalled, answer, since>>

Step(r) == \/ Checkout(r) \/ Execute(r) \/ Proceed(r) \/ CloseSession(r)
           \/ PoolTimeout(r) \/ ReadyTimeout(r)

Next == Restart \/ \E r \in Requests : Arrive(r) \/ Step(r) \/ Stall(r) \/ Cancel(r)

Spec == Init /\ [][Next]_vars

-----------------------------------------------------------------------------
(* Nobody waits for a connection while holding one: the pool cannot be     *)
(* exhausted by requests that wait for each other.                         *)
NoHoldAndWait == \A r \in Requests : Waits(r) => \A s \in Session : conn[r][s] = "none"

(* However a request ended, its connections are back. *)
NothingLeaks == \A r \in Requests : answer[r] # "none" => \A s \in Session : conn[r][s] = "none"

(* A request that arrives after the database was restarted never works on  *)
(* a connection from before.                                               *)
RestartIsSurvived ==
    \A r \in Requests : since[r] = restarts => \A s \in Session : conn[r][s] # "dead"

Arrived(r) == at[r] > 0
Served(r) == answer[r] = "served"
(* A probe is answered even when it hangs itself. *)
Answered(r) == answer[r] # "none" \/ (r \in stalled /\ Kind[r] # "ready")

=============================================================================
