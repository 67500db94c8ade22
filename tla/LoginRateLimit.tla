--------------------------- MODULE LoginRateLimit ---------------------------
(***************************************************************************)
(* LoginRateLimitMiddleware and its Redis script                           *)
(* (infrastructure/redis/rate_limit.py): the logins from one address, in   *)
(* any number of processes that share one Redis.                           *)
(*                                                                         *)
(* Time is counted in ticks of 1/Unit second.  The script's fractions of   *)
(* tokens are counted in units of 1/(Period * Unit) token, which makes     *)
(* every quantity of the script an integer; the rounding of floating point *)
(* numbers is left out.                                                    *)
(***************************************************************************)
EXTENDS Integers, FiniteSets

CONSTANTS
    Logins,     \* the POSTs to /auth/login of one run
    Capacity,   \* login_rate_limit_capacity
    Period,     \* login_rate_limit_period, in seconds
    Unit,       \* ticks per second
    Timeout,    \* ticks until the middleware gives up
    MaxTime     \* bounds the clock

VARIABLES
    now,      \* Redis's clock, in ticks
    bucket,   \* the hash under the address's key, NoKey if there is none
    pc,       \* where a login stands
    sent,     \* when it was sent to Redis
    retry,    \* the script's reply: seconds to wait, 0 to go on
    promise   \* the Retry-After given last, while nobody used the address since

vars == <<now, bucket, pc, sent, retry, promise>>

Scale == Period * Unit
Full == Capacity * Scale
NoKey == [tokens |-> Full, updated |-> 0, expires |-> -1]
Bucket == [tokens : 0..Full, updated : 0..MaxTime, expires : 0..(MaxTime + Scale)]
NoPromise == [at |-> -1, wait |-> 0]

Answer == {"passed", "limited", "unavailable"}

TypeOK ==
    /\ now \in 0..MaxTime
    /\ bucket \in Bucket \cup {NoKey}
    /\ pc \in [Logins -> {"new", "sent", "replied", "abandoned"} \cup Answer]
    /\ sent \in [Logins -> 0..MaxTime]
    /\ retry \in [Logins -> 0..Period]
    /\ promise \in [at : 0..MaxTime, wait : 1..Period] \cup {NoPromise}

Init ==
    /\ now = 0
    /\ bucket = NoKey
    /\ pc = [l \in Logins |-> "new"]
    /\ sent = [l \in Logins |-> 0]
    /\ retry = [l \in Logins |-> 0]
    /\ promise = NoPromise

-----------------------------------------------------------------------------
Smaller(a, b) == IF a < b THEN a ELSE b

(* Mutant: a retry that is rounded down. *)
RetryRoundedDown(tokens) == (Scale - tokens) \div (Capacity * Unit)

RetryAfter(tokens) == (Scale - tokens + Capacity * Unit - 1) \div (Capacity * Unit)

(* What the script finds in the bucket at time t. *)
Level(t) ==
    IF bucket = NoKey THEN Full
    ELSE Smaller(Full, bucket.tokens + (t - bucket.updated) * Capacity)

(* Mutant: EXPIRE with half the period. *)
HalfPeriod == (Period * Unit) \div 2

Ttl == Period * Unit

Send(l) ==
    /\ pc[l] = "new"
    /\ pc' = [pc EXCEPT ![l] = "sent"]
    /\ sent' = [sent EXCEPT ![l] = now]
    /\ UNCHANGED <<now, bucket, retry, promise>>

(* The script, in one step, even for a middleware that no longer waits. *)
Script(l) ==
    LET left == IF Level(now) >= Scale THEN Level(now) - Scale ELSE Level(now)
        wait == IF Level(now) >= Scale THEN 0 ELSE RetryAfter(left)
    IN  /\ \/ pc[l] = "sent" /\ pc' = [pc EXCEPT ![l] = "replied"]
           \/ pc[l] = "abandoned" /\ pc' = [pc EXCEPT ![l] = "unavailable"]
        /\ bucket' = [tokens |-> left, updated |-> now, expires |-> now + Ttl]
        /\ retry' = [retry EXCEPT ![l] = wait]
        /\ promise' = IF wait = 0 THEN NoPromise ELSE [at |-> now, wait |-> wait]
        /\ UNCHANGED <<now, sent>>

Expire ==
    /\ bucket # NoKey /\ now >= bucket.expires
    /\ bucket' = NoKey
    /\ UNCHANGED <<now, pc, sent, retry, promise>>

Reply(l) ==
    /\ pc[l] = "replied"
    /\ pc' = [pc EXCEPT ![l] = IF retry[l] = 0 THEN "passed" ELSE "limited"]
    /\ UNCHANGED <<now, bucket, sent, retry, promise>>

(* An error of the client, or the timeout: 503, though the script may have *)
(* taken a token or may still take one.                                    *)
GiveUp(l) ==
    /\ pc[l] \in {"sent", "replied"}
    /\ \E to \in IF pc[l] = "sent" THEN {"abandoned", "unavailable"} ELSE {"unavailable"} :
         pc' = [pc EXCEPT ![l] = to]
    /\ UNCHANGED <<now, bucket, sent, retry, promise>>

(* The clock goes on, but no login waits for longer than the timeout. *)
Tick ==
    /\ now < MaxTime
    /\ \A l \in Logins : pc[l] \in {"sent", "replied"} => now < sent[l] + Timeout
    /\ now' = now + 1
    /\ UNCHANGED <<bucket, pc, sent, retry, promise>>

Next ==
    \/ \E l \in Logins : Send(l) \/ Script(l) \/ Reply(l) \/ GiveUp(l)
    \/ Expire
    \/ Tick

Spec == Init /\ [][Next]_vars

-----------------------------------------------------------------------------
(* Whatever expires, fails or times out: of the logins sent since any      *)
(* moment, no more are let through than a full bucket and the refill since *)
(* then pay for.                                                           *)
PassedBounded ==
    \A since \in 0..now :
        Cardinality({l \in Logins : pc[l] = "passed" /\ sent[l] >= since}) * Scale
            <= Full + (now - since) * Capacity

(* Who comes back after Retry-After, alone, finds a token; who comes back  *)
(* a second earlier does not (the rounding of the script's retry).         *)
RetryIsExact ==
    promise # NoPromise =>
        /\ now >= promise.at + promise.wait * Unit => Level(now) >= Scale
        /\ now <= promise.at + (promise.wait - 1) * Unit => Level(now) < Scale

(* The key's expiry is not a refill: seen through what the script would    *)
(* find, the bucket is one that is never forgotten.                        *)
Quota == INSTANCE LoginQuota WITH level <- Level(now)
KeepsQuota == Quota!Next \/ UNCHANGED Level(now)
=============================================================================
