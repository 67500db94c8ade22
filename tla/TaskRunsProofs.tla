--------------------------- MODULE TaskRunsProofs ---------------------------
(***************************************************************************)
(* The invariants of TaskRuns, for any tasks, workers, faults and numbers  *)
(* of retries and redeliveries.                                            *)
(***************************************************************************)
EXTENDS TaskRuns, TLAPS

(* The bounds are numbers, and the ids are none of the module's own words. *)
Parameters ==
    /\ max_retries \in Nat /\ MaxRedeliveries \in Nat
    /\ {"caller", "none", "request", "fresh", "no"} \cap (Task \cup Workers) = {}

(* Whatever message there is of a task, it carries the context the task    *)
(* was published in, or the one a worker bound for it.                     *)
Traced ==
    \A m \in sent :
        /\ published[m.task] # Unpublished
        /\ m.actor_id = published[m.task].actor
        /\ \/ m.x_correlation_id = published[m.task].correlation
           \/ published[m.task].correlation = "none" /\ m.x_correlation_id = m.task

(* A worker runs a message there was, in the context it bound.             *)
Bindings ==
    /\ \A e \in Executor : Running(e) => context[e] = Bound(e)
    /\ \A w \in Workers : pc[w] # "idle" => run[w] \in sent

(* The caller's context is in place until Begin, then saved.               *)
GivenBack ==
    \/ \E f \in unlogged : f[1] = Caller
    \/ IF Running(Caller) THEN previous[Caller] = RequestContext
       ELSE context[Caller] = RequestContext

(* The retry m is of a run that met a transient failure and has said       *)
(* "retry", is about to say so, or could not log.                          *)
Told(m) ==
    /\ <<m.task, m.retries - 1>> \in glitched
    /\ \/ \E f \in finished : /\ f.task = m.task /\ f.retries = m.retries - 1
                              /\ f.outcome = "retry"
       \/ \E w \in Workers :
            \/ <<w, m.task, m.retries - 1>> \in unlogged
            \/ /\ pc[w] = "ending" /\ raised[w] = "Retry"
               /\ run[w].task = m.task /\ run[w].retries = m.retries - 1

Retried == \A m \in sent : m.retries > 0 => Told(m)

(* What is about to be retried met a transient failure.                    *)
Glitches ==
    \A e \in Executor :
        pc[e] = "retrying" \/ (pc[e] = "disposing" /\ raised[e] = "transient") =>
            <<run[e].task, run[e].retries>> \in glitched

EnginesInUse == \A e \in engine : pc[e] \in {"running", "disposing"}

ExitsOnlyTerminated == "terminate" \notin Faults => \A e \in Executor : raised[e] # "SystemExit"

Inv ==
    /\ TypeOK /\ Traced /\ Bindings /\ GivenBack
    /\ Glitches /\ Retried
    /\ EnginesInUse /\ ExitsOnlyTerminated /\ SuccessReturned

(* A retry stays told while no event is taken back and every worker that   *)
(* is about to tell of one still is, has told, or failed to.               *)
LEMMA ToldKept ==
    ASSUME glitched \subseteq glitched', finished \subseteq finished', unlogged \subseteq unlogged',
           \A w \in Workers : pc[w] = "ending" /\ raised[w] = "Retry" =>
               \/ pc'[w] = "ending" /\ raised'[w] = "Retry" /\ run'[w] = run[w]
               \/ <<w, run[w].task, run[w].retries>> \in unlogged'
               \/ \E f \in finished' : /\ f.task = run[w].task /\ f.retries = run[w].retries
                                       /\ f.outcome = "retry",
           NEW m, Told(m)
    PROVE  Told(m)'
<1> DEFINE n == m.retries - 1
<1>0. <<m.task, n>> \in glitched'
  BY DEF Told
<1>1. CASE \E f \in finished : f.task = m.task /\ f.retries = n /\ f.outcome = "retry"
  BY <1>0, <1>1 DEF Told
<1>2. CASE \E w \in Workers : <<w, m.task, n>> \in unlogged
  BY <1>0, <1>2 DEF Told
<1>3. ASSUME NEW w \in Workers, pc[w] = "ending", raised[w] = "Retry",
             run[w].task = m.task, run[w].retries = n
      PROVE  Told(m)'
  <2> HIDE DEF n
  <2>1. CASE pc'[w] = "ending" /\ raised'[w] = "Retry" /\ run'[w] = run[w]
    BY <1>0, <1>3, <2>1 DEF Told, n
  <2>2. CASE <<w, m.task, n>> \in unlogged'
    BY <1>0, <2>2 DEF Told, n
  <2>3. CASE \E f \in finished' : f.task = m.task /\ f.retries = n /\ f.outcome = "retry"
    BY <1>0, <2>3 DEF Told, n
  <2> QED  BY <1>3, <2>1, <2>2, <2>3
<1> QED  BY <1>1, <1>2, <1>3 DEF Told

LEMMA InitInv == ASSUME Parameters PROVE Init => Inv
<1> SUFFICES ASSUME Init PROVE Inv
  OBVIOUS
<1> USE DEF Init, Parameters
<1>1. TypeOK
  BY DEF TypeOK, Context, NoContext, RequestContext, Executor, Raised, DatabaseError
<1>2. Traced /\ Bindings /\ Retried /\ EnginesInUse /\ SuccessReturned
  BY DEF Traced, Bindings, Retried, EnginesInUse, SuccessReturned, Running, Executor
<1>3. GivenBack
  BY DEF GivenBack, Running, Executor
<1>4. Glitches /\ ExitsOnlyTerminated
  BY DEF Glitches, ExitsOnlyTerminated
<1> QED  BY <1>1, <1>2, <1>3, <1>4 DEF Inv
LEMMA StepInv == ASSUME Parameters PROVE Inv /\ [Next]_vars => Inv'
<1> SUFFICES ASSUME Inv, [Next]_vars PROVE Inv'
  OBVIOUS
<1> USE DEF Inv, Parameters, Executor, messages, events
<1>0. Caller \notin Workers /\ Caller \in Executor
  BY DEF Caller
<1> USE <1>0
<1>1. ASSUME NEW t \in Task, NEW c \in {NoContext, RequestContext}, Publish(t, c)
      PROVE  Inv'
  <2> USE <1>1 DEF Publish, Send, MessageOf, Headers
  <2>1. TypeOK'
    BY DEF TypeOK, Context, NoContext, RequestContext, Message, Raised, DatabaseError, Unpublished, Direct, Bound, Correlation, Bindings, Running
  <2>2. Traced'
    BY DEF Traced, TypeOK, Message, Context, NoContext, RequestContext, Unpublished, Direct, Bindings, Running, Bound, Correlation
  <2>3. Bindings'
    BY DEF Bindings, Running, Bound, Correlation, TypeOK
  <2>4. GivenBack'
    BY DEF GivenBack, Running, TypeOK
  <2>5. Glitches'
    BY DEF Glitches, TypeOK
  <2>6. Retried'
    <3>1. \A m \in sent : Told(m) => Told(m)'
      <4> SUFFICES ASSUME NEW m \in sent, Told(m) PROVE Told(m)'
        OBVIOUS
      <4> QED  BY ToldKept DEF TypeOK
    <3>2. \A m \in sent' : m \in sent \/ m.retries = 0
      OBVIOUS
    <3> QED  BY <3>1, <3>2 DEF Retried
  <2>7. (EnginesInUse /\ ExitsOnlyTerminated)'
    BY DEF EnginesInUse, ExitsOnlyTerminated, TypeOK, DatabaseError
  <2>8. SuccessReturned'
    BY DEF SuccessReturned, ExitsOnlyTerminated, TypeOK
  <2> QED
    BY <2>1, <2>2, <2>3, <2>4, <2>5, <2>6, <2>7, <2>8
<1>2. ASSUME NEW t \in Task, CallDirectly(t)
      PROVE  Inv'
  <2> USE <1>2 DEF CallDirectly, Move, MessageOf, Headers
  <2>1. TypeOK'
    BY DEF TypeOK, Context, NoContext, RequestContext, Message, Raised, DatabaseError, Unpublished, Direct, Bound, Correlation, Bindings, Running
  <2>2. Traced'
    BY DEF Traced, TypeOK, Message, Context, NoContext, RequestContext, Unpublished, Direct, Bindings, Running, Bound, Correlation
  <2>3. Bindings'
    BY DEF Bindings, Running, Bound, Correlation, TypeOK
  <2>4. GivenBack'
    BY DEF GivenBack, Running, TypeOK
  <2>5. Glitches'
    BY DEF Glitches, TypeOK
  <2>6. Retried'
    <3>1. \A m \in sent : Told(m) => Told(m)'
      <4> SUFFICES ASSUME NEW m \in sent, Told(m) PROVE Told(m)'
        OBVIOUS
      <4> QED  BY ToldKept DEF TypeOK
    <3> QED  BY <3>1 DEF Retried
  <2>7. (EnginesInUse /\ ExitsOnlyTerminated)'
    BY DEF EnginesInUse, ExitsOnlyTerminated, TypeOK, DatabaseError
  <2>8. SuccessReturned'
    BY DEF SuccessReturned, ExitsOnlyTerminated, TypeOK
  <2> QED
    BY <2>1, <2>2, <2>3, <2>4, <2>5, <2>6, <2>7, <2>8
<1>3. ASSUME NEW w \in Workers, NEW taken \in queue, Take(w, taken)
      PROVE  Inv'
  <2> USE <1>3 DEF Take, Move
  <2>1. TypeOK'
    BY DEF TypeOK, Context, NoContext, RequestContext, Message, Raised, DatabaseError, Unpublished, Direct, Bound, Correlation, Bindings, Running
  <2>2. Traced'
    BY DEF Traced, TypeOK, Message, Context, NoContext, RequestContext, Unpublished, Direct, Bindings, Running, Bound, Correlation
  <2>3. Bindings'
    BY DEF Bindings, Running, Bound, Correlation, TypeOK
  <2>4. GivenBack'
    BY DEF GivenBack, Running, TypeOK
  <2>5. Glitches'
    BY DEF Glitches, TypeOK
  <2>6. Retried'
    <3>1. \A m \in sent : Told(m) => Told(m)'
      <4> SUFFICES ASSUME NEW m \in sent, Told(m) PROVE Told(m)'
        OBVIOUS
      <4> QED  BY ToldKept DEF TypeOK
    <3> QED  BY <3>1 DEF Retried
  <2>7. (EnginesInUse /\ ExitsOnlyTerminated)'
    BY DEF EnginesInUse, ExitsOnlyTerminated, TypeOK, DatabaseError
  <2>8. SuccessReturned'
    BY DEF SuccessReturned, ExitsOnlyTerminated, TypeOK
  <2> QED
    BY <2>1, <2>2, <2>3, <2>4, <2>5, <2>6, <2>7, <2>8
<1>4. ASSUME NEW w \in Workers, Kill(w)
      PROVE  Inv'
  <2> USE <1>4 DEF Kill, Idle, Move, Raise, RunOf
  <2>1. TypeOK'
    BY DEF TypeOK, Context, NoContext, RequestContext, Message, Raised, DatabaseError, Unpublished, Direct, Bound, Correlation, Bindings, Running
  <2>2. Traced'
    BY DEF Traced, TypeOK, Message, Context, NoContext, RequestContext, Unpublished, Direct, Bindings, Running, Bound, Correlation
  <2>3. Bindings'
    BY DEF Bindings, Running, Bound, Correlation, TypeOK
  <2>4. GivenBack'
    BY DEF GivenBack, Running, TypeOK
  <2>5. Glitches'
    BY DEF Glitches, TypeOK
  <2>6. Retried'
    <3>1. \A m \in sent : Told(m) => Told(m)'
      <4> SUFFICES ASSUME NEW m \in sent, Told(m) PROVE Told(m)'
        OBVIOUS
      <4> QED  BY ToldKept DEF TypeOK
    <3> QED  BY <3>1 DEF Retried
  <2>7. (EnginesInUse /\ ExitsOnlyTerminated)'
    BY DEF EnginesInUse, ExitsOnlyTerminated, TypeOK, DatabaseError
  <2>8. SuccessReturned'
    BY DEF SuccessReturned, ExitsOnlyTerminated, TypeOK
  <2> QED
    BY <2>1, <2>2, <2>3, <2>4, <2>5, <2>6, <2>7, <2>8
<1>5. ASSUME NEW e \in Executor, Begin(e)
      PROVE  Inv'
  <2> USE <1>5 DEF Begin, Move, Raise
  <2>1. TypeOK'
    BY DEF TypeOK, Context, NoContext, RequestContext, Message, Raised, DatabaseError, Unpublished, Direct, Bound, Correlation, Bindings, Running
  <2>2. Traced'
    BY DEF Traced, TypeOK, Message, Context, NoContext, RequestContext, Unpublished, Direct, Bindings, Running, Bound, Correlation
  <2>3. Bindings'
    BY DEF Bindings, Running, Bound, Correlation, TypeOK
  <2>4. GivenBack'
    BY DEF GivenBack, Running, TypeOK
  <2>5. Glitches'
    BY DEF Glitches, TypeOK
  <2>6. Retried'
    <3>1. \A m \in sent : Told(m) => Told(m)'
      <4> SUFFICES ASSUME NEW m \in sent, Told(m) PROVE Told(m)'
        OBVIOUS
      <4> QED  BY ToldKept DEF TypeOK
    <3> QED  BY <3>1 DEF Retried
  <2>7. (EnginesInUse /\ ExitsOnlyTerminated)'
    BY DEF EnginesInUse, ExitsOnlyTerminated, TypeOK, DatabaseError
  <2>8. SuccessReturned'
    BY DEF SuccessReturned, ExitsOnlyTerminated, TypeOK
  <2> QED
    BY <2>1, <2>2, <2>3, <2>4, <2>5, <2>6, <2>7, <2>8
<1>6. ASSUME NEW e \in Executor, Handle(e)
      PROVE  Inv'
  <2> USE <1>6 DEF Handle, Move, Raise
  <2>1. TypeOK'
    BY DEF TypeOK, Context, NoContext, RequestContext, Message, Raised, DatabaseError, Unpublished, Direct, Bound, Correlation, Bindings, Running
  <2>2. Traced'
    BY DEF Traced, TypeOK, Message, Context, NoContext, RequestContext, Unpublished, Direct, Bindings, Running, Bound, Correlation
  <2>3. Bindings'
    BY DEF Bindings, Running, Bound, Correlation, TypeOK
  <2>4. GivenBack'
    BY DEF GivenBack, Running, TypeOK
  <2>5. Glitches'
    BY DEF Glitches, TypeOK
  <2>6. Retried'
    <3>1. \A m \in sent : Told(m) => Told(m)'
      <4> SUFFICES ASSUME NEW m \in sent, Told(m) PROVE Told(m)'
        OBVIOUS
      <4> QED  BY ToldKept DEF TypeOK
    <3> QED  BY <3>1 DEF Retried
  <2>7. (EnginesInUse /\ ExitsOnlyTerminated)'
    BY DEF EnginesInUse, ExitsOnlyTerminated, TypeOK, DatabaseError
  <2>8. SuccessReturned'
    BY DEF SuccessReturned, ExitsOnlyTerminated, TypeOK
  <2> QED
    BY <2>1, <2>2, <2>3, <2>4, <2>5, <2>6, <2>7, <2>8
<1>7. ASSUME NEW e \in Executor, Dispose(e)
      PROVE  Inv'
  <2> USE <1>7 DEF Dispose, Move, Raise, IsTransient
  <2>1. TypeOK'
    <3>1. pc' \in [Executor -> {"idle", "taken", "running", "disposing", "retrying", "ending"}]
      BY DEF TypeOK
    <3>2. raised' \in [Executor -> Raised]
      BY DEF TypeOK, Raised
    <3>3. \A x \in Executor : pc'[x] # "idle" => run'[x] \in Message
      BY DEF TypeOK
    <3>4. engine' \subseteq Executor
      BY DEF TypeOK
    <3> QED  BY <3>1, <3>2, <3>3, <3>4 DEF TypeOK
  <2>2. Traced'
    BY DEF Traced, TypeOK, Message, Context, NoContext, RequestContext, Unpublished, Direct, Bindings, Running, Bound, Correlation
  <2>3. Bindings'
    BY DEF Bindings, Running, Bound, Correlation, TypeOK
  <2>4. GivenBack'
    BY DEF GivenBack, Running, TypeOK
  <2>5. Glitches'
    BY DEF Glitches, TypeOK
  <2>6. Retried'
    <3>1. \A m \in sent : Told(m) => Told(m)'
      <4> SUFFICES ASSUME NEW m \in sent, Told(m) PROVE Told(m)'
        OBVIOUS
      <4> QED  BY ToldKept DEF TypeOK
    <3> QED  BY <3>1 DEF Retried
  <2>7. (EnginesInUse /\ ExitsOnlyTerminated)'
    BY DEF EnginesInUse, ExitsOnlyTerminated, TypeOK, DatabaseError
  <2>8. SuccessReturned'
    BY DEF SuccessReturned, ExitsOnlyTerminated, TypeOK
  <2> QED
    BY <2>1, <2>2, <2>3, <2>4, <2>5, <2>6, <2>7, <2>8
<1>8. ASSUME NEW e \in Executor, Autoretry(e)
      PROVE  Inv'
  <2> USE <1>8 DEF Autoretry, Move, Raise, Send, MessageOf, Headers
  <2>0. PICK new : new = MessageOf(run[e].task, run[e].retries + 1, context[e])
    OBVIOUS
  <2> USE <2>0
  <2>a. \/ UNCHANGED <<queue, sent>>
        \/ /\ sent' = sent \cup {new} /\ queue' = queue \cup {new}
           /\ new \in Message /\ Told(new)'
           /\ published[new.task] # Unpublished
           /\ new.actor_id = published[new.task].actor
           /\ \/ new.x_correlation_id = published[new.task].correlation
              \/ published[new.task].correlation = "none" /\ new.x_correlation_id = new.task
    <3> SUFFICES ASSUME ~UNCHANGED <<queue, sent>>
                 PROVE  /\ sent' = sent \cup {new} /\ queue' = queue \cup {new}
                        /\ new \in Message /\ Told(new)'
                        /\ published[new.task] # Unpublished
                        /\ new.actor_id = published[new.task].actor
                        /\ \/ new.x_correlation_id = published[new.task].correlation
                           \/ published[new.task].correlation = "none" /\ new.x_correlation_id = new.task
      OBVIOUS
    <3>1. /\ e \in Workers /\ run[e] \in sent /\ run[e] \in Message
          /\ run[e].retries \in Nat /\ run[e].retries + 1 \in 0..max_retries
          /\ sent' = sent \cup {new} /\ queue' = queue \cup {new}
      BY DEF TypeOK, Bindings, Running, Message
    <3>2. context[e].correlation = Correlation(e) /\ context[e].actor = run[e].actor_id
      <4>1. context[e] = Bound(e)
        BY DEF Bindings, Running
      <4> QED  BY <4>1 DEF Bound
    <3>3. new.task = run[e].task /\ new.retries = run[e].retries + 1
          /\ new.x_correlation_id = Correlation(e) /\ new.actor_id = run[e].actor_id
      BY <3>2
    <3>4. Correlation(e) = IF run[e].x_correlation_id # "none" THEN run[e].x_correlation_id ELSE run[e].task
      BY <3>1 DEF Correlation
    <3>5. new \in Message
      BY <3>1, <3>2, <3>4 DEF Message
    <3>6. /\ published[new.task] # Unpublished
          /\ new.actor_id = published[new.task].actor
          /\ \/ new.x_correlation_id = published[new.task].correlation
             \/ published[new.task].correlation = "none" /\ new.x_correlation_id = new.task
      BY <3>1, <3>3, <3>4 DEF Traced
    <3>7. Told(new)'
      <4> DEFINE n == new.retries - 1
      <4>1. n = run[e].retries /\ new.task = run[e].task
        BY <3>1, <3>3
      <4>2. pc'[e] = "ending" /\ raised'[e] = "Retry" /\ run' = run /\ glitched' = glitched
        BY <3>1 DEF TypeOK
      <4>3. <<run[e].task, run[e].retries>> \in glitched
        BY DEF Glitches
      <4> HIDE DEF n
      <4> QED  BY <3>1, <4>1, <4>2, <4>3 DEF Told, n
    <3> QED  BY <3>1, <3>5, <3>6, <3>7
  <2>1. TypeOK'
    BY <2>a DEF TypeOK, Raised
  <2>2. Traced'
    BY <2>a DEF Traced
  <2>3. Bindings'
    BY DEF Bindings, Running, Bound, Correlation, TypeOK
  <2>4. GivenBack'
    BY DEF GivenBack, Running, TypeOK
  <2>5. Glitches'
    BY DEF Glitches, TypeOK
  <2>6. Retried'
    <3>1. \A m \in sent : Told(m) => Told(m)'
      <4> SUFFICES ASSUME NEW m \in sent, Told(m) PROVE Told(m)'
        OBVIOUS
      <4> QED  BY ToldKept DEF TypeOK
    <3> QED  BY <2>a, <3>1 DEF Retried
  <2>7. (EnginesInUse /\ ExitsOnlyTerminated)'
    BY DEF EnginesInUse, ExitsOnlyTerminated, TypeOK, DatabaseError
  <2>8. SuccessReturned'
    BY DEF SuccessReturned, ExitsOnlyTerminated, TypeOK
  <2> QED
    BY <2>1, <2>2, <2>3, <2>4, <2>5, <2>6, <2>7, <2>8
<1>9. ASSUME NEW e \in Executor, End(e)
      PROVE  Inv'
  <2> USE <1>9 DEF End, Idle, Move, Raise, RunOf, Outcome
  <2>1. TypeOK'
    <3> DEFINE f == [task |-> run[e].task, retries |-> run[e].retries,
                     outcome |-> Outcome(raised[e]), returned |-> raised[e] = "none"]
    <3>1. run[e] \in Message
      BY DEF TypeOK
    <3>2. RunOf(e) \in Executor \X Task \X (0..max_retries)
      BY <3>1 DEF Message
    <3>3. f \in [task : Task, retries : 0..max_retries,
                 outcome : {"success", "retry", "failure"}, returned : BOOLEAN]
      BY <3>1 DEF Message
    <3> HIDE DEF f
    <3>4. finished' \in {finished, finished \cup {f}} /\ unlogged' \in {unlogged, unlogged \cup {RunOf(e)}}
      BY DEF f
    <3>5. context' \in [Executor -> Context] /\ previous' \in [Executor -> Context]
      BY DEF TypeOK, Context, NoContext
    <3>6. /\ pc' \in [Executor -> {"idle", "taken", "running", "disposing", "retrying", "ending"}]
          /\ raised' \in [Executor -> Raised] /\ run' \in [Executor -> Message \cup {NoRun}]
          /\ \A x \in Executor : pc'[x] # "idle" => run'[x] \in Message
      BY DEF TypeOK, Raised
    <3> HIDE DEF RunOf
    <3> QED  BY <3>2, <3>3, <3>4, <3>5, <3>6 DEF TypeOK
  <2>2. Traced'
    BY DEF Traced, TypeOK, Message, Context, NoContext, RequestContext, Unpublished, Direct, Bindings, Running, Bound, Correlation
  <2>3. Bindings'
    BY DEF Bindings, Running, Bound, Correlation, TypeOK
  <2>4. GivenBack'
    <3>1. CASE e = Caller
      <4>1. ~Running(Caller)' /\ Running(Caller)
        BY <3>1 DEF Running, TypeOK
      <4>2. CASE context' = [context EXCEPT ![e] = previous[e]] /\ unlogged' = unlogged
        BY <3>1, <4>1, <4>2 DEF GivenBack, TypeOK
      <4>3. CASE unlogged' = unlogged \cup {RunOf(e)}
        <5>1. RunOf(e)[1] = Caller
          BY <3>1
        <5> QED  BY <4>3, <5>1 DEF GivenBack
      <4> QED  BY <4>2, <4>3
    <3>2. CASE e # Caller
      BY <3>2 DEF GivenBack, Running, TypeOK
    <3> QED  BY <3>1, <3>2
  <2>5. Glitches'
    BY DEF Glitches, TypeOK
  <2>6. Retried'
    <3>1. \A m \in sent : Told(m) => Told(m)'
      <4> SUFFICES ASSUME NEW m \in sent, Told(m) PROVE Told(m)'
        OBVIOUS
      <4> DEFINE n == run[e].retries
      <4>1. raised[e] = "Retry" =>
              \/ <<e, run[e].task, n>> \in unlogged'
              \/ \E f \in finished' : f.task = run[e].task /\ f.retries = n /\ f.outcome = "retry"
        <5> DEFINE new == [task |-> run[e].task, retries |-> run[e].retries,
                           outcome |-> Outcome(raised[e]), returned |-> raised[e] = "none"]
        <5>1. new \in finished' \/ RunOf(e) \in unlogged'
          OBVIOUS
        <5>2. raised[e] = "Retry" => new.outcome = "retry"
          OBVIOUS
        <5>3. new.task = run[e].task /\ new.retries = n
          OBVIOUS
        <5> HIDE DEF new
        <5> QED  BY <5>1, <5>2, <5>3
      <4>2. \A w \in Workers : w # e => pc'[w] = pc[w] /\ raised'[w] = raised[w] /\ run'[w] = run[w]
        BY DEF TypeOK
      <4>3. glitched \subseteq glitched' /\ finished \subseteq finished' /\ unlogged \subseteq unlogged'
        OBVIOUS
      <4> QED  BY <4>1, <4>2, <4>3, ToldKept
    <3> QED  BY <3>1 DEF Retried
  <2>7. (EnginesInUse /\ ExitsOnlyTerminated)'
    BY DEF EnginesInUse, ExitsOnlyTerminated, TypeOK, DatabaseError
  <2>8. SuccessReturned'
    <3>1. "terminate" \notin Faults => (Outcome(raised[e]) = "success" => raised[e] = "none")
      BY DEF ExitsOnlyTerminated
    <3> DEFINE new == [task |-> run[e].task, retries |-> run[e].retries,
                       outcome |-> Outcome(raised[e]), returned |-> raised[e] = "none"]
    <3> HIDE DEF Outcome
    <3>2. finished' \in {finished, finished \cup {new}}
      OBVIOUS
    <3>3. new.outcome = Outcome(raised[e]) /\ new.returned = (raised[e] = "none")
      OBVIOUS
    <3> HIDE DEF new
    <3> QED  BY <3>1, <3>2, <3>3 DEF SuccessReturned
  <2> QED
    BY <2>1, <2>2, <2>3, <2>4, <2>5, <2>6, <2>7, <2>8
<1>10. ASSUME NEW e \in Executor, Terminate(e)
      PROVE  Inv'
  <2> USE <1>10 DEF Terminate, Move, Raise, Fails
  <2>1. TypeOK'
    BY DEF TypeOK, Context, NoContext, RequestContext, Message, Raised, DatabaseError, Unpublished, Direct, Bound, Correlation, Bindings, Running
  <2>2. Traced'
    BY DEF Traced, TypeOK, Message, Context, NoContext, RequestContext, Unpublished, Direct, Bindings, Running, Bound, Correlation
  <2>3. Bindings'
    BY DEF Bindings, Running, Bound, Correlation, TypeOK
  <2>4. GivenBack'
    BY DEF GivenBack, Running, TypeOK
  <2>5. Glitches'
    BY DEF Glitches, TypeOK
  <2>6. Retried'
    <3>1. \A m \in sent : Told(m) => Told(m)'
      <4> SUFFICES ASSUME NEW m \in sent, Told(m) PROVE Told(m)'
        OBVIOUS
      <4> QED  BY ToldKept DEF TypeOK
    <3> QED  BY <3>1 DEF Retried
  <2>7. (EnginesInUse /\ ExitsOnlyTerminated)'
    BY DEF EnginesInUse, ExitsOnlyTerminated, TypeOK, DatabaseError
  <2>8. SuccessReturned'
    BY DEF SuccessReturned, ExitsOnlyTerminated, TypeOK
  <2> QED
    BY <2>1, <2>2, <2>3, <2>4, <2>5, <2>6, <2>7, <2>8
<1>11. CASE UNCHANGED vars
  <2> USE <1>11 DEF vars, messages, events
  <2>1. TypeOK'
    BY DEF TypeOK
  <2>2. Traced' /\ Bindings'
    BY DEF Traced, Bindings, Running, Bound, Correlation
  <2>3. GivenBack' /\ Glitches'
    BY DEF GivenBack, Glitches, Running
  <2>4. Retried'
    BY DEF Retried, Told
  <2>5. (EnginesInUse /\ ExitsOnlyTerminated)' /\ SuccessReturned'
    BY DEF EnginesInUse, ExitsOnlyTerminated, SuccessReturned
  <2> QED
    BY <2>1, <2>2, <2>3, <2>4, <2>5
<1> HIDE DEF Inv
<1> QED
  BY <1>1, <1>2, <1>3, <1>4, <1>5, <1>6, <1>7, <1>8, <1>9, <1>10, <1>11 DEF Next, Step

(* What it says. *)
LEMMA InvMeans ==
    ASSUME Parameters, Inv
    PROVE  /\ TypeOK /\ RunsInItsContext /\ ContextGivenBack
           /\ RetryIsTold /\ SuccessReturned /\ EngineReleased
<1>1. RunsInItsContext
  <2> SUFFICES ASSUME NEW w \in Workers, Running(w)
               PROVE  context[w] = [published[run[w].task] EXCEPT
                        !.correlation = IF @ = "none" THEN run[w].task ELSE @]
    BY DEF RunsInItsContext
  <2> DEFINE m == run[w]
             origin == published[m.task]
  <2>1. m \in sent /\ m \in Message /\ m.task \in Task /\ w # Caller /\ m.task # "none"
    BY DEF Inv, Bindings, Running, TypeOK, Message, Parameters, Caller
  <2>2. context[w] = Bound(w)
    BY DEF Inv, Bindings, Executor
  <2>3. origin \in Context \cup {Unpublished, Direct}
    BY <2>1 DEF Inv, TypeOK
  <2>4. origin = [correlation |-> origin.correlation, actor |-> origin.actor]
    BY <2>3 DEF Context, Unpublished, Direct
  <2>5. /\ m.actor_id = origin.actor
        /\ \/ m.x_correlation_id = origin.correlation
           \/ origin.correlation = "none" /\ m.x_correlation_id = m.task
    BY <2>1 DEF Inv, Traced
  <2>6. Correlation(w) = IF m.x_correlation_id # "none" THEN m.x_correlation_id ELSE m.task
    BY <2>1 DEF Correlation
  <2>7. context[w] = [correlation |-> Correlation(w), actor |-> origin.actor]
    BY <2>2, <2>5 DEF Bound
  <2>8. Correlation(w) = IF origin.correlation = "none" THEN m.task ELSE origin.correlation
    BY <2>1, <2>5, <2>6
  <2> HIDE DEF origin
  <2>9. [origin EXCEPT !.correlation = IF @ = "none" THEN m.task ELSE @] =
          [correlation |-> IF origin.correlation = "none" THEN m.task ELSE origin.correlation,
           actor |-> origin.actor]
    BY <2>4
  <2> QED  BY <2>7, <2>8, <2>9 DEF origin
<1>2. ContextGivenBack
  BY DEF Inv, GivenBack, ContextGivenBack, Running
<1>3. RetryIsTold
  BY DEF Inv, Retried, Told, RetryIsTold
<1>4. EngineReleased
  BY DEF Inv, EnginesInUse, EngineReleased
<1> QED  BY <1>1, <1>2, <1>3, <1>4 DEF Inv
=============================================================================
