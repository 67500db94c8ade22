-------------------------- MODULE ProcessesProofs ---------------------------
(***************************************************************************)
(* The invariants of Processes, for any features, tasks, workers, files,   *)
(* backends, commands, faults and bounds: one of each component, those of  *)
(* tasks and migrations from their own modules.                            *)
(***************************************************************************)
EXTENDS Processes, Sequences, TLAPS

-----------------------------------------------------------------------------

(* Start and stop.  Where the lifespan is still to close the resources of  *)
(* a name, those of this life are not closed yet.                          *)
Starting == {"redis", "ping", "unping", "celery", "broker", "up"}
ToClose == [celery |-> Starting \cup {"closeCelery"},
            redis |-> Starting \cup {"closeCelery", "closeRedis"},
            engine |-> Starting \cup {"closeCelery", "closeRedis", "dispose"}]
Unmade == [celery |-> {"redis", "ping", "unping", "celery"}, redis |-> {"redis"}, engine |-> {}]

LifespanTypes ==
    /\ Lifespan!TypeOK
    /\ \A r \in opened : r[2] <= life
    /\ \A r \in Lifespan!Resource : r \notin opened => closes[r] = 0
    /\ \A n \in Lifespan!Name : state[n] # 0 => <<n, state[n]>> \in opened
    /\ appPc \in {"ping", "unping"} => <<"redis", life>> \in opened

(* What is in app.state from an earlier life is there because the dispose  *)
(* of a life failed; nothing of this life is there without its engine.     *)
Stale ==
    /\ \A n \in Lifespan!Name : state[n] # 0 =>
         \/ state[n] \in undisposed
         \/ appPc # "down" /\ state[n] = life /\ state["engine"] = life
    /\ life \notin undisposed \/ appPc = "down"

(* What was opened and not closed is in app.state, or it is the client     *)
(* that create_redis_client has in hand.                                   *)
InHand ==
    \A n \in Lifespan!Name, k \in 1..MaxLives : <<n, k>> \in opened /\ closes[<<n, k>>] = 0 =>
        /\ k = life /\ appPc \in ToClose[n]
        /\ state[n] = life \/ (n = "redis" /\ appPc \in {"ping", "unping"})

NotClosed ==
    \A n \in Lifespan!Name : life > 0 =>
        /\ state[n] = life /\ appPc \in ToClose[n] => closes[<<n, life>>] = 0
        /\ appPc \in Unmade[n] => <<n, life>> \notin opened /\ state[n] # life
        /\ n = "redis" /\ appPc \in {"ping", "unping"} => closes[<<n, life>>] = 0 /\ state[n] # life

Serving ==
    /\ appPc \in Starting \ {"unping"} => state["engine"] = life
    /\ appPc \in {"celery", "broker", "up"} /\ "redis" \in AppFeatures => state["redis"] = life
    /\ appPc \in {"broker", "up"} /\ "celery" \in AppFeatures => state["celery"] = life
    /\ appPc # "down" => life > 0

LifespanInv ==
    LifespanTypes /\ Stale /\ InHand /\ NotClosed /\ Serving /\ Lifespan!ClosedOnce

LEMMA LifespanInit == Lifespan!Init => LifespanInv
  BY LifespanBounds DEF Lifespan!Init, LifespanInv, LifespanTypes, Stale, InHand, NotClosed, Serving,
     ToClose, Unmade, Starting, Lifespan!TypeOK, Lifespan!Name,
     Lifespan!Resource, Lifespan!ClosedOnce

LEMMA LifespanStep == LifespanInv /\ [Lifespan!Next]_(Lifespan!vars) => LifespanInv'
<1> SUFFICES ASSUME LifespanInv, [Lifespan!Next]_(Lifespan!vars) PROVE LifespanInv'
  OBVIOUS
<1> USE LifespanBounds
<1> USE DEF LifespanInv, LifespanTypes, Stale, InHand, NotClosed, Serving,
         ToClose, Unmade, Starting, Lifespan!TypeOK, Lifespan!Name,
         Lifespan!Resource, Lifespan!ClosedOnce
<1>1. CASE Lifespan!Startup
  <2> USE <1>1 DEF Lifespan!Startup, Lifespan!Go
  <2>1. LifespanTypes'
    OBVIOUS
  <2>2. Stale'
    OBVIOUS
  <2>3. InHand'
    OBVIOUS
  <2>4. NotClosed'
    OBVIOUS
  <2>5. Serving'
    OBVIOUS
  <2>6. Lifespan!ClosedOnce'
    OBVIOUS
  <2> QED  BY <2>1, <2>2, <2>3, <2>4, <2>5, <2>6
<1>2. CASE Lifespan!Redis
  <2> USE <1>2 DEF Lifespan!Redis, Lifespan!Open, Lifespan!Go
  <2>1. LifespanTypes'
    OBVIOUS
  <2>2. Stale'
    OBVIOUS
  <2>3. InHand'
    OBVIOUS
  <2>4. NotClosed'
    OBVIOUS
  <2>5. Serving'
    OBVIOUS
  <2>6. Lifespan!ClosedOnce'
    OBVIOUS
  <2> QED  BY <2>1, <2>2, <2>3, <2>4, <2>5, <2>6
<1>3. CASE Lifespan!Ping
  <2> USE <1>3 DEF Lifespan!Ping, Lifespan!Go
  <2>1. LifespanTypes'
    OBVIOUS
  <2>2. Stale'
    OBVIOUS
  <2>3. InHand'
    OBVIOUS
  <2>4. NotClosed'
    OBVIOUS
  <2>5. Serving'
    OBVIOUS
  <2>6. Lifespan!ClosedOnce'
    OBVIOUS
  <2> QED  BY <2>1, <2>2, <2>3, <2>4, <2>5, <2>6
<1>4. CASE Lifespan!Unping
  <2> USE <1>4 DEF Lifespan!Unping, Lifespan!Close, Lifespan!Go
  <2>1. LifespanTypes'
    OBVIOUS
  <2>2. Stale'
    OBVIOUS
  <2>3. InHand'
    OBVIOUS
  <2>4. NotClosed'
    OBVIOUS
  <2>5. Serving'
    OBVIOUS
  <2>6. Lifespan!ClosedOnce'
    OBVIOUS
  <2> QED  BY <2>1, <2>2, <2>3, <2>4, <2>5, <2>6
<1>5. CASE Lifespan!Celery
  <2> USE <1>5 DEF Lifespan!Celery, Lifespan!Open, Lifespan!Go
  <2>1. LifespanTypes'
    OBVIOUS
  <2>2. Stale'
    OBVIOUS
  <2>3. InHand'
    OBVIOUS
  <2>4. NotClosed'
    <3> SUFFICES ASSUME NEW n \in Lifespan!Name, life' > 0
                 PROVE  /\ state'[n] = life' /\ appPc' \in ToClose[n] => closes'[<<n, life'>>] = 0
                        /\ appPc' \in Unmade[n] => <<n, life'>> \notin opened' /\ state'[n] # life'
                        /\ n = "redis" /\ appPc' \in {"ping", "unping"} => closes'[<<n, life'>>] = 0 /\ state'[n] # life'
      OBVIOUS
    <3>1. CASE n = "celery"
      BY <3>1
    <3>2. CASE n = "redis"
      BY <3>2
    <3>3. CASE n = "engine"
      BY <3>3
    <3> QED  BY <3>1, <3>2, <3>3
  <2>5. Serving'
    OBVIOUS
  <2>6. Lifespan!ClosedOnce'
    OBVIOUS
  <2> QED  BY <2>1, <2>2, <2>3, <2>4, <2>5, <2>6
<1>6. CASE Lifespan!Broker
  <2> USE <1>6 DEF Lifespan!Broker, Lifespan!Go
  <2>1. LifespanTypes'
    OBVIOUS
  <2>2. Stale'
    OBVIOUS
  <2>3. InHand'
    OBVIOUS
  <2>4. NotClosed'
    OBVIOUS
  <2>5. Serving'
    OBVIOUS
  <2>6. Lifespan!ClosedOnce'
    OBVIOUS
  <2> QED  BY <2>1, <2>2, <2>3, <2>4, <2>5, <2>6
<1>7. CASE Lifespan!Stop
  <2> USE <1>7 DEF Lifespan!Stop, Lifespan!Go
  <2>1. LifespanTypes'
    OBVIOUS
  <2>2. Stale'
    OBVIOUS
  <2>3. InHand'
    OBVIOUS
  <2>4. NotClosed'
    OBVIOUS
  <2>5. Serving'
    OBVIOUS
  <2>6. Lifespan!ClosedOnce'
    OBVIOUS
  <2> QED  BY <2>1, <2>2, <2>3, <2>4, <2>5, <2>6
<1>8. CASE Lifespan!CloseCelery
  <2> USE <1>8 DEF Lifespan!CloseCelery, Lifespan!CloseFromState, Lifespan!Close, Lifespan!Go
  <2>1. LifespanTypes'
    OBVIOUS
  <2>2. Stale'
    OBVIOUS
  <2>3. InHand'
    OBVIOUS
  <2>4. NotClosed'
    <3> SUFFICES ASSUME NEW n \in Lifespan!Name, life' > 0
                 PROVE  /\ state'[n] = life' /\ appPc' \in ToClose[n] => closes'[<<n, life'>>] = 0
                        /\ appPc' \in Unmade[n] => <<n, life'>> \notin opened' /\ state'[n] # life'
                        /\ n = "redis" /\ appPc' \in {"ping", "unping"} => closes'[<<n, life'>>] = 0 /\ state'[n] # life'
      OBVIOUS
    <3>1. CASE n = "celery"
      BY <3>1
    <3>2. CASE n = "redis"
      BY <3>2
    <3>3. CASE n = "engine"
      BY <3>3
    <3> QED  BY <3>1, <3>2, <3>3
  <2>5. Serving'
    OBVIOUS
  <2>6. Lifespan!ClosedOnce'
    OBVIOUS
  <2> QED  BY <2>1, <2>2, <2>3, <2>4, <2>5, <2>6
<1>9. CASE Lifespan!CloseRedis
  <2> USE <1>9 DEF Lifespan!CloseRedis, Lifespan!CloseFromState, Lifespan!Close, Lifespan!Go
  <2>1. LifespanTypes'
    <3>1. /\ appPc' = "dispose" /\ UNCHANGED <<life, state, opened, undisposed>>
          /\ \/ UNCHANGED closes
             \/ /\ state["redis"] # 0
                /\ closes' = [closes EXCEPT ![<<"redis", state["redis"]>>] = IF @ = 0 THEN 1 ELSE 2]
      OBVIOUS
    <3>2. state["redis"] # 0 => <<"redis", state["redis"]>> \in opened
      OBVIOUS
    <3> HIDE DEF Lifespan!CloseRedis
    <3>3. closes' \in [Lifespan!Resource -> 0..2]
      BY <3>1
    <3>4. \A r \in Lifespan!Resource : r \notin opened => closes'[r] = 0
      BY <3>1, <3>2
    <3> QED  BY <3>1, <3>3, <3>4
  <2>2. Stale'
    OBVIOUS
  <2>3. InHand'
    OBVIOUS
  <2>4. NotClosed'
    OBVIOUS
  <2>5. Serving'
    OBVIOUS
  <2>6. Lifespan!ClosedOnce'
    OBVIOUS
  <2> QED  BY <2>1, <2>2, <2>3, <2>4, <2>5, <2>6
<1>10. CASE Lifespan!Dispose
  <2> USE <1>10 DEF Lifespan!Dispose, Lifespan!CloseFromState, Lifespan!Close, Lifespan!Go
  <2>1. LifespanTypes'
    <3>1. Lifespan!TypeOK'
      <4>1. closes' \in [Lifespan!Resource -> 0..2]
        OBVIOUS
      <4>2. state' \in [Lifespan!Name -> 0..life]
        OBVIOUS
      <4>3. undisposed' \subseteq 1..life
        <5>1. state["engine"] \in 0..life /\ life \in Nat
          OBVIOUS
        <5>2. CASE UNCHANGED undisposed
          BY <5>2
        <5>3. CASE state["engine"] # 0 /\ undisposed' = undisposed \cup {state["engine"]}
          <6>1. state["engine"] \in 1..life
            BY <5>1, <5>3
          <6> QED  BY <6>1, <5>3
        <5> QED  BY <5>2, <5>3
      <4> QED  BY <4>1, <4>2, <4>3
    <3>2. \A r \in Lifespan!Resource : r \notin opened => closes'[r] = 0
      <4>1. CASE state["engine"] = 0
        BY <4>1
      <4>2. CASE state["engine"] # 0
        BY <4>2
      <4> QED  BY <4>1, <4>2
    <3> QED  BY <3>1, <3>2
  <2>2. Stale'
    OBVIOUS
  <2>3. InHand'
    OBVIOUS
  <2>4. NotClosed'
    OBVIOUS
  <2>5. Serving'
    OBVIOUS
  <2>6. Lifespan!ClosedOnce'
    OBVIOUS
  <2> QED  BY <2>1, <2>2, <2>3, <2>4, <2>5, <2>6
<1>11. CASE UNCHANGED Lifespan!vars
  BY <1>11 DEF Lifespan!vars
<1> QED
  BY <1>1, <1>2, <1>3, <1>4, <1>5, <1>6, <1>7, <1>8, <1>9, <1>10, <1>11 DEF Lifespan!Next

LEMMA LifespanHolds ==
  LifespanInv => Lifespan!TypeOK /\ Lifespan!Released /\ Lifespan!ClosedOnce /\ Lifespan!ServesItsOwn
  BY DEF Lifespan!Released, Lifespan!ServesItsOwn, LifespanInv, LifespanTypes, Stale, InHand, NotClosed, Serving, Lifespan!TypeOK, Lifespan!Name, Lifespan!Resource, Lifespan!ClosedOnce, ToClose, Unmade, Starting

-----------------------------------------------------------------------------
WhereWritten ==
    \A o \in store : record[o[3]] # Storage!NoRecord => o = Storage!ObjectOf(o[3])

Gone ==
    /\ \A f \in deleted : record[f] = Storage!NoRecord /\ \A o \in store : o[3] # f
    /\ \A o \in urls : record[o[3]] # Storage!NoRecord \/ o[3] \in deleted

StorageInv == Storage!TypeOK /\ WhereWritten /\ Gone /\ Storage!NotFoundIsTrue

LEMMA Reaching ==
    ASSUME NEW f
    PROVE  /\ Storage!Reached(Storage!Located(f)[1]) =>
                /\ Storage!Located(f) = Storage!ObjectOf(f)
                /\ health[record[f].backend] = "up"
           /\ Storage!Located(f)[3] = f
<1>1. \A b : Storage!Reached(Storage!Provider(b)) => Storage!Provider(b) = b /\ health[b] = "up"
  BY DEF Storage!Reached, Storage!Provider
<1>2. Storage!Located(f) = <<Storage!Provider(record[f].backend), record[f].visibility, f>>
  BY DEF Storage!Located
<1>3. Storage!Located(f)[1] = Storage!Provider(record[f].backend) /\ Storage!Located(f)[3] = f
  BY <1>2
<1>4. Storage!Reached(Storage!Located(f)[1]) =>
        Storage!Provider(record[f].backend) = record[f].backend /\ health[record[f].backend] = "up"
  BY <1>1, <1>3
<1>5. Storage!Reached(Storage!Located(f)[1]) => Storage!Located(f) = Storage!ObjectOf(f)
  BY <1>2, <1>4 DEF Storage!ObjectOf
<1> QED  BY <1>3, <1>4, <1>5

LEMMA Telling ==
    ASSUME Storage!TypeOK, NEW f \in File, record[f] # Storage!NoRecord,
           NEW head \in Storage!Told(Storage!Located(f))
    PROVE  /\ head \in Storage!Heads
           /\ Storage!Exists(head) = "yes" => Storage!Located(f) \in store
           /\ Storage!Exists(head) = "no" =>
                \/ health[record[f].backend] = "up" /\ Storage!ObjectOf(f) \notin store
                \/ /\ head = "bodiless" /\ record[f].backend = "cos"
                   /\ health[record[f].backend] = "noBucket"
<1> DEFINE o == Storage!Located(f)
           b == record[f].backend
<1>1. b \in Backend /\ b # "none" /\ health[b] \in {"up", "down", "noBucket"}
  <2>1. record[f] \in Storage!Record
    BY DEF Storage!TypeOK
  <2>2. b \in Backend
    BY <2>1 DEF Storage!Record
  <2>3. b # "none"
    BY <2>2, StorageBounds
  <2> QED  BY <2>2, <2>3 DEF Storage!TypeOK
<1>2. o = <<Storage!Provider(b), record[f].visibility, f>>
  BY DEF Storage!Located
<1>3. o[1] = Storage!Provider(b) /\ Storage!Provider(b) \in {b, "none"}
  BY <1>2 DEF Storage!Provider
<1>4. CASE o[1] = "none"
  BY <1>4 DEF Storage!Told, Storage!Exists, Storage!Heads
<1>5. CASE o[1] = b /\ health[b] = "down"
  BY <1>5, <1>1 DEF Storage!Told, Storage!Exists, Storage!Heads
<1>6. CASE o[1] = b /\ health[b] # "down"
  <2>1. o = Storage!ObjectOf(f)
    BY <1>6, <1>2, <1>3 DEF Storage!ObjectOf
  <2> HIDE DEF o, b
  <2>2. Storage!Reached(o[1]) <=> health[b] = "up"
    BY <1>1, <1>6 DEF Storage!Reached
  <2>3. CASE health[b] = "up" /\ o \in store
    BY <2>2, <2>3, <1>1, <1>6 DEF Storage!Told, Storage!Exists, Storage!Heads, o
  <2>4. CASE ~(health[b] = "up" /\ o \in store)
    <3>1. head \in {Storage!Named(b)} \cup (IF b = "cos" THEN {"bodiless"} ELSE {})
      BY <2>2, <2>4, <1>1, <1>6 DEF Storage!Told, o
    <3>2. /\ health[b] = "up" => Storage!Named(b) = "noKey" /\ o \notin store
          /\ health[b] # "up" => Storage!Named(b) = "noBucket" /\ health[b] = "noBucket"
      BY <2>4, <1>1, <1>6 DEF Storage!Named
    <3>3. head = "bodiless" => b = "cos"
      BY <3>1, <3>2
    <3> QED  BY <2>1, <3>1, <3>2, <3>3, <2>4 DEF Storage!Exists, Storage!Heads, b
  <2> QED  BY <2>3, <2>4
<1> QED  BY <1>3, <1>4, <1>5, <1>6

LEMMA StorageInit == Storage!Init => StorageInv
  BY StorageBounds DEF Storage!Init, StorageInv, Storage!TypeOK, WhereWritten, Gone,
       Storage!NotFoundIsTrue, Storage!NoAnswer, Storage!NoRecord, Storage!Record

LEMMA StorageStep == StorageInv /\ [Storage!Next]_(Storage!vars) => StorageInv'
<1> SUFFICES ASSUME StorageInv, [Storage!Next]_(Storage!vars) PROVE StorageInv'
  OBVIOUS
<1> USE StorageBounds
<1> USE DEF StorageInv, Storage!TypeOK, WhereWritten, Gone, Storage!NotFoundIsTrue
<1>n. /\ Storage!NoAnswer.code # 404
      /\ \A b : Storage!Reached(Storage!Provider(b)) =>
           b \in filesRegistry /\ Storage!Provider(b) = b /\ health[b] = "up"
      /\ \A r \in Storage!Record : r # Storage!NoRecord /\ r.backend \in Backend /\ r.visibility \in Storage!Visibility
  BY DEF Storage!NoAnswer, Storage!Record, Storage!NoRecord, Storage!Reached, Storage!Provider
<1>1. ASSUME NEW optional \in SUBSET (Backend \ {"local"}), NEW b \in Backend,
             Storage!Restart(optional, b)
      PROVE  StorageInv'
  BY <1>1, <1>n DEF Storage!Restart, Storage!Valid, Storage!ObjectOf
<1>2. ASSUME NEW b \in Backend, NEW h \in {"up", "down", "noBucket"}, Storage!Fault(b, h)
      PROVE  StorageInv'
  BY <1>2, <1>n DEF Storage!Fault, Storage!ObjectOf
<1>3. ASSUME NEW f \in File, NEW v \in Storage!Visibility, Storage!Upload(f, v)
      PROVE  StorageInv'
  <2> DEFINE new == <<default, v, f>>
             r == [backend |-> default, visibility |-> v]
  <2>1. default \in Backend /\ new \in Storage!Object /\ new[3] = f
        /\ r \in Storage!Record
    BY DEF Storage!Object, Storage!Record
  <2>2. /\ record[f] = Storage!NoRecord /\ f \notin deleted
        /\ \A o \in store : o[3] # f
        /\ UNCHANGED <<filesRegistry, default, health, urls, deleted, restarts, faults>>
        /\ filesAnswer' = Storage!NoAnswer
    BY <1>3 DEF Storage!Upload
  <2>3. CASE store' = store \cup {new} /\ record' = [record EXCEPT ![f] = r]
    <3>1. \A g \in File : g # f => record'[g] = record[g] /\ Storage!ObjectOf(g)' = Storage!ObjectOf(g)
      BY <2>3 DEF Storage!ObjectOf
    <3>2. Storage!ObjectOf(f)' = new /\ record'[f] = r
      BY <2>3 DEF Storage!ObjectOf
    <3>3. \A o \in store : o[3] \in File
      BY DEF Storage!Object
    <3>4. \A o \in urls : o[3] \in File
      BY DEF Storage!Object
    <3>5. Storage!TypeOK'
      BY <2>1, <2>2, <2>3
    <3>6. WhereWritten'
      BY <2>1, <2>2, <2>3, <3>1, <3>2, <3>3
    <3>7. Gone'
      BY <2>1, <2>2, <2>3, <3>1, <3>2, <3>4, <1>n
    <3> QED  BY <2>2, <3>5, <3>6, <3>7, <1>n
  <2>4. CASE store' \in {store, store \cup {new}} /\ UNCHANGED record
    <3>1. \A g : Storage!ObjectOf(g)' = Storage!ObjectOf(g)
      BY <2>4 DEF Storage!ObjectOf
    <3>2. Storage!TypeOK'
      BY <2>1, <2>2, <2>4
    <3>3. WhereWritten'
      BY <2>1, <2>2, <2>4, <3>1
    <3>4. Gone'
      BY <2>1, <2>2, <2>4, <3>1
    <3> QED  BY <2>2, <3>2, <3>3, <3>4, <1>n
  <2> QED  BY <2>3, <2>4, <1>3 DEF Storage!Upload
<1>4. ASSUME NEW f \in File, Storage!Download(f)
      PROVE  StorageInv'
  <2> DEFINE o == Storage!Located(f)
             code(h) == CASE Storage!Exists(h) = "error" -> 503
                          [] Storage!Exists(h) = "no" -> 404
                          [] Storage!Exists(h) = "yes" /\ o[1] = "local" -> 200
                          [] OTHER -> 307
  <2>1. PICK head \in Storage!Told(o) :
          /\ filesAnswer' = [file |-> f, code |-> code(head), head |-> head]
          /\ urls' = IF code(head) = 307 THEN urls \cup {o} ELSE urls
    BY <1>4 DEF Storage!Download
  <2>2. /\ record[f] # Storage!NoRecord
        /\ UNCHANGED <<filesRegistry, default, health, record, store, deleted, restarts, faults>>
    BY <1>4 DEF Storage!Download
  <2>3. /\ o[3] = f
        /\ head \in Storage!Heads
        /\ Storage!Exists(head) = "yes" => o \in store
        /\ Storage!Exists(head) = "no" =>
             \/ health[record[f].backend] = "up" /\ Storage!ObjectOf(f) \notin store
             \/ /\ head = "bodiless" /\ record[f].backend = "cos"
                /\ health[record[f].backend] = "noBucket"
    BY <2>2, Reaching, Telling
  <2>4. /\ code(head) \in {200, 307, 404, 503}
        /\ code(head) = 404 => Storage!Exists(head) = "no"
        /\ code(head) = 307 => Storage!Exists(head) = "yes"
    BY DEF Storage!Exists
  <2> HIDE DEF o, code
  <2>5. \A g : Storage!ObjectOf(g)' = Storage!ObjectOf(g)
    BY <2>2 DEF Storage!ObjectOf
  <2>6. urls' \subseteq urls \cup {o} /\ (urls' # urls => o \in store)
    BY <2>1, <2>3, <2>4
  <2>7. Storage!TypeOK'
    BY <2>1, <2>2, <2>3, <2>4, <2>6
  <2>8. WhereWritten'
    BY <2>2, <2>5
  <2>9. Gone'
    BY <2>2, <2>3, <2>6
  <2>10. Storage!NotFoundIsTrue'
    BY <2>1, <2>2, <2>3, <2>4, <2>5
  <2> QED  BY <2>7, <2>8, <2>9, <2>10
<1>5. ASSUME NEW f \in File, Storage!Delete(f)
      PROVE  StorageInv'
  <2> DEFINE o == Storage!Located(f)
  <2>1. /\ record[f] # Storage!NoRecord /\ filesAnswer' = Storage!NoAnswer
        /\ UNCHANGED <<filesRegistry, default, health, urls, restarts, faults>>
        /\ store' \in {store, store \ {o}}
    BY <1>5 DEF Storage!Delete
  <2>2. CASE /\ Storage!Reached(o[1]) /\ store' = store \ {o}
             /\ record' = [record EXCEPT ![f] = Storage!NoRecord]
             /\ deleted' = deleted \cup {f}
    <3>1. o = Storage!ObjectOf(f)
      BY <2>2, <1>n DEF Storage!Located, Storage!ObjectOf
    <3>2. \A g \in File : g # f => record'[g] = record[g] /\ Storage!ObjectOf(g)' = Storage!ObjectOf(g)
      BY <2>2 DEF Storage!ObjectOf
    <3>3. record'[f] = Storage!NoRecord
      BY <2>2
    <3>4. \A x \in store' : x[3] \in File /\ x[3] # f
      BY <2>1, <2>2, <3>1 DEF Storage!Object
    <3>5. \A x \in urls : x[3] \in File
      BY DEF Storage!Object
    <3>6. Storage!TypeOK'
      BY <2>1, <2>2
    <3>7. WhereWritten'
      BY <2>2, <3>2, <3>4
    <3>8. Gone'
      BY <2>1, <2>2, <3>2, <3>3, <3>4, <3>5
    <3> QED  BY <2>1, <3>6, <3>7, <3>8, <1>n
  <2>3. CASE UNCHANGED <<record, deleted>>
    <3>1. \A g : Storage!ObjectOf(g)' = Storage!ObjectOf(g)
      BY <2>3 DEF Storage!ObjectOf
    <3>2. Storage!TypeOK' /\ WhereWritten' /\ Gone'
      BY <2>1, <2>3, <3>1
    <3> QED  BY <2>1, <3>2, <1>n
  <2> QED  BY <2>2, <2>3, <1>5 DEF Storage!Delete
<1>6. CASE UNCHANGED Storage!vars
  BY <1>6 DEF Storage!vars, Storage!ObjectOf
<1> HIDE DEF StorageInv
<1>7. CASE Storage!Next
  BY <1>7, <1>1, <1>2, <1>3, <1>4, <1>5 DEF Storage!Next
<1> QED
  BY <1>6, <1>7

LEMMA StorageHolds ==
  StorageInv => Storage!TypeOK /\ Storage!NotFoundIsTrue /\ Storage!DeletedIsGone
<1> SUFFICES ASSUME StorageInv
             PROVE  Storage!DeletedIsGone
  BY DEF StorageInv
<1> QED  BY DEF StorageInv, Gone, Storage!DeletedIsGone

-----------------------------------------------------------------------------
LEMMA ChecksAre ==
    /\ 1..Len(Diagnosis!Checks) = 1..5
    /\ 1..(Len(Diagnosis!Checks) + 1) = 1..6
    /\ \A c : c <= Len(Diagnosis!Checks) <=> c <= 5
    /\ \A c : c > Len(Diagnosis!Checks) <=> c > 5
    /\ \A i \in 1..5 : Diagnosis!Checks[i] \in {"local", "oss", "cos", "redis", "celery"}
  <1>1. Len(Diagnosis!Checks) = 5
    BY DEF Diagnosis!Checks
  <1>2. \A i \in 1..5 : i = 1 \/ i = 2 \/ i = 3 \/ i = 4 \/ i = 5
    OBVIOUS
  <1>3. \A i \in 1..5 : Diagnosis!Checks[i] \in {"local", "oss", "cos", "redis", "celery"}
    BY <1>2 DEF Diagnosis!Checks
  <1>4. 1..(Len(Diagnosis!Checks) + 1) = 1..6
    BY <1>1
  <1> QED  BY <1>1, <1>3, <1>4, Zenon

LEMMA LinesAre ==
    /\ \A i \in 1..5 : Diagnosis!Checks[i] \in Diagnosis!Lines
    /\ "database" \in Diagnosis!Lines /\ "migrations" \in Diagnosis!Lines
    /\ \A l \in Diagnosis!Lines :
         l \in {"database", "migrations"} \/ \E i \in 1..5 : l = Diagnosis!Checks[i]
  BY ChecksAre, Zenon DEF Diagnosis!Lines

DoctorTypes ==
    /\ check \in 1..6
    /\ doctorPc \in {"load", "find", "connect", "heads", "dispose", "checks", "checking", "end"}
    /\ database \in {"none", "old", "head"}
    /\ outcome \in {"none", "error", "old", "head"}
    /\ report \in [Diagnosis!Lines -> {"none", "OK", "FAIL", "unchecked", "disabled"}]
    /\ healthy \in BOOLEAN
    /\ open \subseteq {"engine", "redis", "celery"}
    /\ exit \in {"none", "0", "1", "2"}
    /\ exit = "none" <=> doctorPc # "end"

Reported ==
    /\ doctorPc \in {"load", "find", "connect", "heads", "dispose"} =>
         check = 1 /\ \A l \in Diagnosis!Lines : report[l] = "none"
    /\ doctorPc \in {"checks", "checking"} =>
         /\ report["database"] # "none" /\ report["migrations"] # "none"
         /\ \A i \in 1..5 : i < check => report[Diagnosis!Checks[i]] # "none"
    /\ doctorPc = "checking" => check <= 5
    /\ Diagnosis!ReportIsComplete

AllWell == healthy => \A l \in Diagnosis!Lines : report[l] \in {"OK", "disabled", "none"}

ZeroIsHealthy == exit = "0" => healthy /\ \A l \in Diagnosis!Lines : report[l] # "none"

OpenNow ==
    /\ doctorPc \in {"load", "find", "connect", "checks", "end"} => open = {}
    /\ doctorPc \in {"heads", "dispose"} => open \subseteq {"engine"}
    /\ doctorPc = "checking" => open \subseteq Diagnosis!Opened(Diagnosis!Checks[check])

DoctorInv == DoctorTypes /\ Reported /\ AllWell /\ ZeroIsHealthy /\ OpenNow

LEMMA DoctorInit == Diagnosis!Init => DoctorInv
  BY LinesAre DEF Diagnosis!Init, DoctorInv, DoctorTypes, Reported, AllWell,
       ZeroIsHealthy, OpenNow, Diagnosis!ReportIsComplete

LEMMA DoctorStep == DoctorInv /\ [Diagnosis!Next]_(Diagnosis!vars) => DoctorInv'
<1> SUFFICES ASSUME DoctorInv, [Diagnosis!Next]_(Diagnosis!vars) PROVE DoctorInv'
  OBVIOUS
<1> USE LinesAre
<1> USE DEF DoctorInv, DoctorTypes, Reported, AllWell, ZeroIsHealthy, OpenNow,
         Diagnosis!ReportIsComplete
<1>1. CASE Diagnosis!Load
  BY <1>1 DEF Diagnosis!Load, Diagnosis!Exit
<1>2. CASE Diagnosis!Find
  BY <1>2 DEF Diagnosis!Find
<1>3. CASE Diagnosis!Connect
  BY <1>3 DEF Diagnosis!Connect, Diagnosis!OpenedFile
<1>4. CASE Diagnosis!ReadHeads
  BY <1>4 DEF Diagnosis!ReadHeads
<1>5. CASE Diagnosis!Dispose
  <2> USE <1>5 DEF Diagnosis!Dispose
  <2>1. /\ report' \in [Diagnosis!Lines -> {"none", "OK", "FAIL", "unchecked", "disabled"}]
        /\ report'["database"] # "none" /\ report'["migrations"] # "none"
        /\ healthy' => \A l \in Diagnosis!Lines : report'[l] \in {"OK", "disabled", "none"}
        /\ healthy' \in BOOLEAN
    BY DEF Diagnosis!DatabaseLines, Diagnosis!HealthyAfter
  <2> QED  BY <2>1
<1>6. CASE Diagnosis!Disabled
  <2>1. check' = check + 1 /\ check <= 5
    BY <1>6, ChecksAre DEF Diagnosis!Disabled
  <2> QED  BY <1>6, <2>1 DEF Diagnosis!Disabled
<1>7. CASE Diagnosis!BeginCheck
  <2>1. check <= 5
    BY <1>7, ChecksAre DEF Diagnosis!BeginCheck
  <2> QED  BY <1>7, <2>1 DEF Diagnosis!BeginCheck, Diagnosis!Opened
<1>8. CASE Diagnosis!EndCheck
  <2> USE <1>8 DEF Diagnosis!EndCheck, Diagnosis!KeptOpen
  <2>1. check \in 1..5 /\ check' = check + 1
    OBVIOUS
  <2>2. PICK result \in {"OK", "FAIL"} :
          /\ report' = [report EXCEPT ![Diagnosis!Checks[check]] = result]
          /\ healthy' = (healthy /\ result = "OK")
    OBVIOUS
  <2>3. open' = {}
    OBVIOUS
  <2>6. DoctorTypes'
    <3>1. report' \in [Diagnosis!Lines -> {"none", "OK", "FAIL", "unchecked", "disabled"}]
      BY <2>1, <2>2
    <3>2. check' \in 1..6
      BY <2>1
    <3> QED  BY <2>2, <2>3, <3>1, <3>2
  <2>7. OpenNow'
    BY <2>3
  <2>4. Reported'
    BY <2>1, <2>2
  <2>5. AllWell' /\ ZeroIsHealthy'
    BY <2>1, <2>2
  <2> QED  BY <2>4, <2>5, <2>6, <2>7
<1>9. CASE Diagnosis!Finish
  <2>1. check > 5
    BY <1>9, ChecksAre DEF Diagnosis!Finish
  <2>2. \A l \in Diagnosis!Lines : report[l] # "none"
    BY <1>9, <2>1 DEF Diagnosis!Finish
  <2> QED  BY <1>9, <2>2 DEF Diagnosis!Finish, Diagnosis!Exit
<1>10. CASE Diagnosis!Environment
  BY <1>10 DEF Diagnosis!Environment
<1>11. CASE UNCHANGED Diagnosis!vars
  BY <1>11 DEF Diagnosis!vars
<1> QED
  BY <1>1, <1>2, <1>3, <1>4, <1>5, <1>6, <1>7, <1>8, <1>9, <1>10, <1>11 DEF Diagnosis!Next

LEMMA DoctorHolds ==
  DoctorInv => /\ Diagnosis!TypeOK
               /\ Diagnosis!ReportIsComplete /\ Diagnosis!ExitTellsReport
               /\ Diagnosis!NeverCreates /\ Diagnosis!NothingLeftOpen
<1> SUFFICES ASSUME DoctorInv
             PROVE  /\ Diagnosis!TypeOK
                    /\ Diagnosis!ReportIsComplete /\ Diagnosis!ExitTellsReport
                    /\ Diagnosis!NeverCreates /\ Diagnosis!NothingLeftOpen
  OBVIOUS
<1>1. check \in 1..(Len(Diagnosis!Checks) + 1)
  BY ChecksAre, Zenon DEF DoctorInv, DoctorTypes
<1>2. Diagnosis!TypeOK
  BY <1>1 DEF DoctorInv, DoctorTypes, Diagnosis!TypeOK
<1> QED
  BY <1>2 DEF DoctorInv, DoctorTypes, Reported, AllWell, ZeroIsHealthy, OpenNow,
         Diagnosis!ExitTellsReport, Diagnosis!NeverCreates, Diagnosis!NothingLeftOpen

-----------------------------------------------------------------------------
Checked == {"metrics", "middleware", "redis", "ping", "celery", "broker", "up"}

Sufficient ==
    /\ bootPc \notin {"load", "rejected"} => Assembly!Accepted
    /\ process = "web" /\ bootPc \in Checked => bootRegistry = {"local"} \cup Assembly!Configured
    /\ process = "worker" => bootPc \notin {"registry", "metrics", "middleware", "redis", "ping"}

Clients ==
    /\ "limiter" \in made => settings.login_rate_limit_enabled
    /\ "redis" \in made => settings.redis_enabled
    /\ process = "web" /\ bootPc \in {"celery", "broker", "up"} /\ settings.redis_enabled =>
         "redis" \in made
    /\ bootPc = "ping" => settings.redis_enabled
    /\ bootPc = "broker" => settings.celery_enabled

AssemblyInv ==
    /\ Assembly!TypeOK /\ Sufficient /\ Clients
    /\ Assembly!AcceptedSuffices /\ Assembly!DisabledIsNotMissed

LEMMA AssemblyInit == Assembly!Init => AssemblyInv
  BY DEF Assembly!Init, AssemblyInv, Assembly!TypeOK, Sufficient, Clients, Checked,
         Assembly!AcceptedSuffices, Assembly!DisabledIsNotMissed

LEMMA AssemblyStep == AssemblyInv /\ [Assembly!Next]_(Assembly!vars) => AssemblyInv'
<1> SUFFICES ASSUME AssemblyInv, [Assembly!Next]_(Assembly!vars) PROVE AssemblyInv'
  OBVIOUS
<1>s. UNCHANGED <<settings, process>>
  BY DEF Assembly!Next, Assembly!vars, Assembly!Load, Assembly!Registry, Assembly!Metrics,
         Assembly!Middleware, Assembly!Redis, Assembly!Ping, Assembly!Celery, Assembly!Broker,
         Assembly!Login, Assembly!Upload
<1>u. /\ Assembly!Accepted' = Assembly!Accepted /\ Assembly!Configured' = Assembly!Configured
      /\ \A f : Assembly!Enabled(f)' = Assembly!Enabled(f)
  BY <1>s DEF Assembly!Accepted, Assembly!Configured, Assembly!Enabled, Assembly!ValidApp,
         Assembly!ValidSecurity, Assembly!ValidDatabase, Assembly!ValidStorage,
         Assembly!ValidTogether, Assembly!ValidUrl
<1>c. /\ Assembly!Configured \subseteq {"oss", "cos"}
      /\ \A b \in Assembly!Configured : Assembly!Enabled(b)
      /\ Assembly!Enabled("redis") = settings.redis_enabled
      /\ Assembly!Enabled("celery") = settings.celery_enabled
      /\ Assembly!Enabled("metrics") = settings.metrics_enabled
  BY DEF Assembly!Configured, Assembly!Enabled
<1>a. Assembly!Accepted =>
        /\ settings.storage_backend \in {"local"} \cup Assembly!Configured
        /\ settings.login_rate_limit_enabled => settings.redis_enabled
        /\ settings.redis_enabled => settings.redis_url = "good"
        /\ settings.celery_enabled => settings.celery_broker_url = "good"
  BY DEF AssemblyInv, Assembly!TypeOK, Assembly!Setting, Assembly!Accepted,
         Assembly!Configured, Assembly!ValidStorage, Assembly!ValidTogether, Assembly!ValidUrl
<1> USE <1>s, <1>u, <1>c, <1>a
<1> USE DEF AssemblyInv, Assembly!TypeOK, Sufficient, Clients, Checked,
         Assembly!AcceptedSuffices, Assembly!DisabledIsNotMissed, Assembly!Feature,
         Assembly!Go, Assembly!Make, Assembly!Miss
<1>1. CASE Assembly!Load
  BY <1>1 DEF Assembly!Load
<1>2. CASE Assembly!Registry
  <2> USE <1>2 DEF Assembly!Registry
  <2>1. Assembly!TypeOK'
    OBVIOUS
  <2>2. Sufficient' /\ Clients'
    OBVIOUS
  <2>3. Assembly!AcceptedSuffices' /\ Assembly!DisabledIsNotMissed'
    OBVIOUS
  <2> HIDE DEF Assembly!TypeOK, Sufficient, Clients, Assembly!AcceptedSuffices,
               Assembly!DisabledIsNotMissed
  <2> QED  BY <2>1, <2>2, <2>3
<1>3. CASE Assembly!Metrics
  <2> USE <1>3 DEF Assembly!Metrics
  <2>1. Assembly!TypeOK'
    OBVIOUS
  <2>2. Sufficient' /\ Clients'
    OBVIOUS
  <2>3. Assembly!AcceptedSuffices' /\ Assembly!DisabledIsNotMissed'
    OBVIOUS
  <2> HIDE DEF Assembly!TypeOK, Sufficient, Clients, Assembly!AcceptedSuffices,
               Assembly!DisabledIsNotMissed
  <2> QED  BY <2>1, <2>2, <2>3
<1>4. CASE Assembly!Middleware
  <2> USE <1>4 DEF Assembly!Middleware
  <2>1. Assembly!TypeOK'
    OBVIOUS
  <2>2. Sufficient' /\ Clients'
    OBVIOUS
  <2>3. Assembly!AcceptedSuffices' /\ Assembly!DisabledIsNotMissed'
    OBVIOUS
  <2> HIDE DEF Assembly!TypeOK, Sufficient, Clients, Assembly!AcceptedSuffices,
               Assembly!DisabledIsNotMissed
  <2> QED  BY <2>1, <2>2, <2>3
<1>5. CASE Assembly!Redis
  <2> USE <1>5 DEF Assembly!Redis
  <2>1. Assembly!TypeOK'
    <3>1. CASE ~settings.redis_enabled
      BY <3>1
    <3>2. CASE settings.redis_enabled
      BY <3>2
    <3> QED  BY <3>1, <3>2
  <2>2. Sufficient' /\ Clients'
    OBVIOUS
  <2>3. Assembly!AcceptedSuffices' /\ Assembly!DisabledIsNotMissed'
    OBVIOUS
  <2> HIDE DEF Assembly!TypeOK, Sufficient, Clients, Assembly!AcceptedSuffices,
               Assembly!DisabledIsNotMissed
  <2> QED  BY <2>1, <2>2, <2>3
<1>6. CASE Assembly!Ping
  <2> USE <1>6 DEF Assembly!Ping
  <2>1. Assembly!TypeOK'
    OBVIOUS
  <2>2. Sufficient' /\ Clients'
    OBVIOUS
  <2>3. Assembly!AcceptedSuffices' /\ Assembly!DisabledIsNotMissed'
    OBVIOUS
  <2> HIDE DEF Assembly!TypeOK, Sufficient, Clients, Assembly!AcceptedSuffices,
               Assembly!DisabledIsNotMissed
  <2> QED  BY <2>1, <2>2, <2>3
<1>7. CASE Assembly!Celery
  <2> USE <1>7 DEF Assembly!Celery
  <2>1. CASE ~settings.celery_enabled
    BY <2>1
  <2>2. CASE settings.celery_enabled
    <3>1. settings.celery_broker_url # "none"
      BY <2>2
    <3>2. CASE bootPc' = "broker" /\ made' = made \cup {"celery"} /\ missed' = missed
      BY <2>2, <3>2
    <3>3. CASE missed' = "celery" /\ bootPc' = "failed" /\ made' = made
      BY <2>2, <3>3
    <3> QED  BY <2>2, <3>1, <3>2, <3>3
  <2> QED  BY <2>1, <2>2
<1>8. CASE Assembly!Broker
  <2> USE <1>8 DEF Assembly!Broker
  <2>1. Assembly!TypeOK'
    OBVIOUS
  <2>2. Sufficient' /\ Clients'
    OBVIOUS
  <2>3. Assembly!AcceptedSuffices' /\ Assembly!DisabledIsNotMissed'
    OBVIOUS
  <2> HIDE DEF Assembly!TypeOK, Sufficient, Clients, Assembly!AcceptedSuffices,
               Assembly!DisabledIsNotMissed
  <2> QED  BY <2>1, <2>2, <2>3
<1>9. CASE Assembly!Login
  BY <1>9 DEF Assembly!Login
<1>10. CASE Assembly!Upload
  <2> USE <1>10 DEF Assembly!Upload
  <2>1. settings.storage_backend \in bootRegistry
    OBVIOUS
  <2>2. CASE bootAnswer' = "served" /\ missed' = "none"
    BY <2>2
  <2>3. CASE /\ settings.storage_backend \in bootRegistry \ {"local"}
             /\ bootAnswer' = "unavailable" /\ missed' = settings.storage_backend
    <3>1. settings.storage_backend \in Assembly!Configured
      BY <2>3
    <3>2. missed' \in {"oss", "cos"} /\ Assembly!DisabledIsNotMissed'
      BY <2>3, <3>1 DEF Assembly!Configured, Assembly!Enabled
    <3>3. Assembly!TypeOK'
      BY <2>3, <3>2
    <3>4. Sufficient' /\ Clients'
      BY <2>3
    <3>5. Assembly!AcceptedSuffices'
      BY <2>3, <3>2
    <3> QED  BY <3>2, <3>3, <3>4, <3>5
  <2>4. \/ bootAnswer' = "served" /\ missed' = "none"
        \/ /\ settings.storage_backend \in bootRegistry \ {"local"}
           /\ bootAnswer' = "unavailable" /\ missed' = settings.storage_backend
    BY <2>1
  <2> HIDE DEF AssemblyInv
  <2> QED  BY <2>2, <2>3, <2>4
<1>11. CASE UNCHANGED Assembly!vars
  <2>1. UNCHANGED <<settings, process, bootPc, bootRegistry, made, missed, bootAnswer>>
    BY <1>11 DEF Assembly!vars
  <2>2. Assembly!TypeOK'
    BY <2>1
  <2>3. Sufficient' /\ Clients'
    BY <2>1
  <2>4. Assembly!AcceptedSuffices' /\ Assembly!DisabledIsNotMissed'
    BY <2>1
  <2> HIDE DEF Assembly!TypeOK, Sufficient, Clients, Assembly!AcceptedSuffices,
               Assembly!DisabledIsNotMissed
  <2> QED  BY <2>2, <2>3, <2>4
<1> HIDE <1>s, <1>u, <1>c, <1>a
<1> HIDE DEF AssemblyInv
<1> QED
  BY <1>1, <1>2, <1>3, <1>4, <1>5, <1>6, <1>7, <1>8, <1>9, <1>10, <1>11 DEF Assembly!Next

-----------------------------------------------------------------------------
(* All of them.                                                            *)
Inv ==
    /\ part \in {"lifespan", "retries", "contexts", "storage", "doctor",
                 "sqlite", "postgresql", "mysql", "assembly"}
    /\ part = "lifespan" => LifespanInv
    /\ part = "retries" => Retries!Inv
    /\ part = "contexts" => Contexts!Inv
    /\ part = "storage" => StorageInv
    /\ part = "doctor" => DoctorInv
    /\ part = "sqlite" => Lite!TransactionalInv
    /\ part = "postgresql" => Postgres!TransactionalInv
    /\ part = "mysql" => MySQL!AutocommitInv
    /\ part = "assembly" => AssemblyInv

LEMMA Bounded ==
    /\ Retries!Parameters /\ Contexts!Parameters
    /\ Lite!Parameters /\ ~Lite!Autocommits
    /\ Postgres!Parameters /\ ~Postgres!Autocommits
    /\ MySQL!Upgrades
<1>1. Retries!Parameters /\ Contexts!Parameters
  BY TaskBounds DEF Retries!Parameters, Contexts!Parameters
<1>2. Lite!Parameters /\ ~Lite!Autocommits /\ Postgres!Parameters /\ ~Postgres!Autocommits
  BY DEF Lite!Parameters, Lite!Autocommits, Postgres!Parameters, Postgres!Autocommits
<1>3. MySQL!Upgrades
  BY DEF MySQL!Upgrades
<1> QED
  BY <1>1, <1>2, <1>3

LEMMA Started == Init => Inv
  BY Bounded, LifespanInit, Retries!InitInv, Contexts!InitInv, StorageInit, DoctorInit,
     Lite!TransactionalInit, Postgres!TransactionalInit, MySQL!AutocommitInit, AssemblyInit
     DEF Init, Inv

(* One step is a step of one component, or of none. *)
LEMMA StepsAre ==
    ASSUME [Next]_vars
    PROVE  /\ part' = part
           /\ part = "lifespan" => [Lifespan!Next]_(Lifespan!vars)
           /\ part = "retries" => [Retries!Next]_(Retries!vars)
           /\ part = "contexts" => [Contexts!Next]_(Contexts!vars)
           /\ part = "storage" => [Storage!Next]_(Storage!vars)
           /\ part = "doctor" => [Diagnosis!Next]_(Diagnosis!vars)
           /\ part = "sqlite" => [Lite!Next]_(Lite!vars)
           /\ part = "postgresql" => [Postgres!Next]_(Postgres!vars)
           /\ part = "mysql" => [MySQL!Next]_(MySQL!vars)
           /\ part = "assembly" => [Assembly!Next]_(Assembly!vars)
<1>1. CASE Next
  BY <1>1 DEF Next
<1>2. CASE UNCHANGED vars
  <2>1. UNCHANGED <<part, app, tasks, files, doctor, schema, boot>>
    BY <1>2 DEF vars
  <2>2. UNCHANGED Lifespan!vars
    BY <2>1 DEF app, Lifespan!vars
  <2>3. UNCHANGED Retries!vars /\ UNCHANGED Contexts!vars
    BY <2>1 DEF tasks, Retries!vars, Retries!messages, Retries!events,
       Contexts!vars, Contexts!messages, Contexts!events
  <2>4. UNCHANGED Storage!vars
    BY <2>1 DEF files, Storage!vars
  <2>5. UNCHANGED Diagnosis!vars
    BY <2>1 DEF doctor, Diagnosis!vars
  <2>6. UNCHANGED Lite!vars /\ UNCHANGED Postgres!vars /\ UNCHANGED MySQL!vars
    BY <2>1 DEF schema, Lite!vars, Postgres!vars, MySQL!vars
  <2>7. UNCHANGED Assembly!vars
    BY <2>1 DEF boot, Assembly!vars
  <2> QED
    BY <2>1, <2>2, <2>3, <2>4, <2>5, <2>6, <2>7
<1> QED
  BY <1>1, <1>2

LEMMA Kept == Inv /\ [Next]_vars => Inv'
  BY Bounded, StepsAre, LifespanStep, Retries!StepInv, Contexts!StepInv, StorageStep, DoctorStep,
     Lite!TransactionalStep, Postgres!TransactionalStep, MySQL!AutocommitStep, AssemblyStep
     DEF Inv

LEMMA Always == Spec => []Inv
  BY Started, Kept, PTL DEF Spec

-----------------------------------------------------------------------------
(* Every component keeps its types. *)
THEOREM TypesHold == Spec => []TypeOK
<1>1. Inv => TypeOK
  BY Bounded, LifespanHolds, Retries!InvMeans, Contexts!InvMeans, StorageHolds, DoctorHolds,
     MySQL!AutocommitMeans
     DEF Inv, TypeOK, Lite!TransactionalInv, Lite!Typed, Postgres!TransactionalInv,
         Postgres!Typed, AssemblyInv
<1> QED
  BY <1>1, Always, PTL

(* Of any number of lives, however far a startup came and whatever failed  *)
(* on the way down, none leaves open what it opened, closes it twice or    *)
(* serves with what another left (startup, shutdown).                      *)
THEOREM ClosedHolds == Spec => []ClosedOnce
<1>1. Inv => ClosedOnce
  BY LifespanHolds DEF Inv, ClosedOnce
<1> QED
  BY <1>1, Always, PTL

(* Any task runs in the context of its request on any worker, at any retry *)
(* or redelivery, and a direct call gives its context back                 *)
(* (BaseTask.__call__, add_context).                                       *)
THEOREM ContextHolds == Spec => []RunsInItsContext
<1>1. Inv => RunsInItsContext
  BY Bounded, Retries!InvMeans, Contexts!InvMeans DEF Inv, RunsInItsContext
<1> QED
  BY <1>1, Always, PTL

(* Of any number of retries and redeliveries, none is without the event of *)
(* the run it follows, and no engine outlives its run (BaseTask, bridge).  *)
THEOREM RetryHolds == Spec => []RetryIsTold
<1>1. Inv => RetryIsTold
  BY Bounded, Retries!InvMeans, Contexts!InvMeans DEF Inv, RetryIsTold
<1> QED
  BY <1>1, Always, PTL

(* For any files, restarts and faults, a 404 is true of the backend the    *)
(* row names, and what DELETE acknowledged is in none (StorageRegistry).   *)
THEOREM NotFoundHolds == Spec => []NotFoundIsTrue
<1>1. Inv => NotFoundIsTrue
  BY StorageHolds DEF Inv, NotFoundIsTrue
<1> QED
  BY <1>1, Always, PTL

(* doctor reports every line, exits 0 only when all are well and leaves    *)
(* nothing open, whatever is enabled and fails.                            *)
THEOREM DoctorTellsTrue == Spec => []DoctorIsTrue
<1>1. Inv => DoctorIsTrue
  BY DoctorHolds DEF Inv, DoctorIsTrue
<1> QED
  BY <1>1, Always, PTL

(* For any number of commands at once, the version and the tables are of   *)
(* one revision where DDL is transactional, and at most one apart on       *)
(* MySQL, and done means at the target (env.py, begin and commit).         *)
THEOREM StampHolds == Spec => SchemaIsStamped
<1> DEFINE Together == CASE part = "sqlite" -> Lite!SchemaIsStamped
                         [] part = "postgresql" -> Postgres!SchemaIsStamped
                         [] part = "mysql" -> MySQL!OneStepApart
                         [] OTHER -> TRUE
           Done == CASE part = "sqlite" -> Lite!DoneIsTarget
                     [] part = "postgresql" -> Postgres!DoneIsTarget
                     [] part = "mysql" -> MySQL!DoneIsTarget
                     [] OTHER -> TRUE
<1>1. Inv => Together
  BY MySQL!AutocommitMeans DEF Inv, Lite!TransactionalInv, Postgres!TransactionalInv
<1>2. ASSUME Inv, [Next]_vars PROVE Done
  BY <1>2, Bounded, StepsAre, Lite!TransactionalDone, Postgres!TransactionalDone,
     MySQL!AutocommitDone DEF Inv
<1>3. []Inv /\ [][Next]_vars => []Together /\ [][Done]_vars
  BY <1>1, <1>2, PTL
<1> QED
  BY <1>3, Always DEF Spec, SchemaIsStamped

(* Settings that were accepted, whatever they are, fail no assertion or    *)
(* lookup later, and nothing disabled is missed (Settings, bootstrap).     *)
THEOREM AcceptedHolds == Spec => []AcceptedSuffices
<1>1. Inv => AcceptedSuffices
  BY DEF Inv, AcceptedSuffices, AssemblyInv
<1> QED
  BY <1>1, Always, PTL
=============================================================================
