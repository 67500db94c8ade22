--------------------------- MODULE AccountsProofs ---------------------------
(***************************************************************************)
(* What modules/user/service.py promises about accounts, proved for any    *)
(* requests, any bounds and either dialect.                                *)
(*                                                                         *)
(* The heart is WritersInv: what two open transactions have written and    *)
(* not committed.  The constraints of the table judge a statement against  *)
(* committed rows; that the result is also distinct from what another      *)
(* transaction commits later rests on the locks (Blocked).                 *)
(***************************************************************************)
EXTENDS Accounts, TLAPS

(* The constants: requests of one kind each, and bounds that leave room    *)
(* for the first accounts.                                                 *)
Parameters ==
    /\ Creates \cap (Updates \cup Deletes) = {} /\ Updates \cap Deletes = {}
    /\ Sqlite \in BOOLEAN
    /\ {Admins, Users, MaxName, MaxEmail, MaxId} \subseteq Nat
    /\ Users <= MaxName /\ Users <= MaxId /\ MaxName # 0

-----------------------------------------------------------------------------
(* The inductive invariant. *)

(* A creation carries a whole body. *)
WholeBody(r) == pc[r] # "new" => ask[r] \in Body

(* Ids are given once, in order: nothing above seq was ever given, and no  *)
(* two creations hold one id; one that has not committed has no row yet.   *)
GivenId(r) ==
    /\ pc[r] \in {"commit", "ok"} => target[r] \in 1..seq
    /\ pc[r] = "commit" => rows[target[r]] = Gone
    /\ \A q \in Creates \ {r} :
         {pc[q], pc[r]} \subseteq {"commit", "ok"} => target[q] # target[r]
IdsInv ==
    /\ \A i \in Id : i > seq => rows[i] = Gone
    /\ \A r \in Creates : WholeBody(r) /\ GivenId(r)

(* A request about an account loaded it, and a DELETE is not about its own. *)
Loaded(r) == pc[r] \in {"name", "email", "write", "commit"}
LoadedInv ==
    /\ \A r \in Request : pc[r] = "load" \/ (r \in Updates /\ Loaded(r)) => target[r] \in Id
    /\ \A r \in Request : pc[r] \in {"name", "email"} => r \in Updates
    /\ \A r \in Updates : Loaded(r) => seen[r] \in Account
    /\ \A r \in Deletes : pc[r] = "load" \/ Loaded(r) => actor[r] # target[r]

(* The row a transaction has written, or Gone. *)
Written(r) == After(r, target[r])

(* What a transaction has written may be committed at any time: its row is *)
(* still there to change, and its new values are nobody else's.            *)
Committable(r) ==
    /\ r \in Updates => Exists(target[r])
    /\ r \notin Deletes => \A j \in Id \ {target[r]} :
         rows[j] # Gone => ~Clash(Written(r), rows[j])
Apart(r, q) ==
    /\ ~Sqlite
    /\ target[r] # target[q]
    /\ {r, q} \cap Deletes = {} => ~Clash(Written(r), Written(q))
WritersInv ==
    \A r \in Request : Writing(r) =>
        /\ Committable(r)
        /\ \A q \in Request \ {r} : Writing(q) => Apart(r, q)

(* SQLite: nobody commits a change while another transaction has read.     *)
SnapshotInv ==
    Sqlite => \A r \in Updates : Loaded(r) => seen[r] = rows[target[r]]

AccountsInv ==
    /\ TypeOK
    /\ IdsInv
    /\ LoadedInv
    /\ WritersInv
    /\ SnapshotInv
    /\ AccountsDistinct
    /\ CreatedIsKept

-----------------------------------------------------------------------------
(* The constants and the sorts of requests. *)
LEMMA AccountNotGone == ASSUME Parameters PROVE Gone \notin Account
  BY DEF Parameters, Account, Gone, Value

LEMMA AfterCreate ==
  ASSUME Parameters, TypeOK, NEW r \in Creates, ask[r] \in Body, NEW i
  PROVE  /\ After(r, i) \in Account
         /\ After(r, i).name = ask[r].name
         /\ After(r, i).email = ask[r].email
         /\ After(r, i).super = (actor[r] = 0)
<1> DEFINE s == [super |-> actor[r] = 0]
<1>1. After(r, i) = Over(ask[r], s)
  BY DEF After, Parameters
<1>2. DOMAIN ask[r] = {"name", "email", "active"}
  BY DEF Body
<1>3. DOMAIN s = {"super"} /\ s["super"] = (actor[r] = 0)
  OBVIOUS
<1> HIDE DEF s
<1>4. After(r, i) = [f \in {"name", "email", "active", "super"} |->
                       IF f \in {"name", "email", "active"} THEN ask[r][f] ELSE s[f]]
  BY <1>1, <1>2, <1>3 DEF Over
<1>5. /\ After(r, i)["name"] = ask[r]["name"]
      /\ After(r, i)["email"] = ask[r]["email"]
      /\ After(r, i)["active"] = ask[r]["active"]
      /\ After(r, i)["super"] = (actor[r] = 0)
      /\ DOMAIN After(r, i) = {"name", "email", "active", "super"}
  BY <1>3, <1>4
<1> QED
  BY <1>4, <1>5 DEF Account, Body, Value, Parameters

LEMMA PatchFields ==
  ASSUME Parameters, NEW p \in Patch
  PROVE  /\ DOMAIN p \subseteq {"name", "email", "active"}
         /\ "name" \in DOMAIN p => p["name"] \in 1..MaxName
         /\ "email" \in DOMAIN p => p["email"] \in 0..MaxEmail
         /\ "active" \in DOMAIN p => p["active"] \in BOOLEAN
<1>1. Field = {"name", "email", "active"}
  BY DEF Field, Value
<1>2. PICK b \in Body, S \in SUBSET Field : p = [f \in S |-> b[f]]
  BY DEF Patch
<1>3. b["name"] \in 1..MaxName /\ b["email"] \in 0..MaxEmail /\ b["active"] \in BOOLEAN
  BY DEF Body, Value
<1> QED
  BY <1>1, <1>2, <1>3

LEMMA BodyIsPatch == Body \subseteq Patch
<1> SUFFICES ASSUME NEW b \in Body PROVE b \in Patch
  OBVIOUS
<1>1. DOMAIN b = Field
  BY DEF Body, Field, Value
<1>2. b = [f \in Field |-> b[f]]
  BY <1>1 DEF Body
<1> QED
  BY <1>2 DEF Patch

LEMMA NothingIsPatch == ASSUME Parameters PROVE Nothing \in Patch
<1> DEFINE b == [name |-> 1, email |-> NoEmail, active |-> TRUE]
<1>1. b \in Body
  BY DEF Body, Value, NoEmail, Parameters
<1>2. Nothing = [f \in {} |-> b[f]]
  BY DEF Nothing
<1> QED
  BY <1>1, <1>2 DEF Patch

(* The attributes that differ are among the assigned ones. *)
LEMMA AssignedValue ==
  ASSUME NEW r
  PROVE  [f \in Changed(r) |-> Over(ask[r], seen[r])[f]] = [f \in Changed(r) |-> ask[r][f]]
  BY DEF Changed, Over

LEMMA AfterUpdate ==
  ASSUME Parameters, TypeOK, NEW r \in Updates, NEW i, rows[i] \in Account
  PROVE  /\ After(r, i) \in Account
         /\ \A f \in {"name", "email", "active"} :
              After(r, i)[f] = IF f \in Changed(r) THEN ask[r][f] ELSE rows[i][f]
         /\ After(r, i).super = rows[i].super
<1> DEFINE F == {"name", "email", "active", "super"}
           g == [f \in Changed(r) |-> ask[r][f]]
<1>1. After(r, i) = Over(g, rows[i])
  BY AssignedValue DEF After, Parameters
<1>2. /\ DOMAIN ask[r] \subseteq {"name", "email", "active"}
      /\ "name" \in DOMAIN ask[r] => ask[r]["name"] \in 1..MaxName
      /\ "email" \in DOMAIN ask[r] => ask[r]["email"] \in 0..MaxEmail
      /\ "active" \in DOMAIN ask[r] => ask[r]["active"] \in BOOLEAN
  BY PatchFields DEF TypeOK, Request
<1>3. Changed(r) \subseteq DOMAIN ask[r]
  BY DEF Changed
<1>4. DOMAIN rows[i] = F
  BY DEF Account
<1>5. After(r, i) = [f \in F |-> IF f \in Changed(r) THEN ask[r][f] ELSE rows[i][f]]
  <2>1. DOMAIN g \cup DOMAIN rows[i] = F /\ DOMAIN g = Changed(r)
    BY <1>2, <1>3, <1>4
  <2> QED
    BY <1>1, <2>1 DEF Over
<1>6. /\ rows[i]["name"] \in 1..MaxName /\ rows[i]["email"] \in 0..MaxEmail
      /\ rows[i]["active"] \in BOOLEAN /\ rows[i]["super"] \in BOOLEAN
  BY DEF Account, Value
<1>7. /\ After(r, i)["name"] = IF "name" \in Changed(r) THEN ask[r]["name"] ELSE rows[i]["name"]
      /\ After(r, i)["email"] = IF "email" \in Changed(r) THEN ask[r]["email"] ELSE rows[i]["email"]
      /\ After(r, i)["active"] = IF "active" \in Changed(r) THEN ask[r]["active"] ELSE rows[i]["active"]
      /\ After(r, i)["super"] = rows[i]["super"]
      /\ DOMAIN After(r, i) = F
  BY <1>2, <1>3, <1>5
<1>8. After(r, i) \in Account
  <2>1. /\ After(r, i)["name"] \in 1..MaxName
        /\ After(r, i)["email"] \in 0..MaxEmail
        /\ After(r, i)["active"] \in BOOLEAN
        /\ After(r, i)["super"] \in BOOLEAN
    BY <1>2, <1>3, <1>6, <1>7
  <2> HIDE DEF F, g
  <2> QED
    BY <1>5, <1>7, <2>1 DEF Account, Value, F
<1> QED
  BY <1>7, <1>8

LEMMA AfterDelete == ASSUME Parameters, NEW r \in Deletes, NEW i PROVE After(r, i) = Gone
  BY DEF After, Parameters

(* What a request writes depends on the request and on its row alone. *)
LEMMA WrittenSame ==
  ASSUME NEW r \in Request,
         ask'[r] = ask[r], seen'[r] = seen[r], actor'[r] = actor[r], target'[r] = target[r],
         rows'[target[r]] = rows[target[r]]
  PROVE  Written(r)' = Written(r)
<1>1. Changed(r)' = Changed(r)
  BY DEF Changed
<1> QED
  BY <1>1 DEF Written, After, Over

-----------------------------------------------------------------------------
(* What one step may do. *)

(* Only one request moves. *)
Alone(r) ==
    \A q \in Request \ {r} :
        /\ pc'[q] = pc[q] /\ actor'[q] = actor[q] /\ ask'[q] = ask[q]
        /\ target'[q] = target[q] /\ seen'[q] = seen[q]

Arrives(r) ==
    /\ pc[r] = "new"
    /\ r \in Creates => pc'[r] = "write" /\ ask'[r] \in Body
    /\ r \notin Creates => pc'[r] \in {"load", "self"}
    /\ pc'[r] = "load" => target'[r] \in Id
    /\ r \in Deletes /\ pc'[r] = "load" => actor'[r] # target'[r]
    /\ UNCHANGED <<rows, seq>>

(* A step that writes nothing: a check, a failure, a commit of no change.  *)
Quiet(r) ==
    /\ pc[r] \notin {"new"} \cup Answer
    /\ pc'[r] \notin {"new", "load", "name"} /\ ~Writing(r)'
    /\ pc'[r] = "email" => pc[r] = "name"
    /\ pc'[r] = "ok" => pc[r] = "commit" /\ ~Writing(r)
    /\ r \in Creates => pc'[r] \notin {"commit", "ok"}
    /\ r \notin Creates => target' = target
    /\ (Loaded(r)' => Loaded(r))
    /\ seq' \in {seq, seq + 1}
    /\ UNCHANGED <<rows, actor, ask, seen>>

(* A statement that found nobody in its way. *)
Writes(r) ==
    /\ pc[r] = "write" /\ Writing(r)'
    /\ ~Blocked(r, target'[r]) /\ ~Violates(r, target'[r])
    /\ r \in Updates => Exists(target[r])
    /\ IF r \in Creates THEN seq' = seq + 1 /\ target'[r] = seq + 1
                         ELSE seq' = seq /\ target' = target
    /\ UNCHANGED <<rows, actor, ask, seen>>

Commits(r) ==
    /\ Writing(r) /\ MayCommit(r)
    /\ pc'[r] \in {"ok", "error"}
    /\ rows' = [rows EXCEPT ![target[r]] = Written(r)]
    /\ UNCHANGED <<seq, actor, ask, target, seen>>

(* Each action is one of them. *)
LEMMA CreateArrives ==
  ASSUME Parameters, TypeOK, NEW r \in Creates, ArriveCreate(r)
  PROVE  Alone(r) /\ Arrives(r)
  BY DEF ArriveCreate, Arrive, Step, Alone, Arrives, TypeOK, Request, Parameters

LEMMA UpdateArrives ==
  ASSUME Parameters, TypeOK, NEW r \in Updates, ArriveUpdate(r)
  PROVE  Alone(r) /\ Arrives(r)
  BY DEF ArriveUpdate, Arrive, Step, Alone, Arrives, TypeOK, Request, Parameters

LEMMA DeleteArrives ==
  ASSUME Parameters, TypeOK, NEW r \in Deletes, ArriveDelete(r)
  PROVE  Alone(r) /\ Arrives(r)
  BY DEF ArriveDelete, Arrive, Step, Alone, Arrives, TypeOK, Request, Parameters

LEMMA LoadAlone ==
  ASSUME TypeOK, NEW r \in Request, Load(r)
  PROVE  Alone(r)
  BY DEF Load, Step, Alone, TypeOK

LEMMA CheckIsQuiet ==
  ASSUME TypeOK, NEW r \in Request,
         CheckUnique(r, "name", "email") \/ CheckUnique(r, "email", "write")
  PROVE  Alone(r) /\ Quiet(r)
  BY DEF CheckUnique, Step, Alone, Quiet, Loaded, Writing, Silent, Answer, TypeOK

LEMMA ChangedSame ==
  ASSUME NEW r, ask' = ask, seen' = seen
  PROVE  Changed(r)' = Changed(r)
  BY DEF Changed

LEMMA InsertWrites ==
  ASSUME Parameters, TypeOK, NEW r \in Request, Insert(r)
  PROVE  Alone(r) /\ (Quiet(r) \/ Writes(r))
<1>1. /\ r \in Creates /\ r \notin Updates /\ pc[r] = "write" /\ seq' = seq + 1
      /\ ~Blocked(r, seq + 1)
      /\ UNCHANGED <<rows, actor, ask, seen>>
      /\ target' = [target EXCEPT ![r] = seq + 1]
      /\ \/ Violates(r, seq + 1) /\ pc' = [pc EXCEPT ![r] = "conflict"]
         \/ ~Violates(r, seq + 1) /\ pc' = [pc EXCEPT ![r] = "commit"]
  BY DEF Insert, Statement, Step, Parameters
<1>2. Alone(r) /\ target'[r] = seq + 1
  BY <1>1 DEF Alone, TypeOK
<1>3. CASE pc' = [pc EXCEPT ![r] = "conflict"]
  BY <1>1, <1>2, <1>3 DEF Quiet, Writing, Silent, Loaded, Answer, TypeOK
<1>4. CASE ~Violates(r, seq + 1) /\ pc' = [pc EXCEPT ![r] = "commit"]
  BY <1>1, <1>2, <1>4 DEF Writes, Writing, Silent, TypeOK
<1> QED
  BY <1>1, <1>3, <1>4

LEMMA ChangeWrites ==
  ASSUME Parameters, TypeOK, NEW r \in Request, Change(r)
  PROVE  Alone(r) /\ (Quiet(r) \/ Writes(r))
<1> DEFINE i == target[r]
<1>1. /\ r \notin Creates /\ pc[r] = "write"
      /\ UNCHANGED <<rows, actor, ask, seen, seq>>
      /\ target' = target /\ Changed(r)' = Changed(r)
      /\ Sqlite \/ ~Blocked(r, i) \/ Silent(r)
  BY ChangedSame DEF Change, Statement, TypeOK
<1>2. \/ pc' = [pc EXCEPT ![r] = "error"]
      \/ pc' = [pc EXCEPT ![r] = "conflict"]
      \/ /\ pc' = [pc EXCEPT ![r] = "commit"]
         /\ (Silent(r) \/ ~(Sqlite /\ Blocked(r, i))) /\ (r \in Updates => Exists(i)) /\ ~Violates(r, i)
  BY <1>1 DEF Change, Statement, Step
<1>3. Alone(r)
  BY <1>1, <1>2 DEF Alone, TypeOK
<1>4. CASE pc' = [pc EXCEPT ![r] = "error"] \/ pc' = [pc EXCEPT ![r] = "conflict"]
  BY <1>1, <1>3, <1>4 DEF Quiet, Writing, Silent, Loaded, Answer, TypeOK
<1>5. CASE /\ pc' = [pc EXCEPT ![r] = "commit"]
           /\ (Silent(r) \/ ~(Sqlite /\ Blocked(r, i))) /\ (r \in Updates => Exists(i)) /\ ~Violates(r, i)
  <2>1. CASE Silent(r)
    BY <1>1, <1>3, <1>5, <2>1 DEF Quiet, Writing, Silent, Loaded, Answer, TypeOK
  <2>2. CASE ~Silent(r)
    BY <1>1, <1>3, <1>5, <2>2 DEF Writes, Writing, Silent, TypeOK
  <2> QED
    BY <2>1, <2>2
<1> QED
  BY <1>2, <1>4, <1>5

LEMMA CommitCommits ==
  ASSUME Parameters, TypeOK, NEW r \in Request, Commit(r)
  PROVE  Alone(r) /\ (Quiet(r) \/ Commits(r))
<1>1. /\ pc[r] = "commit" /\ pc' = [pc EXCEPT ![r] = "ok"] /\ MayCommit(r)
      /\ Apply(r) /\ UNCHANGED <<seq, actor, ask, target, seen>>
  BY DEF Commit, Step
<1>2. Alone(r) /\ pc'[r] = "ok"
  BY <1>1 DEF Alone, TypeOK
<1>3. CASE Writing(r)
  BY <1>1, <1>2, <1>3 DEF Commits, Apply, Written
<1>4. CASE ~Writing(r)
  BY <1>1, <1>2, <1>4 DEF Quiet, Apply, Writing, Silent, Loaded, Answer, Parameters
<1> QED
  BY <1>3, <1>4

LEMMA FailCommits ==
  ASSUME Parameters, TypeOK, NEW r \in Request, Fail(r)
  PROVE  Alone(r) /\ (Quiet(r) \/ Commits(r))
<1>1. /\ pc[r] \notin {"new"} \cup Answer /\ pc' = [pc EXCEPT ![r] = "error"]
      /\ UNCHANGED <<seq, actor, ask, target, seen>>
      /\ \/ UNCHANGED rows
         \/ MayCommit(r) /\ Apply(r)
  BY DEF Fail
<1>2. Alone(r) /\ pc'[r] = "error"
  BY <1>1 DEF Alone, TypeOK
<1>3. CASE Writing(r) /\ MayCommit(r) /\ Apply(r)
  BY <1>1, <1>2, <1>3 DEF Commits, Apply, Written
<1>4. CASE UNCHANGED rows
  BY <1>1, <1>2, <1>4 DEF Quiet, Writing, Silent, Loaded, Answer
<1>5. CASE ~Writing(r) /\ Apply(r)
  BY <1>4, <1>5 DEF Apply
<1> QED
  BY <1>1, <1>3, <1>4, <1>5

LEMMA StepIs ==
  ASSUME Parameters, TypeOK, Next
  PROVE  \E r \in Request :
            /\ Alone(r)
            /\ Arrives(r) \/ Load(r) \/ Quiet(r) \/ Writes(r) \/ Commits(r)
<1>1. CASE \E r \in Creates : ArriveCreate(r)
  BY <1>1, CreateArrives DEF Request
<1>2. CASE \E r \in Updates : ArriveUpdate(r)
  BY <1>2, UpdateArrives DEF Request
<1>3. CASE \E r \in Deletes : ArriveDelete(r)
  BY <1>3, DeleteArrives DEF Request
<1>4. CASE \E r \in Request : Proceed(r)
  BY <1>4, LoadAlone, CheckIsQuiet, InsertWrites, ChangeWrites, CommitCommits DEF Proceed
<1>5. CASE \E r \in Request : Fail(r)
  BY <1>5, FailCommits
<1> QED
  BY <1>1, <1>2, <1>3, <1>4, <1>5 DEF Next

-----------------------------------------------------------------------------
(* Types. *)
LEMMA InitialTypes == ASSUME Parameters, Init PROVE TypeOK
<1>1. ASSUME NEW i \in Id
      PROVE  rows[i] \in Account \cup {Gone}
  BY DEF Init, Id, Account, Value, NoEmail, Parameters
<1>2. rows \in [Id -> Account \cup {Gone}]
  BY <1>1 DEF Init
<1>3. seq \in 0..MaxId
  BY DEF Init, Parameters
<1> QED
  BY <1>2, <1>3, NothingIsPatch DEF Init, TypeOK, PC, Parameters

(* What a transaction has written is a row, or Gone. *)
LEMMA WrittenTyped ==
  ASSUME Parameters, TypeOK, IdsInv, WritersInv, NEW r \in Request, Writing(r)
  PROVE  /\ Written(r) \in Account \cup {Gone}
         /\ r \notin Deletes => Written(r) \in Account
<1>1. CASE r \in Creates
  BY <1>1, AfterCreate DEF IdsInv, WholeBody, Writing, Silent, Written
<1>2. CASE r \in Updates
  <2>1. rows[target[r]] \in Account
    BY <1>2 DEF WritersInv, Committable, Exists, TypeOK
  <2> QED
    BY <1>2, <2>1, AfterUpdate DEF Written
<1>3. CASE r \in Deletes
  BY <1>3, AfterDelete DEF Written
<1> QED
  BY <1>1, <1>2, <1>3 DEF Request

LEMMA RowsTyped ==
  ASSUME Parameters, TypeOK, IdsInv, WritersInv, NEW r \in Request, Writing(r), Apply(r)
  PROVE  rows' \in [Id -> Account \cup {Gone}]
  BY WrittenTyped DEF Apply, Written, TypeOK

LEMMA ArrivalTyped ==
  ASSUME Parameters, TypeOK, NEW r \in Request, NEW a \in Id, NEW i \in Id \cup {0},
         NEW p \in Patch, Arrive(r, a, i, p), NEW s \in PC, Step(r, "new", s)
  PROVE  TypeOK'
<1>1. a \in 0..MaxId /\ i \in 0..MaxId
  BY DEF Id, Parameters
<1> QED
  BY <1>1 DEF TypeOK, Arrive, Step

LEMMA TypeKept ==
  ASSUME Parameters, TypeOK, IdsInv, LoadedInv, WritersInv, Next
  PROVE  TypeOK'
<1> USE DEF PC, Answer
<1>1. ASSUME NEW r \in Creates, ArriveCreate(r) PROVE TypeOK'
  <2>1. r \in Request /\ Step(r, "new", "write")
    BY <1>1 DEF ArriveCreate, Request
  <2>2. PICK b \in Body :
          \/ \E a \in Id : Arrive(r, a, 0, b)
          \/ /\ ask' = [ask EXCEPT ![r] = b]
             /\ UNCHANGED <<rows, seq, actor, target, seen>>
    BY <1>1 DEF ArriveCreate
  <2>3. b \in Patch
    BY BodyIsPatch
  <2>4. CASE \E a \in Id : Arrive(r, a, 0, b)
    BY <2>1, <2>3, <2>4, ArrivalTyped
  <2>5. CASE /\ ask' = [ask EXCEPT ![r] = b]
             /\ UNCHANGED <<rows, seq, actor, target, seen>>
    BY <2>1, <2>3, <2>5 DEF Step, TypeOK
  <2> QED
    BY <2>2, <2>4, <2>5
<1>2. ASSUME NEW r \in Updates, ArriveUpdate(r) PROVE TypeOK'
  BY <1>2, ArrivalTyped DEF ArriveUpdate, Request
<1>3. ASSUME NEW r \in Deletes, ArriveDelete(r) PROVE TypeOK'
  BY <1>3, ArrivalTyped, NothingIsPatch DEF ArriveDelete, Request
<1>4. ASSUME NEW r \in Request, Load(r) PROVE TypeOK'
  <2>1. rows[target[r]] \in Account \cup {Gone}
    BY <1>4 DEF Load, Step, LoadedInv, TypeOK
  <2> QED
    BY <1>4, <2>1 DEF Load, Step, TypeOK
<1>5. ASSUME NEW r \in Request,
             CheckUnique(r, "name", "email") \/ CheckUnique(r, "email", "write")
      PROVE  TypeOK'
  BY <1>5 DEF CheckUnique, Step, TypeOK
<1>6. ASSUME NEW r \in Request, Insert(r) PROVE TypeOK'
  <2>1. seq + 1 \in 0..MaxId
    BY <1>6 DEF Insert, TypeOK, Parameters
  <2> QED
    BY <1>6, <2>1 DEF Insert, Statement, Step, TypeOK
<1>7. ASSUME NEW r \in Request, Change(r) PROVE TypeOK'
  BY <1>7 DEF Change, Statement, Step, TypeOK
<1>8. ASSUME NEW r \in Request, Commit(r) \/ Fail(r) PROVE TypeOK'
  <2>1. UNCHANGED rows \/ (Writing(r) /\ Apply(r))
    BY <1>8 DEF Commit, Fail, Apply
  <2>2. rows' \in [Id -> Account \cup {Gone}]
    BY <2>1, RowsTyped DEF TypeOK
  <2> QED
    BY <1>8, <2>2 DEF Commit, Fail, Step, TypeOK
<1> QED
  BY <1>1, <1>2, <1>3, <1>4, <1>5, <1>6, <1>7, <1>8 DEF Next, Proceed

-----------------------------------------------------------------------------
(* Ids and snapshots. *)
LEMMA IdsKept ==
  ASSUME Parameters, AccountsInv, TypeOK', NEW r \in Request, Alone(r),
         Arrives(r) \/ Load(r) \/ Quiet(r) \/ Writes(r) \/ Commits(r)
  PROVE  IdsInv'
<1> USE DEF Answer
<1>0. r \in Creates => r \notin Updates /\ r \notin Deletes
  BY DEF Parameters
<1>1. seq \in 0..MaxId /\ seq' \in 0..MaxId /\ seq' \in {seq, seq + 1}
  BY DEF Arrives, Load, Quiet, Writes, Commits, AccountsInv, TypeOK
<1>2. ASSUME NEW i \in Id, i > seq'
      PROVE  rows'[i] = Gone
  <2>1. i > seq /\ rows[i] = Gone
    BY <1>1, <1>2 DEF AccountsInv, IdsInv, Id, Parameters
  <2>2. CASE Commits(r) /\ target[r] = i
    <3>1. r \in Creates => target[r] \in 1..seq
      BY <2>2 DEF AccountsInv, IdsInv, GivenId, Commits, Writing, Silent
    <3>2. r \in Updates => rows[target[r]] # Gone
      BY <2>2 DEF AccountsInv, WritersInv, Committable, Exists, Commits
    <3>3. r \in Deletes
      BY <1>1, <2>1, <2>2, <3>1, <3>2 DEF Request
    <3> QED
      BY <2>2, <3>3, AfterDelete DEF Commits, Written, AccountsInv, TypeOK
  <2>3. CASE rows'[i] = rows[i]
    BY <2>1, <2>3
  <2> QED
    BY <2>2, <2>3 DEF Arrives, Load, Quiet, Writes, Commits, AccountsInv, TypeOK
<1>3. ASSUME NEW q \in Creates
      PROVE  WholeBody(q)'
  <2>1. WholeBody(q)
    BY <1>3 DEF AccountsInv, IdsInv
  <2>2. CASE q # r
    BY <1>3, <2>1, <2>2 DEF WholeBody, Alone, Request
  <2>3. CASE q = r
    <3>1. CASE Arrives(r)
      BY <1>3, <2>3, <3>1 DEF WholeBody, Arrives
    <3>2. CASE ~Arrives(r)
      <4>1. pc[r] # "new" /\ ask' = ask
        BY <3>2 DEF Load, Step, Quiet, Writes, Commits, Writing, Silent
      <4> QED
        BY <2>1, <2>3, <4>1 DEF WholeBody
    <3> QED
      BY <3>1, <3>2
  <2> QED
    BY <2>2, <2>3
<1>4. ASSUME NEW q \in Creates, pc'[q] \in {"commit", "ok"}
      PROVE  \/ q # r /\ pc[q] \in {"commit", "ok"} /\ target'[q] = target[q]
             \/ q = r /\ Commits(r) /\ pc[q] = "commit" /\ target'[q] = target[q] /\ pc'[q] = "ok"
             \/ q = r /\ Writes(r) /\ target'[q] = seq + 1 /\ seq' = seq + 1
  <2>1. CASE q # r
    BY <1>4, <2>1 DEF Alone, Request
  <2>2. CASE q = r
    <3>1. ~Load(r)
      BY <1>0, <1>4, <2>2 DEF Load, Step, AccountsInv, TypeOK
    <3> QED
      BY <1>0, <1>4, <2>2, <3>1 DEF Arrives, Quiet, Writes, Commits, Writing, Silent
  <2> QED
    BY <2>1, <2>2
<1>5. ASSUME NEW q \in Creates, pc[q] \in {"commit", "ok"}
      PROVE  target[q] \in 1..seq
  BY <1>5 DEF AccountsInv, IdsInv, GivenId
<1>6. ASSUME NEW q \in Creates
      PROVE  GivenId(q)'
  <2>1. pc'[q] \in {"commit", "ok"} => target'[q] \in 1..seq'
    BY <1>1, <1>4, <1>5
  <2>2. pc'[q] = "commit" => rows'[target'[q]] = Gone
    <3> SUFFICES ASSUME pc'[q] = "commit" PROVE rows'[target'[q]] = Gone
      OBVIOUS
    <3>1. CASE q = r
      <4>1. Writes(r) /\ target'[q] = seq + 1 /\ seq' = seq + 1
        BY <1>4, <3>1
      <4>2. seq + 1 \in Id /\ rows[seq + 1] = Gone
        BY <1>1, <4>1 DEF Id, AccountsInv, IdsInv, Parameters
      <4> QED
        BY <4>1, <4>2 DEF Writes
    <3>2. CASE q # r
      <4>1. pc[q] = "commit" /\ target'[q] = target[q] /\ q \in Request
        BY <3>2 DEF Alone, Request
      <4>2. rows[target[q]] = Gone /\ Writing(q)
        BY <4>1 DEF AccountsInv, IdsInv, GivenId, Writing, Silent, Parameters
      <4>3. Commits(r) => target[r] # target[q]
        BY <3>2, <4>1, <4>2 DEF Commits, AccountsInv, WritersInv, Apart
      <4>4. target[q] \in Id
        BY <1>1, <1>5, <4>1 DEF Id, Parameters
      <4>5. rows'[target[q]] = rows[target[q]]
        BY <4>3, <4>4 DEF Arrives, Load, Quiet, Writes, Commits, AccountsInv, TypeOK
      <4> QED
        BY <4>1, <4>2, <4>5
    <3> QED
      BY <3>1, <3>2
  <2>3. ASSUME NEW p \in Creates \ {q}, pc'[p] \in {"commit", "ok"}, pc'[q] \in {"commit", "ok"}
        PROVE  target'[p] # target'[q]
    <3>1. pc[p] \in {"commit", "ok"} /\ pc[q] \in {"commit", "ok"} => target[p] # target[q]
      BY <2>3 DEF AccountsInv, IdsInv, GivenId
    <3> QED
      BY <1>1, <1>4, <1>5, <2>3, <3>1
  <2> QED
    BY <2>1, <2>2, <2>3 DEF GivenId
<1> QED
  BY <1>2, <1>3, <1>6 DEF IdsInv

LEMMA LoadedKept ==
  ASSUME Parameters, AccountsInv, TypeOK', NEW r \in Request, Alone(r),
         Arrives(r) \/ Load(r) \/ Quiet(r) \/ Writes(r) \/ Commits(r)
  PROVE  LoadedInv'
<1> USE DEF Answer
<1>1. ASSUME NEW q \in Request, q # r
      PROVE  /\ pc'[q] = pc[q] /\ target'[q] = target[q] /\ actor'[q] = actor[q]
             /\ seen'[q] = seen[q] /\ (Loaded(q)' <=> Loaded(q))
  BY <1>1 DEF Alone, Loaded
<1>2. ASSUME NEW q \in Request, pc'[q] = "load" \/ (q \in Updates /\ Loaded(q)')
      PROVE  target'[q] \in Id
  <2>1. CASE q # r
    BY <1>1, <1>2, <2>1 DEF AccountsInv, LoadedInv
  <2>2. CASE q = r /\ Arrives(r)
    BY <1>2, <2>2 DEF Arrives, Loaded, Parameters
  <2>3. CASE q = r /\ ~Arrives(r)
    <3>1. pc'[r] # "load" /\ r \in Updates /\ r \notin Creates /\ Loaded(r)'
      <4>1. pc'[r] # "load"
        BY <2>3 DEF Load, Step, Quiet, Writes, Writing, Silent, Commits, AccountsInv, TypeOK
      <4> QED
        BY <1>2, <2>3, <4>1 DEF Parameters
    <3>2. pc[r] = "load" \/ Loaded(r)
      BY <2>3, <3>1 DEF Load, Step, Quiet, Writes, Writing, Silent, Commits, Loaded
    <3>3. target' = target
      BY <2>3, <3>1 DEF Load, Quiet, Writes, Commits
    <3> QED
      BY <2>3, <3>1, <3>2, <3>3 DEF AccountsInv, LoadedInv
  <2> QED
    BY <2>1, <2>2, <2>3
<1>5. ASSUME NEW q \in Request, pc'[q] \in {"name", "email"}
      PROVE  q \in Updates
  <2>1. CASE q # r
    BY <1>1, <1>5, <2>1 DEF AccountsInv, LoadedInv
  <2>2. CASE q = r /\ Load(r)
    BY <1>5, <2>2 DEF Load, Step, AccountsInv, TypeOK
  <2>3. CASE q = r /\ ~Load(r)
    BY <1>5, <2>3 DEF Arrives, Quiet, Writes, Writing, Silent, Commits, AccountsInv, LoadedInv
  <2> QED
    BY <2>1, <2>2, <2>3
<1>3. ASSUME NEW q \in Updates, Loaded(q)' PROVE seen'[q] \in Account
  <2>1. CASE q # r
    BY <1>1, <1>3, <2>1 DEF AccountsInv, LoadedInv, Request
  <2>2. CASE q = r /\ Load(r)
    <3>1. Exists(target[r]) /\ seen'[r] = rows[target[r]]
      BY <1>3, <2>2 DEF Load, Step, Loaded, AccountsInv, TypeOK
    <3> QED
      BY <2>2, <3>1 DEF Exists, AccountsInv, TypeOK
  <2>3. CASE q = r /\ ~Load(r)
    <3>1. Loaded(r) /\ seen'[r] = seen[r]
      BY <1>3, <2>3 DEF Arrives, Quiet, Writes, Writing, Silent, Commits, Loaded, Parameters
    <3> QED
      BY <2>3, <3>1 DEF AccountsInv, LoadedInv
  <2> QED
    BY <2>1, <2>2, <2>3
<1>4. ASSUME NEW q \in Deletes, pc'[q] = "load" \/ Loaded(q)' PROVE actor'[q] # target'[q]
  <2>1. CASE q # r
    BY <1>1, <1>4, <2>1 DEF AccountsInv, LoadedInv, Request
  <2>2. CASE q = r /\ Arrives(r)
    BY <1>4, <2>2 DEF Arrives, Loaded, Parameters
  <2>3. CASE q = r /\ ~Arrives(r)
    <3>1. actor' = actor /\ target' = target /\ (pc[r] = "load" \/ Loaded(r))
      BY <1>4, <2>3 DEF Load, Step, Quiet, Writes, Writing, Silent, Commits, Loaded, Parameters
    <3> QED
      BY <2>3, <3>1 DEF AccountsInv, LoadedInv
  <2> QED
    BY <2>1, <2>2, <2>3
<1> QED
  BY <1>2, <1>3, <1>4, <1>5 DEF LoadedInv

(* SQLite waits for all other transactions to end before it changes a row. *)
LEMMA SnapshotKept ==
  ASSUME Parameters, AccountsInv, TypeOK', NEW r \in Request, Alone(r),
         Arrives(r) \/ Load(r) \/ Quiet(r) \/ Writes(r) \/ Commits(r)
  PROVE  SnapshotInv'
<1> SUFFICES ASSUME Sqlite, NEW q \in Updates, Loaded(q)'
             PROVE  seen'[q] = rows'[target'[q]]
  BY DEF SnapshotInv
<1>0. q \in Request /\ q \notin Creates
  BY DEF Request, Parameters
<1>1. CASE q # r
  <2>1. Loaded(q) /\ seen'[q] = seen[q] /\ target'[q] = target[q]
    BY <1>0, <1>1 DEF Alone, Loaded
  <2>2. ~Commits(r)
    BY <1>0, <1>1, <2>1 DEF Commits, MayCommit, Open, Reading, Loaded
  <2>3. rows' = rows
    BY <2>2 DEF Arrives, Load, Quiet, Writes
  <2> QED
    BY <2>1, <2>3 DEF AccountsInv, SnapshotInv
<1>2. CASE q = r /\ Load(r)
  BY <1>2 DEF Load, AccountsInv, TypeOK
<1>3. CASE q = r /\ ~Load(r)
  <2>1. Loaded(r) /\ rows' = rows /\ seen' = seen /\ target' = target
    BY <1>0, <1>3 DEF Arrives, Quiet, Writes, Writing, Silent, Commits, Loaded
  <2> QED
    BY <1>3, <2>1 DEF AccountsInv, SnapshotInv
<1> QED
  BY <1>1, <1>2, <1>3

-----------------------------------------------------------------------------
(* Open transactions: what they have written can still be committed. *)

LEMMA ClashSymmetric == ASSUME NEW a, NEW b, Clash(a, b) PROVE Clash(b, a)
  BY DEF Clash

(* Without a commit, the rows are as they were; only Writes adds a writer. *)
LEMMA WritersStay ==
  ASSUME Parameters, AccountsInv, NEW r \in Request, Alone(r),
         Arrives(r) \/ Load(r) \/ Quiet(r) \/ Writes(r) \/ Commits(r),
         NEW q \in Request, Writing(q)', q # r \/ ~Writes(r)
  PROVE  /\ q # r /\ Writing(q) /\ target'[q] = target[q]
         /\ rows'[target[q]] = rows[target[q]]
         /\ Written(q)' = Written(q)
<1> USE DEF Answer
<1>1. q # r
  BY DEF Arrives, Load, Step, Quiet, Commits, Writing, Silent, AccountsInv, TypeOK
<1>2. /\ pc'[q] = pc[q] /\ ask'[q] = ask[q] /\ seen'[q] = seen[q]
      /\ actor'[q] = actor[q] /\ target'[q] = target[q]
  BY <1>1 DEF Alone
<1>3. Changed(q)' = Changed(q)
  BY <1>2 DEF Changed
<1>4. Writing(q)
  BY <1>2, <1>3 DEF Writing, Silent
<1>5. Commits(r) => target[r] # target[q]
  BY <1>1, <1>4 DEF Commits, AccountsInv, WritersInv, Apart
<1>6. rows'[target[q]] = rows[target[q]]
  <2>1. CASE Commits(r)
    BY <1>5, <2>1 DEF Commits, AccountsInv, TypeOK
  <2>2. CASE ~Commits(r)
    BY <2>2 DEF Arrives, Load, Quiet, Writes
  <2> QED
    BY <2>1, <2>2
<1> QED
  BY <1>1, <1>2, <1>4, <1>6, WrittenSame

(* Clash is about names and addresses alone. *)
LEMMA NewWriter ==
  ASSUME Parameters, AccountsInv, NEW r \in Request, Writes(r), Alone(r)
  PROVE  /\ Committable(r)'
         /\ \A q \in Request \ {r} : Writing(q)' => Apart(r, q)'
<1> DEFINE i == target'[r]
<1>1. Written(r)' = After(r, i) /\ rows' = rows
  BY DEF Writes, Written, After, Changed, Over
<1>2. ASSUME r \notin Deletes, NEW j \in Id \ {i}, rows[j] # Gone
      PROVE  ~Clash(After(r, i), rows[j])
  BY <1>2 DEF Writes, Violates
<1>3. r \in Updates => Exists(target[r]) /\ target'[r] = target[r]
  BY DEF Writes, Parameters
<1>4. Committable(r)'
  BY <1>1, <1>2, <1>3 DEF Committable, Exists
<1>5. ASSUME NEW q \in Request \ {r}, Writing(q)'
      PROVE  Apart(r, q)'
  <2>1. /\ Writing(q) /\ target'[q] = target[q] /\ Written(q)' = Written(q)
    BY <1>5, WritersStay
  <2>2. ~Sqlite /\ target[q] # i
    BY <1>5, <2>1 DEF Writes, Blocked
  <2>3. {r, q} \cap Deletes = {} => ~Clash(After(r, i), After(q, target[q]))
    BY <1>5, <2>1 DEF Writes, Blocked
  <2> QED
    BY <1>1, <2>1, <2>2, <2>3 DEF Apart, Written
<1> QED
  BY <1>4, <1>5

LEMMA WritersKept ==
  ASSUME Parameters, AccountsInv, NEW r \in Request, Alone(r),
         Arrives(r) \/ Load(r) \/ Quiet(r) \/ Writes(r) \/ Commits(r)
  PROVE  WritersInv'
<1> SUFFICES ASSUME NEW q \in Request, Writing(q)'
             PROVE  /\ Committable(q)'
                    /\ \A p \in Request \ {q} : Writing(p)' => Apart(q, p)'
  BY DEF WritersInv
<1>1. CASE q = r /\ Writes(r)
  BY <1>1, NewWriter
<1>2. CASE q # r \/ ~Writes(r)
  <2>1. /\ q # r /\ Writing(q) /\ target'[q] = target[q]
        /\ rows'[target[q]] = rows[target[q]]
        /\ Written(q)' = Written(q)
    BY <1>2, WritersStay
  <2>2. Committable(q)
    BY <2>1 DEF AccountsInv, WritersInv
  <2>3. ASSUME q \notin Deletes, NEW j \in Id \ {target[q]}, rows'[j] # Gone
        PROVE  ~Clash(Written(q), rows'[j])
    <3>1. CASE Commits(r) /\ j = target[r]
      <4>1. rows'[j] = Written(r) /\ r \notin Deletes
        BY <2>3, <3>1, AfterDelete DEF Commits, Written, AccountsInv, TypeOK
      <4>2. Apart(q, r)
        BY <2>1, <3>1 DEF Commits, AccountsInv, WritersInv
      <4> QED
        BY <2>3, <4>1, <4>2 DEF Apart
    <3>2. CASE ~(Commits(r) /\ j = target[r])
      <4>1. rows'[j] = rows[j]
        BY <2>3, <3>2 DEF Arrives, Load, Quiet, Writes, Commits, AccountsInv, TypeOK
      <4> QED
        BY <2>2, <2>3, <4>1 DEF Committable
    <3> QED
      BY <3>1, <3>2
  <2>4. Committable(q)'
    BY <2>1, <2>2, <2>3 DEF Committable, Exists
  <2>5. ASSUME NEW p \in Request \ {q}, Writing(p)'
        PROVE  Apart(q, p)'
    <3>1. CASE p = r /\ Writes(r)
      <4>1. Apart(r, q)'
        BY <2>1, <3>1, NewWriter
      <4> QED
        BY <3>1, <4>1, ClashSymmetric DEF Apart
    <3>2. CASE p # r \/ ~Writes(r)
      <4>1. /\ Writing(p) /\ target'[p] = target[p]
            /\ Written(p)' = Written(p)
        BY <2>5, <3>2, WritersStay
      <4>2. Apart(q, p)
        BY <2>1, <2>5, <4>1 DEF AccountsInv, WritersInv
      <4> QED
        BY <2>1, <4>1, <4>2 DEF Apart
    <3> QED
      BY <3>1, <3>2
  <2> QED
    BY <2>4, <2>5
<1> QED
  BY <1>1, <1>2

(* A commit puts a row among others it was compared with. *)
LEMMA DistinctKept ==
  ASSUME Parameters, AccountsInv, NEW r \in Request, Alone(r),
         Arrives(r) \/ Load(r) \/ Quiet(r) \/ Writes(r) \/ Commits(r)
  PROVE  AccountsDistinct'
<1>1. CASE Commits(r)
  <2> DEFINE t == target[r]
  <2>1. rows' = [rows EXCEPT ![t] = Written(r)] /\ Committable(r)
    BY <1>1 DEF Commits, AccountsInv, WritersInv
  <2>2. ASSUME NEW i \in Id, NEW j \in Id, i # j, rows'[i] # Gone, rows'[j] # Gone,
               Clash(rows'[i], rows'[j])
        PROVE  FALSE
    <3>1. CASE i # t /\ j # t
      BY <2>1, <2>2, <3>1 DEF AccountsInv, AccountsDistinct, TypeOK
    <3>2. CASE i = t \/ j = t
      <4>1. PICK k \in Id \ {t} : rows'[k] # Gone /\ Clash(rows'[t], rows'[k]) /\ rows'[t] # Gone
                                 /\ t \in Id
        BY <2>2, <3>2, ClashSymmetric
      <4>2. rows'[t] = Written(r) /\ rows'[k] = rows[k]
        BY <2>1, <4>1 DEF AccountsInv, TypeOK
      <4>3. r \notin Deletes
        BY <4>1, <4>2, AfterDelete DEF Written
      <4> QED
        BY <2>1, <4>1, <4>2, <4>3 DEF Committable
    <3> QED
      BY <3>1, <3>2
  <2> QED
    BY <2>2 DEF AccountsDistinct
<1>2. CASE ~Commits(r)
  BY <1>2 DEF Arrives, Load, Quiet, Writes, AccountsInv, AccountsDistinct
<1> QED
  BY <1>1, <1>2

(* A 201 is kept: only a DELETE of the id takes the account away. *)
LEMMA CreatedKept ==
  ASSUME Parameters, AccountsInv, TypeOK', IdsInv', NEW r \in Request, Alone(r),
         Arrives(r) \/ Load(r) \/ Quiet(r) \/ Writes(r) \/ Commits(r)
  PROVE  CreatedIsKept'
<1> SUFFICES ASSUME NEW c \in Creates, pc'[c] = "ok"
             PROVE  /\ \/ Exists(target[c])'
                       \/ \E d \in Deletes : target'[d] = target'[c] /\ pc'[d] \in {"ok", "error"}
                    /\ \A q \in Creates \ {c} : pc'[q] = "ok" => target'[q] # target'[c]
  BY DEF CreatedIsKept
<1> USE DEF Answer
<1>1. \A q \in Creates \ {c} : pc'[q] = "ok" => target'[q] # target'[c]
  BY DEF IdsInv, GivenId
<1>2. pc[r] \notin Answer
  BY DEF Arrives, Load, Step, Quiet, Writes, Commits, Writing, Silent
<1>3. c \in Request /\ c \notin Updates /\ c \notin Deletes
  BY DEF Request, Parameters
<1>4. CASE c = r
  <2>1. Commits(r)
    BY <1>3, <1>4 DEF Arrives, Load, Step, Quiet, Writes, Writing, Silent, AccountsInv, TypeOK
  <2>2. target'[c] \in Id /\ target'[c] = target[r]
    BY <1>4, <2>1 DEF Commits, TypeOK, IdsInv, GivenId, Id, Parameters
  <2>3. Written(r) \in Account
    BY <1>3, <1>4, <2>1, WrittenTyped DEF Commits, AccountsInv
  <2>4. rows'[target[r]] # Gone
    BY <2>1, <2>2, <2>3, AccountNotGone DEF Commits, AccountsInv, TypeOK
  <2> QED
    BY <1>1, <2>2, <2>4 DEF Exists
<1>5. CASE c # r
  <2>1. pc[c] = "ok" /\ target'[c] = target[c]
    BY <1>3, <1>5 DEF Alone
  <2>2. CASE \E d \in Deletes : target[d] = target[c] /\ pc[d] \in {"ok", "error"}
    <3>1. PICK d \in Deletes : target[d] = target[c] /\ pc[d] \in {"ok", "error"}
      BY <2>2
    <3>2. target'[d] = target[d] /\ pc'[d] = pc[d]
      BY <1>2, <3>1 DEF Alone, Request
    <3> QED
      BY <1>1, <2>1, <3>1, <3>2
  <2>3. CASE Exists(target[c])
    <3>1. CASE Commits(r) /\ target[r] = target[c]
      <4>1. CASE r \in Deletes
        <5>1. target'[r] = target'[c] /\ pc'[r] \in {"ok", "error"}
          BY <2>1, <3>1 DEF Commits
        <5> QED
          BY <1>1, <4>1, <5>1
      <4>2. CASE r \notin Deletes
        <5>1. rows'[target[c]] = Written(r) /\ Written(r) \in Account
          BY <2>3, <3>1, <4>2, WrittenTyped DEF Commits, AccountsInv, TypeOK, Exists
        <5> QED
          BY <1>1, <2>1, <2>3, <5>1, AccountNotGone DEF Exists
      <4> QED
        BY <4>1, <4>2
    <3>2. CASE ~(Commits(r) /\ target[r] = target[c])
      <4>1. rows'[target[c]] = rows[target[c]]
        BY <2>3, <3>2 DEF Arrives, Load, Quiet, Writes, Commits, AccountsInv, TypeOK, Exists
      <4> QED
        BY <1>1, <2>1, <2>3, <4>1 DEF Exists
    <3> QED
      BY <3>1, <3>2
  <2> QED
    BY <2>1, <2>2, <2>3 DEF AccountsInv, CreatedIsKept
<1> QED
  BY <1>4, <1>5

-----------------------------------------------------------------------------
(* The invariant holds always. *)
LEMMA InitialInv == ASSUME Parameters, Init PROVE AccountsInv
<1>1. TypeOK
  BY InitialTypes
<1>2. \A r \in Request : pc[r] = "new"
  BY DEF Init
<1>3. IdsInv
  BY <1>2 DEF Init, IdsInv, WholeBody, GivenId, Id, Request, Parameters
<1>4. LoadedInv /\ WritersInv /\ SnapshotInv
  BY <1>2 DEF LoadedInv, WritersInv, SnapshotInv, Loaded, Writing, Silent, Request
<1>5. AccountsDistinct
  <2> SUFFICES ASSUME NEW i \in Id, NEW j \in Id, i # j, rows[i] # Gone, rows[j] # Gone
               PROVE  ~Clash(rows[i], rows[j])
    BY DEF AccountsDistinct
  <2>1. ASSUME NEW k \in Id, rows[k] # Gone
        PROVE  rows[k].name = k /\ (rows[k].email # NoEmail => rows[k].email = k)
    BY <2>1 DEF Init
  <2> QED
    BY <2>1 DEF Clash
<1>6. CreatedIsKept
  BY <1>2 DEF CreatedIsKept, Request
<1> QED
  BY <1>1, <1>3, <1>4, <1>5, <1>6 DEF AccountsInv

LEMMA InvKept == ASSUME Parameters, AccountsInv, [Next]_vars PROVE AccountsInv'
<1>1. CASE Next
  <2>1. TypeOK'
    BY <1>1, TypeKept DEF AccountsInv
  <2>2. PICK r \in Request :
          /\ Alone(r)
          /\ Arrives(r) \/ Load(r) \/ Quiet(r) \/ Writes(r) \/ Commits(r)
    BY <1>1, StepIs DEF AccountsInv
  <2>3. IdsInv'
    BY <2>1, <2>2, IdsKept
  <2>4. LoadedInv' /\ SnapshotInv'
    BY <2>1, <2>2, LoadedKept, SnapshotKept
  <2>5. WritersInv' /\ AccountsDistinct'
    BY <2>2, WritersKept, DistinctKept
  <2>6. CreatedIsKept'
    BY <2>1, <2>2, <2>3, CreatedKept
  <2> QED
    BY <2>1, <2>3, <2>4, <2>5, <2>6 DEF AccountsInv
<1>2. CASE UNCHANGED vars
  <2>1. /\ rows' = rows /\ seq' = seq /\ pc' = pc /\ actor' = actor
        /\ ask' = ask /\ target' = target /\ seen' = seen
    BY <1>2 DEF vars
  <2>2. ASSUME NEW r \in Request
        PROVE  (Writing(r)' <=> Writing(r)) /\ Written(r)' = Written(r)
    BY <2>1, WrittenSame DEF Writing, Silent, Changed
  <2>3. WritersInv'
    BY <2>1, <2>2 DEF AccountsInv, WritersInv, Committable, Apart, Exists
  <2>4. IdsInv' /\ LoadedInv' /\ SnapshotInv'
    BY <2>1 DEF AccountsInv, IdsInv, WholeBody, GivenId, LoadedInv, Loaded, SnapshotInv
  <2>5. TypeOK' /\ AccountsDistinct' /\ CreatedIsKept'
    BY <2>1 DEF AccountsInv, TypeOK, AccountsDistinct, CreatedIsKept, Exists
  <2> QED
    BY <2>3, <2>4, <2>5 DEF AccountsInv
<1> QED
  BY <1>1, <1>2

LEMMA AccountsAlways == ASSUME Parameters PROVE Spec => []AccountsInv
<1>1. Init => AccountsInv
  BY InitialInv
<1>2. AccountsInv /\ [Next]_vars => AccountsInv'
  BY InvKept
<1> QED
  BY <1>1, <1>2, PTL DEF Spec

-----------------------------------------------------------------------------
(* The theorems. *)

(* The tables and the requests keep their types: a PATCH never sets what   *)
(* must not be null (UserUpdate), and no row is half a row.                *)
THEOREM AccountsTyped == ASSUME Parameters PROVE Spec => []TypeOK
<1>1. AccountsInv => TypeOK
  BY DEF AccountsInv
<1> QED
  BY <1>1, AccountsAlways, PTL

(* No two accounts ever share a name or an address, whatever races between *)
(* _check_unique and the writing statements of create_user and update_user *)
(* (the constraints of User.__table_args__ with the locks behind them).    *)
THEOREM Distinct == ASSUME Parameters PROVE Spec => []AccountsDistinct
<1>1. AccountsInv => AccountsDistinct
  BY DEF AccountsInv
<1> QED
  BY <1>1, AccountsAlways, PTL

(* A create_user that answered 201 gave an id nobody else holds, and the   *)
(* account stays until a delete_user of that id.                           *)
THEOREM CreatedStays == ASSUME Parameters PROVE Spec => []CreatedIsKept
<1>1. AccountsInv => CreatedIsKept
  BY DEF AccountsInv
<1> QED
  BY <1>1, AccountsAlways, PTL

(* A request that leaves its transaction committed it or wrote nothing. *)
LEMMA EndOfTransaction ==
  ASSUME Parameters, AccountsInv, [Next]_vars, NEW q \in Request,
         pc[q] = "commit", pc'[q] # "commit"
  PROVE  Commits(q) \/ (Quiet(q) /\ rows' = rows)
<1>1. Next
  BY DEF vars
<1>2. PICK r \in Request :
        /\ Alone(r)
        /\ Arrives(r) \/ Load(r) \/ Quiet(r) \/ Writes(r) \/ Commits(r)
  BY <1>1, StepIs DEF AccountsInv
<1>3. q = r
  BY <1>2 DEF Alone
<1> QED
  BY <1>2, <1>3 DEF Arrives, Load, Step, Quiet, Writes

(* A PATCH leaves what it did not provide. *)
LEMMA PatchStep ==
  ASSUME Parameters, AccountsInv, [Next]_vars
  PROVE  OnlyProvided
<1> SUFFICES ASSUME NEW r \in Updates, pc[r] = "commit", pc'[r] # "commit", Exists(target[r]),
                    NEW f \in DOMAIN rows[target[r]] \ DOMAIN ask[r]
             PROVE  rows'[target[r]][f] = rows[target[r]][f]
  BY DEF OnlyProvided
<1>1. Commits(r) \/ rows' = rows
  BY EndOfTransaction DEF Request
<1>2. CASE Commits(r)
  <2>1. rows[target[r]] \in Account
    BY DEF Exists, AccountsInv, TypeOK
  <2>2. rows'[target[r]] = After(r, target[r])
    BY <1>2 DEF Commits, Written, Exists, AccountsInv, TypeOK
  <2>3. f \notin Changed(r)
    BY DEF Changed
  <2>4. f \in {"name", "email", "active", "super"}
    BY <2>1 DEF Account
  <2> QED
    BY <2>1, <2>2, <2>3, <2>4, AfterUpdate DEF AccountsInv
<1> QED
  BY <1>1, <1>2

(* A PATCH leaves what it did not provide as it is in the table: the       *)
(* UPDATE of update_user names only what changed.                          *)
THEOREM PatchesTouchOnlyTheirs == ASSUME Parameters PROVE Spec => [][OnlyProvided]_vars
<1>1. AccountsInv /\ [Next]_vars => OnlyProvided
  BY PatchStep
<1> QED
  BY <1>1, AccountsAlways, PTL DEF Spec

(* A PATCH on SQLite leaves what it answered. *)
LEMMA ExactStep ==
  ASSUME Parameters, Sqlite, AccountsInv, [Next]_vars
  PROVE  PatchIsExact
<1> SUFFICES ASSUME NEW r \in Updates, pc[r] = "commit", pc'[r] = "ok"
             PROVE  rows'[target[r]] = Over(ask[r], rows[target[r]])
  BY DEF PatchIsExact
<1> DEFINE t == target[r]
<1>1. seen[r] = rows[t] /\ rows[t] \in Account /\ t \in Id
  BY DEF AccountsInv, SnapshotInv, LoadedInv, Loaded, Request
<1>2. Commits(r) \/ (~Writing(r) /\ rows' = rows)
  BY EndOfTransaction DEF Request, Quiet
<1>3. Changed(r) = {f \in DOMAIN ask[r] : ask[r][f] # rows[t][f]}
  BY <1>1 DEF Changed
<1>4. DOMAIN rows[t] = {"name", "email", "active", "super"}
      /\ DOMAIN ask[r] \subseteq DOMAIN rows[t]
  BY <1>1, PatchFields DEF Account, AccountsInv, TypeOK, Request
<1>5. CASE Commits(r)
  <2> DEFINE g == [f \in Changed(r) |-> ask[r][f]]
  <2>1. rows'[t] = Over(g, rows[t])
    BY <1>1, <1>5, AssignedValue DEF Commits, Written, After, AccountsInv, TypeOK, Parameters
  <2>2. DOMAIN g \cup DOMAIN rows[t] = DOMAIN ask[r] \cup DOMAIN rows[t]
    BY <1>3, <1>4
  <2>3. ASSUME NEW f \in DOMAIN rows[t]
        PROVE  (IF f \in DOMAIN g THEN g[f] ELSE rows[t][f])
                 = (IF f \in DOMAIN ask[r] THEN ask[r][f] ELSE rows[t][f])
    BY <1>3
  <2> HIDE DEF g
  <2> QED
    BY <1>4, <2>1, <2>2, <2>3 DEF Over
<1>6. CASE ~Writing(r) /\ rows' = rows
  <2>1. \A f \in DOMAIN ask[r] : ask[r][f] = rows[t][f]
    BY <1>3, <1>6 DEF Writing, Silent
  <2>2. rows[t] = [f \in DOMAIN rows[t] |-> rows[t][f]]
    BY <1>1, <1>4 DEF Account
  <2>3. DOMAIN ask[r] \cup DOMAIN rows[t] = DOMAIN rows[t]
    BY <1>4
  <2>4. ASSUME NEW f \in DOMAIN rows[t]
        PROVE  (IF f \in DOMAIN ask[r] THEN ask[r][f] ELSE rows[t][f]) = rows[t][f]
    BY <2>1
  <2>5. Over(ask[r], rows[t]) = [f \in DOMAIN rows[t] |-> rows[t][f]]
    BY <2>3, <2>4 DEF Over
  <2> QED
    BY <1>6, <2>2, <2>5
<1> QED
  BY <1>2, <1>5, <1>6

(* On SQLite a 200 of update_user is what the table then holds: the        *)
(* transaction that loaded the row is the next one to change it.           *)
THEOREM PatchesAreExact == ASSUME Parameters, Sqlite PROVE Spec => [][PatchIsExact]_vars
<1>1. AccountsInv /\ [Next]_vars => PatchIsExact
  BY ExactStep
<1> QED
  BY <1>1, AccountsAlways, PTL DEF Spec

(* Where a 409 comes from: a check, or the constraint. *)
LEMMA ConflictFrom ==
  ASSUME Parameters, AccountsInv, Next, NEW r \in Request,
         pc'[r] = "conflict", pc[r] # "conflict"
  PROVE  \/ /\ r \in Updates /\ Loaded(r) /\ target' = target
            /\ \E f \in {"name", "email"} : Held(r, f)
         \/ /\ Violates(r, target'[r])
            /\ r \in Creates => ask[r] \in Body
            /\ r \in Updates => Exists(target'[r])
<1> USE DEF PC, Answer
<1> DEFINE Goal ==
         \/ /\ r \in Updates /\ Loaded(r) /\ target' = target
            /\ \E f \in {"name", "email"} : Held(r, f)
         \/ /\ Violates(r, target'[r])
            /\ r \in Creates => ask[r] \in Body
            /\ r \in Updates => Exists(target'[r])
<1>0. r \in Creates => r \notin Updates
  BY DEF Parameters
<1>1. ASSUME NEW q \in Request, NEW s, pc' = [pc EXCEPT ![q] = s] PROVE q = r /\ s = "conflict"
  BY <1>1 DEF AccountsInv, TypeOK
<1>2. ASSUME NEW q \in Request,
             ArriveCreate(q) \/ ArriveUpdate(q) \/ ArriveDelete(q) \/ Load(q) \/ Commit(q) \/ Fail(q)
      PROVE  FALSE
  BY <1>2, <1>1 DEF ArriveCreate, ArriveUpdate, ArriveDelete, Load, Commit, Fail, Step
<1>3. ASSUME NEW q \in Request,
             CheckUnique(q, "name", "email") \/ CheckUnique(q, "email", "write")
      PROVE  Goal
  <2>1. PICK f \in {"name", "email"} : CheckUnique(q, f, IF f = "name" THEN "email" ELSE "write")
    BY <1>3
  <2>2. q = r /\ Held(r, f) /\ pc[r] = f /\ target' = target
    BY <1>1, <2>1 DEF CheckUnique, Step
  <2>3. r \in Updates /\ Loaded(r)
    BY <2>2 DEF AccountsInv, LoadedInv, Loaded
  <2> QED
    BY <2>2, <2>3
<1>4. ASSUME NEW q \in Request, NEW i \in Nat, Statement(q, i), pc[q] = "write"
      PROVE  Goal
  <2>1. q = r /\ Violates(r, i) /\ (r \in Updates => Exists(i)) /\ target'[r] = i
    BY <1>1, <1>4 DEF Statement, Step, AccountsInv, TypeOK
  <2>2. r \in Creates => ask[r] \in Body
    BY <1>4, <2>1 DEF AccountsInv, IdsInv, WholeBody
  <2> QED
    BY <2>1, <2>2
<1>5. ASSUME NEW q \in Request, Insert(q) \/ Change(q)
      PROVE  Goal
  BY <1>4, <1>5 DEF Insert, Change, AccountsInv, TypeOK, Parameters
<1>6. \/ \E q \in Request : ArriveCreate(q) \/ ArriveUpdate(q) \/ ArriveDelete(q)
      \/ \E q \in Request : Proceed(q) \/ Fail(q)
  BY DEF Next, Request
<1> QED
  BY <1>2, <1>3, <1>5, <1>6 DEF Proceed

(* A 409 on SQLite has a rival. *)
LEMMA ConflictStep ==
  ASSUME Parameters, Sqlite, AccountsInv, [Next]_vars
  PROVE  ConflictIsReal
<1> SUFFICES ASSUME NEW r \in Request, pc'[r] = "conflict", pc[r] # "conflict"
             PROVE  \E j \in Id \ {target'[r]}, f \in DOMAIN ask[r] \cap {"name", "email"} :
                      rows[j] # Gone /\ rows[j][f] = ask[r][f] /\ ask[r][f] # NoEmail
  BY DEF ConflictIsReal
<1> DEFINE t == target'[r]
<1>0. Next
  BY DEF vars
<1>1. \/ /\ r \in Updates /\ Loaded(r) /\ target' = target
         /\ \E f \in {"name", "email"} : Held(r, f)
      \/ /\ Violates(r, t)
         /\ r \in Creates => ask[r] \in Body
         /\ r \in Updates => Exists(t)
  BY <1>0, ConflictFrom
<1>2. ASSUME NEW j \in Id, rows[j] # Gone
      PROVE  rows[j].name \in 1..MaxName /\ rows[j].name # NoEmail
  BY <1>2 DEF AccountsInv, TypeOK, Account, Value, NoEmail
<1>3. ASSUME NEW i \in Id, NEW j \in Id, i # j, rows[i] # Gone, rows[j] # Gone
      PROVE  rows[i].name # rows[j].name /\ (rows[i].email = rows[j].email => rows[i].email = NoEmail)
  BY <1>3 DEF AccountsInv, AccountsDistinct, Clash
<1>4. CASE /\ r \in Updates /\ Loaded(r) /\ target' = target
           /\ \E f \in {"name", "email"} : Held(r, f)
  <2>1. PICK f \in {"name", "email"} : Held(r, f)
    BY <1>4
  <2>2. PICK j \in Id \ {t} : rows[j] # Gone /\ rows[j][f] = Over(ask[r], seen[r])[f]
                               /\ rows[j][f] # NoEmail
    BY <1>4, <2>1 DEF Held
  <2>3. seen[r] = rows[t] /\ rows[t] \in Account /\ t \in Id /\ rows[t] # Gone
    BY <1>4, AccountNotGone DEF AccountsInv, SnapshotInv, LoadedInv, Request
  <2>4. f \in DOMAIN seen[r]
    BY <2>3 DEF Account
  <2>5. Over(ask[r], seen[r])[f] = IF f \in DOMAIN ask[r] THEN ask[r][f] ELSE seen[r][f]
    BY <2>4 DEF Over
  <2>6. f \in DOMAIN ask[r]
    BY <1>3, <2>2, <2>3, <2>5
  <2> QED
    BY <2>2, <2>5, <2>6
<1>5. CASE /\ Violates(r, t)
           /\ r \in Creates => ask[r] \in Body
           /\ r \in Updates => Exists(t)
  <2>1. PICK j \in Id \ {t} : rows[j] # Gone /\ Clash(After(r, t), rows[j]) /\ r \notin Deletes
    BY <1>5 DEF Violates
  <2>2. CASE r \in Creates
    <3>1. After(r, t).name = ask[r].name /\ After(r, t).email = ask[r].email
      BY <1>5, <2>2, AfterCreate DEF AccountsInv
    <3>2. DOMAIN ask[r] = {"name", "email", "active"}
      BY <1>5, <2>2 DEF Body
    <3> QED
      BY <1>2, <2>1, <3>1, <3>2 DEF Clash
  <2>3. CASE r \in Updates
    <3>1. t \in Id /\ rows[t] \in Account /\ rows[t] # Gone
      BY <1>5, <2>3 DEF Exists, AccountsInv, TypeOK
    <3>2. \A f \in {"name", "email"} :
            After(r, t)[f] = IF f \in Changed(r) THEN ask[r][f] ELSE rows[t][f]
      BY <2>3, <3>1, AfterUpdate DEF AccountsInv
    <3>3. Changed(r) \subseteq DOMAIN ask[r]
      BY DEF Changed
    <3>4. PICK f \in {"name", "email"} : After(r, t)[f] = rows[j][f] /\ rows[j][f] # NoEmail
      BY <1>2, <2>1 DEF Clash
    <3>5. f \in Changed(r)
      BY <1>3, <2>1, <3>1, <3>2, <3>4
    <3> QED
      BY <2>1, <3>2, <3>3, <3>4, <3>5
  <2> QED
    BY <2>1, <2>2, <2>3 DEF Request
<1> QED
  BY <1>1, <1>4, <1>5

(* On SQLite a 409 is true: another account holds what this one asked for. *)
(* (_check_unique and is_user_unique_violation.)                           *)
THEOREM ConflictsAreReal == ASSUME Parameters, Sqlite PROVE Spec => [][ConflictIsReal]_vars
<1>1. AccountsInv /\ [Next]_vars => ConflictIsReal
  BY ConflictStep
<1> QED
  BY <1>1, AccountsAlways, PTL DEF Spec

(* The last administrator goes by a stale request. *)
LEMMA LastStep ==
  ASSUME Parameters, AccountsInv, [Next]_vars
  PROVE  LastByStale
<1> SUFFICES ASSUME NEW a \in Administrators, Administrators' = {}
             PROVE  \E r \in Deletes : /\ pc[r] = "commit" /\ pc'[r] # "commit"
                                       /\ actor[r] \notin Administrators
  BY DEF LastByStale
<1>0. a \in Id /\ rows[a].super /\ ~rows'[a].super
  BY DEF Administrators
<1>1. Next
  BY <1>0 DEF vars
<1>2. PICK r \in Request :
        /\ Alone(r)
        /\ Arrives(r) \/ Load(r) \/ Quiet(r) \/ Writes(r) \/ Commits(r)
  BY <1>1, StepIs DEF AccountsInv
<1>3. Commits(r)
  BY <1>0, <1>2 DEF Arrives, Load, Quiet, Writes
<1>4. a = target[r] /\ rows'[a] = Written(r)
  BY <1>0, <1>3 DEF Commits, AccountsInv, TypeOK
<1>5. r \notin Creates
  BY <1>0, <1>3, <1>4 DEF Commits, Writing, Silent, AccountsInv, IdsInv, GivenId, Gone
<1>6. r \notin Updates
  <2> SUFFICES ASSUME r \in Updates PROVE FALSE
    OBVIOUS
  <2>1. rows[a] \in Account
    BY <1>0, <1>3, <1>4 DEF Commits, AccountsInv, WritersInv, Committable, Exists, TypeOK
  <2>2. Written(r).super = rows[a].super
    BY <1>4, <2>1, AfterUpdate DEF Written, AccountsInv
  <2> QED
    BY <1>0, <1>4, <2>2
<1>7. r \in Deletes /\ pc[r] = "commit" /\ pc'[r] # "commit"
  BY <1>3, <1>5, <1>6 DEF Request, Commits, Writing, Silent
<1>8. actor[r] # a
  BY <1>4, <1>7 DEF AccountsInv, LoadedInv, Loaded
<1>9. ASSUME actor[r] \in Administrators PROVE FALSE
  <2>1. rows'[actor[r]] = rows[actor[r]]
    BY <1>3, <1>4, <1>8, <1>9 DEF Commits, Administrators, AccountsInv, TypeOK
  <2> QED
    BY <1>9, <2>1 DEF Administrators
<1> QED
  BY <1>7, <1>9

(* The last administrator goes only by a delete_user whose own account was *)
(* deleted after it had been authenticated.                                *)
THEOREM LastGoesByStale == ASSUME Parameters PROVE Spec => [][LastByStale]_vars
<1>1. AccountsInv /\ [Next]_vars => LastByStale
  BY LastStep
<1> QED
  BY <1>1, AccountsAlways, PTL DEF Spec
=============================================================================
