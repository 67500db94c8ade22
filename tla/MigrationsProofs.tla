-------------------------- MODULE MigrationsProofs --------------------------
(***************************************************************************)
(* The invariants of Migrations, for any commands and faults: where DDL is *)
(* transactional, and on MySQL, where it is not.                           *)
(***************************************************************************)
EXTENDS Migrations, TLAPS

Parameters == Kinds \subseteq {"upgrade", "downgrade"}

(* A revision that was taken is one step from where the command was. *)
Directed == \A c \in Commands : pc[c] = "stamp" => at[c] # target[c]

Typed == TypeOK /\ Directed

LEMMA Revisions ==
    /\ Revision = {0, 1, 2} /\ Head = 2
    /\ 1..0 = {} /\ 1..1 = {1} /\ 1..2 = {1, 2}
    /\ \A v \in Revision : 0..v \subseteq Revision
    /\ \A v \in Revision : (0..v) \ {0} = 1..v
  BY DEF Revision, Head

LEMMA TypedInit == Init => Typed
<1> SUFFICES ASSUME Init PROVE Typed
  OBVIOUS
<1>1. tables \subseteq Revision /\ version \in Revision
  BY Revisions DEF Init
<1>2. \A c \in Commands : pc[c] = "new" /\ mine[c] = Nothing
  BY DEF Init
<1>3. Nothing \in [made : SUBSET Revision, dropped : SUBSET Revision, version : Revision \cup {Unset}]
  BY DEF Nothing
<1>4. 0 \in Revision
  BY Revisions
<1> QED  BY <1>1, <1>2, <1>3, <1>4 DEF Typed, TypeOK, Directed, Init

LEMMA ViewTyped ==
    ASSUME Typed, NEW c \in Commands
    PROVE  Tables(c) \subseteq Revision /\ Version(c) \in Revision
<1>1. mine[c].made \subseteq Revision /\ mine[c].version \in Revision \cup {Unset}
  BY DEF Typed, TypeOK
<1> QED  BY <1>1 DEF Typed, TypeOK, Tables, Version

(* How a step on the way out of a transaction leaves the types. *)
LEMMA EndTyped ==
    ASSUME Typed, NEW c \in Commands, NEW result \in {"ok", "failed", "dead"},
           End(c, result), broken' \in BOOLEAN, UNCHANGED <<kind, at, target>>,
           UNCHANGED <<tables, version>> \/ Persist(c)
    PROVE  Typed'
<1>1. tables' \subseteq Revision /\ version' \in Revision
  BY ViewTyped DEF Persist, Typed, TypeOK
<1>2. Nothing \in [made : SUBSET Revision, dropped : SUBSET Revision, version : Revision \cup {Unset}]
  BY DEF Nothing
<1>3. \A q \in Commands : pc'[q] = (IF q = c THEN result ELSE pc[q])
                       /\ mine'[q] = (IF q = c THEN Nothing ELSE mine[q])
  BY DEF End, Go, Typed, TypeOK
<1>4. /\ pc' \in [Commands -> {"new", "ensure", "next", "stamp", "ok", "failed", "dead"}]
      /\ mine' \in [Commands -> [made : SUBSET Revision, dropped : SUBSET Revision,
                                 version : Revision \cup {Unset}]]
  BY <1>2 DEF End, Go, Typed, TypeOK
<1> QED  BY <1>1, <1>3, <1>4 DEF Typed, TypeOK, Directed

LEMMA FailTyped ==
    ASSUME Typed, NEW c \in Commands, Fail(c)
    PROVE  Typed'
  BY EndTyped DEF Fail

LEMMA StatementTyped ==
    ASSUME Typed, NEW c \in Commands, NEW made \in SUBSET Revision, NEW dropped \in SUBSET Revision,
           NEW allowed \in BOOLEAN, NEW to \in {"next", "stamp"}, Statement(c, made, dropped, allowed, to),
           to = "stamp" => at[c] # target[c]
    PROVE  Typed'
<1>1. CASE Refused(c)
  BY <1>1, FailTyped DEF Statement
<1>2. CASE ~Refused(c) /\ ~allowed
  BY <1>2, EndTyped DEF Statement
<1>3. CASE ~Refused(c) /\ allowed
  <2>1. /\ pc' = [pc EXCEPT ![c] = to] /\ UNCHANGED <<kind, at, target, broken>>
    BY <1>3 DEF Statement, Go
  <2>2. /\ tables' \subseteq Revision /\ version' \in Revision
    BY <1>3, ViewTyped DEF Statement, Typed, TypeOK
  <2>3. Nothing \in [made : SUBSET Revision, dropped : SUBSET Revision, version : Revision \cup {Unset}]
    BY DEF Nothing
  <2>4. mine' \in [Commands -> [made : SUBSET Revision, dropped : SUBSET Revision, version : Revision \cup {Unset}]]
    <3>1. CASE Autocommits
      BY <1>3, <2>3, <3>1 DEF Statement, Typed, TypeOK
    <3>2. CASE ~Autocommits
      <4>1. mine' = [mine EXCEPT ![c].made = (@ \cup made) \ dropped,
                                 ![c].dropped = (@ \cup dropped) \ made]
        BY <1>3, <3>2 DEF Statement
      <4>2. mine \in [Commands -> [made : SUBSET Revision, dropped : SUBSET Revision,
                                   version : Revision \cup {Unset}]]
        BY DEF Typed, TypeOK
      <4> DEFINE once == [mine EXCEPT ![c].made = (@ \cup made) \ dropped]
      <4>3. once \in [Commands -> [made : SUBSET Revision, dropped : SUBSET Revision,
                                   version : Revision \cup {Unset}]]
        BY <4>2
      <4>4. mine' = [once EXCEPT ![c].dropped = (@ \cup dropped) \ made]
        BY <4>1
      <4> HIDE DEF once
      <4>5. (once[c].dropped \cup dropped) \ made \in SUBSET Revision
        BY <4>3
      <4>6. [once EXCEPT ![c].dropped = (@ \cup dropped) \ made]
              \in [Commands -> [made : SUBSET Revision, dropped : SUBSET Revision,
                                version : Revision \cup {Unset}]]
        BY <4>3, <4>5
      <4> QED  BY <4>4, <4>6
    <3> QED  BY <3>1, <3>2
  <2>5. \A q \in Commands : q # c => pc'[q] = pc[q] /\ mine'[q] = mine[q]
    BY <1>3, <2>1 DEF Statement, Typed, TypeOK
  <2>6. pc'[c] = to
    BY <2>1 DEF Typed, TypeOK
  <2> QED  BY <2>1, <2>2, <2>4, <2>5, <2>6 DEF Typed, TypeOK, Directed
<1> QED  BY <1>1, <1>2, <1>3

LEMMA TypedStep == Typed /\ [Next]_vars => Typed'
<1> SUFFICES ASSUME Typed, [Next]_vars PROVE Typed'
  OBVIOUS
<1>1. ASSUME NEW c \in Commands, ReadHeads(c) PROVE Typed'
  <2>1. version \in Revision /\ (version # 0 => version - 1 \in Revision)
    BY Revisions DEF Typed, TypeOK
  <2> QED  BY <1>1, <2>1, Revisions DEF ReadHeads, Go, Typed, TypeOK, Directed
<1>2. ASSUME NEW c \in Commands, EnsureVersionTable(c) PROVE Typed'
  <2>1. CASE 0 \in tables
    BY <1>2, <2>1 DEF EnsureVersionTable, Go, Typed, TypeOK, Directed
  <2>2. CASE 0 \notin tables
    BY <1>2, <2>2, StatementTyped, Revisions DEF EnsureVersionTable
  <2> QED  BY <2>1, <2>2
<1>3. ASSUME NEW c \in Commands, CreateTable(c) PROVE Typed'
  <2>1. at[c] + 1 \in Revision /\ at[c] # target[c]
    BY <1>3, Revisions DEF CreateTable, Typed, TypeOK
  <2> QED  BY <1>3, <2>1, StatementTyped DEF CreateTable
<1>4. ASSUME NEW c \in Commands, DropTable(c) PROVE Typed'
  <2>1. at[c] \in Revision /\ at[c] # target[c]
    BY <1>4, Revisions DEF DropTable, Typed, TypeOK
  <2> QED  BY <1>4, <2>1, StatementTyped DEF DropTable
<1>5. ASSUME NEW c \in Commands, Stamp(c) PROVE Typed'
  <2>1. CASE Fail(c)
    BY <2>1, FailTyped
  <2>2. CASE ~Fail(c)
    <3>1. Toward(c) \in Revision
      <4>1. at[c] # target[c] /\ at[c] \in {0, 1, 2} /\ target[c] \in {0, 1, 2}
        BY <1>5, Revisions DEF Stamp, Typed, TypeOK, Directed
      <4> QED  BY <4>1, Revisions DEF Toward
    <3>2. /\ mine' = [mine EXCEPT ![c].version = Toward(c)]
          /\ at' = [at EXCEPT ![c] = Toward(c)]
          /\ pc[c] = "stamp" /\ pc' = [pc EXCEPT ![c] = "next"]
          /\ UNCHANGED <<tables, version, kind, target, broken>>
      BY <1>5, <2>2 DEF Stamp, Go
    <3> QED  BY <3>1, <3>2 DEF Typed, TypeOK, Directed
  <2> QED  BY <2>1, <2>2
<1>6. ASSUME NEW c \in Commands, Commit(c) PROVE Typed'
  BY <1>6, EndTyped DEF Commit, Typed, TypeOK
<1>7. ASSUME NEW c \in Commands, NEW result \in {"failed", "dead"}, Interrupt(c, result) PROVE Typed'
  BY <1>7, EndTyped DEF Interrupt
<1>8. CASE UNCHANGED vars
  BY <1>8 DEF vars, Typed, TypeOK, Directed
<1> QED  BY <1>1, <1>2, <1>3, <1>4, <1>5, <1>6, <1>7, <1>8 DEF Next, Proceed, Error, Kill

-----------------------------------------------------------------------------
(* Where DDL is transactional.  A command alters the schema from its first *)
(* DDL on the users or files table until it ends.                          *)
Altering(c) == \E t \in {1, 2} : t \in mine[c].made \/ t \in mine[c].dropped

(* The table locks let one command at a time alter the schema.             *)
OneAlters == \A c, q \in Commands : Altering(c) /\ Altering(q) => c = q

(* What it sees is the schema of the revision it has reached, and the      *)
(* version row says where it comes from.                                   *)
Reached(c) == IF pc[c] = "stamp" THEN Toward(c) ELSE at[c]

InStep ==
    \A c \in Commands : Altering(c) =>
        /\ pc[c] \in {"next", "stamp"}
        /\ Version(c) = at[c] /\ Tables(c) \ {0} = 1..Reached(c)

(* Before that it has changed nothing but Alembic's table.                 *)
Untouched ==
    \A c \in Commands : ~Altering(c) =>
        mine[c].version = Unset /\ pc[c] # "stamp"

VersionTable ==
    \A c \in Commands :
        /\ 0 \notin mine[c].dropped
        /\ pc[c] \in {"next", "stamp"} => 0 \in Tables(c)
        /\ pc[c] = "ensure" => at[c] # target[c] /\ ~Altering(c)
        /\ mine[c] # Nothing /\ ~Altering(c) => at[c] # target[c]

TransactionalInv ==
    /\ Typed /\ SchemaIsStamped
    /\ OneAlters /\ InStep /\ Untouched /\ VersionTable

LEMMA TransactionalInit == Init => TransactionalInv
<1> SUFFICES ASSUME Init PROVE TransactionalInv
  OBVIOUS
<1>1. Typed
  BY TypedInit
<1>2. \A c \in Commands : pc[c] = "new" /\ mine[c] = Nothing
  BY DEF Init
<1>3. SchemaIsStamped
  <2>1. CASE version = 0
    BY <2>1, Revisions DEF Init, SchemaIsStamped, Stamped
  <2>2. CASE version # 0
    BY <2>2, Revisions DEF Init, SchemaIsStamped, Stamped
  <2> QED  BY <2>1, <2>2
<1>4. \A c \in Commands : ~Altering(c) /\ mine[c].version = Unset /\ mine[c].dropped = {}
  BY <1>2 DEF Altering, Nothing
<1> QED
  BY <1>1, <1>2, <1>3, <1>4 DEF TransactionalInv, OneAlters, InStep, Untouched, VersionTable

(* DDL on a table that is not Alembic's waits for whoever alters.          *)
LEMMA Alone ==
    ASSUME NEW c \in Commands, NEW t \in {1, 2}, ~Waits(c, {t})
    PROVE  \A q \in Commands : Altering(q) => q = c
<1> SUFFICES ASSUME NEW q \in Commands, q # c, Altering(q) PROVE FALSE
  OBVIOUS
<1>1. q \in Others(c)
  BY DEF Others
<1>2. 1 \in Locks(mine[q].made \cup mine[q].dropped)
  BY DEF Altering, Locks, References
<1>3. 1 \in Locks({t})
  BY DEF Locks, References
<1> QED  BY <1>1, <1>2, <1>3 DEF Waits

(* What a command sees before a DDL statement that is allowed.             *)
LEMMA AtItsVersion ==
    ASSUME TransactionalInv, NEW c \in Commands, pc[c] = "next",
           \/ at[c] < target[c] /\ at[c] + 1 \notin Tables(c) /\ References(at[c] + 1) \subseteq Tables(c)
           \/ at[c] > target[c] /\ at[c] \in Tables(c) /\ \A u \in Tables(c) : at[c] \notin References(u)
    PROVE  Version(c) = at[c] /\ Tables(c) \ {0} = 1..at[c]
<1>1. CASE Altering(c)
  BY <1>1 DEF TransactionalInv, InStep, Reached
<1>2. CASE ~Altering(c)
  <2>1. Version(c) = version
    BY <1>2 DEF TransactionalInv, Untouched, Version
  <2>2. Tables(c) \ {0} = 1..version
    <3>1. Tables(c) \ {0} = tables \ {0}
      <4>1. mine[c].made \subseteq {0} /\ mine[c].dropped \subseteq {0}
        BY <1>2, Revisions DEF TransactionalInv, Typed, TypeOK, Altering
      <4> QED  BY <4>1 DEF Tables
    <3> QED  BY <3>1 DEF TransactionalInv, SchemaIsStamped, Stamped
  <2>3. at[c] \in {0, 1, 2} /\ target[c] \in {0, 1, 2} /\ version \in {0, 1, 2}
    BY Revisions DEF TransactionalInv, Typed, TypeOK
  <2>4. at[c] = version
    <3>1. CASE version = 0
      BY <2>2, <2>3, <3>1, Revisions DEF References
    <3>2. CASE version = 1
      BY <2>2, <2>3, <3>2, Revisions DEF References
    <3>3. CASE version = 2
      BY <2>2, <2>3, <3>3, Revisions DEF References
    <3> QED  BY <2>3, <3>1, <3>2, <3>3
  <2> QED  BY <2>1, <2>2, <2>4
<1> QED  BY <1>1, <1>2

(* Another command's changes do not touch what a command sees of its own.  *)
LEMMA SameView ==
    ASSUME NEW q \in Commands, mine'[q] = mine[q], at'[q] = at[q], pc'[q] = pc[q],
           target'[q] = target[q], UNCHANGED <<tables, version>>
    PROVE  /\ Altering(q)' <=> Altering(q)
           /\ Version(q)' = Version(q) /\ Tables(q)' = Tables(q) /\ Reached(q)' = Reached(q)
  BY DEF Altering, Version, Tables, Reached, Toward

(* A rollback, or the end of a command that changed nothing. *)
LEMMA RolledBack ==
    ASSUME TransactionalInv, Typed', NEW c \in Commands, NEW result \in {"ok", "failed", "dead"},
           End(c, result), UNCHANGED <<tables, version, at, target>>
    PROVE  TransactionalInv'
<1>1. mine'[c] = Nothing /\ pc'[c] = result
  BY DEF End, Go, TransactionalInv, Typed, TypeOK
<1>2. \A q \in Commands : q # c => mine'[q] = mine[q] /\ pc'[q] = pc[q]
  BY DEF End, Go, TransactionalInv, Typed, TypeOK
<1>3. \A q \in Commands : q # c => /\ Altering(q)' <=> Altering(q)
                                   /\ Version(q)' = Version(q) /\ Tables(q)' = Tables(q)
                                   /\ Reached(q)' = Reached(q)
  BY <1>2, SameView
<1>4. ~Altering(c)' /\ mine'[c].version = Unset /\ mine'[c].dropped = {}
  BY <1>1 DEF Altering, Nothing
<1>5. OneAlters'
  BY <1>3, <1>4 DEF TransactionalInv, OneAlters
<1>6. InStep'
  BY <1>2, <1>3, <1>4 DEF TransactionalInv, InStep
<1>7. Untouched'
  BY <1>1, <1>2, <1>3, <1>4 DEF TransactionalInv, Untouched
<1>8. VersionTable'
  BY <1>1, <1>2, <1>3, <1>4 DEF TransactionalInv, VersionTable
<1>9. SchemaIsStamped'
  BY DEF TransactionalInv, SchemaIsStamped, Stamped
<1> QED  BY <1>5, <1>6, <1>7, <1>8, <1>9 DEF TransactionalInv

(* One statement that succeeds: what its command sees afterwards. *)
LEMMA Succeeded ==
    ASSUME Typed, ~Autocommits, NEW c \in Commands,
           NEW made \in SUBSET Revision, NEW dropped \in SUBSET Revision, made \cap dropped = {},
           NEW to, Statement(c, made, dropped, TRUE, to), ~Refused(c)
    PROVE  /\ Tables(c)' = (Tables(c) \cup made) \ dropped
           /\ Version(c)' = Version(c) /\ mine'[c].version = mine[c].version
           /\ mine'[c].made = (mine[c].made \cup made) \ dropped
           /\ mine'[c].dropped = (mine[c].dropped \cup dropped) \ made
           /\ pc'[c] = to
           /\ \A q \in Commands : q # c => mine'[q] = mine[q] /\ pc'[q] = pc[q]
           /\ UNCHANGED <<tables, version, kind, at, target, broken>>
           /\ ~Waits(c, made \cup dropped)
<1>1. /\ mine' = [mine EXCEPT ![c].made = (@ \cup made) \ dropped,
                              ![c].dropped = (@ \cup dropped) \ made]
      /\ pc' = [pc EXCEPT ![c] = to]
      /\ UNCHANGED <<tables, version, kind, at, target, broken>>
      /\ ~Waits(c, made \cup dropped)
  BY DEF Statement, Go
<1>2. /\ mine'[c].made = (mine[c].made \cup made) \ dropped
      /\ mine'[c].dropped = (mine[c].dropped \cup dropped) \ made
      /\ mine'[c].version = mine[c].version /\ pc'[c] = to
      /\ \A q \in Commands : q # c => mine'[q] = mine[q] /\ pc'[q] = pc[q]
  BY <1>1 DEF Typed, TypeOK
<1>3. Tables(c)' = (Tables(c) \cup made) \ dropped
  BY <1>1, <1>2 DEF Tables
<1>4. Version(c)' = Version(c)
  BY <1>1, <1>2 DEF Version
<1> QED  BY <1>1, <1>2, <1>3, <1>4

(* DDL of a revision, which leads from at[c] to Toward(c). *)
LEMMA Altered ==
    ASSUME TransactionalInv, Typed', ~Autocommits, NEW c \in Commands,
           NEW made \in SUBSET {1, 2}, NEW dropped \in SUBSET {1, 2}, made \cap dropped = {},
           NEW t \in {1, 2}, made \cup dropped = {t},
           Statement(c, made, dropped, TRUE, "stamp"), ~Refused(c), pc[c] = "next",
           Version(c) = at[c], ((Tables(c) \ {0}) \cup made) \ dropped = 1..Toward(c)
    PROVE  TransactionalInv'
<1>0. Typed /\ made \in SUBSET Revision /\ dropped \in SUBSET Revision
  BY Revisions DEF TransactionalInv
<1>1. /\ Tables(c)' = (Tables(c) \cup made) \ dropped
      /\ Version(c)' = Version(c) /\ mine'[c].version = mine[c].version
      /\ mine'[c].made = (mine[c].made \cup made) \ dropped
      /\ mine'[c].dropped = (mine[c].dropped \cup dropped) \ made
      /\ pc'[c] = "stamp"
      /\ \A q \in Commands : q # c => mine'[q] = mine[q] /\ pc'[q] = pc[q]
      /\ UNCHANGED <<tables, version, kind, at, target, broken>>
      /\ ~Waits(c, made \cup dropped)
  BY <1>0, Succeeded, Zenon
<1>2. \A q \in Commands : Altering(q) => q = c
  <2>1. ~Waits(c, {t})
    BY <1>1
  <2> QED  BY <2>1, Alone
<1>3. \A q \in Commands : q # c => /\ ~Altering(q)'
                                   /\ Version(q)' = Version(q) /\ Tables(q)' = Tables(q)
  BY <1>1, <1>2, SameView
<1>4. Altering(c)'
  BY <1>1 DEF Altering
<1>5. Reached(c)' = Toward(c) /\ Toward(c)' = Toward(c)
  BY <1>1 DEF Reached, Toward
<1>6. OneAlters'
  BY <1>3 DEF OneAlters
<1>7. InStep'
  BY <1>1, <1>3, <1>5 DEF InStep
<1>8. Untouched'
  BY <1>1, <1>3, <1>4 DEF TransactionalInv, Untouched, Altering
<1>9. VersionTable'
  BY <1>1, <1>2, <1>3, <1>4 DEF TransactionalInv, VersionTable
<1>10. SchemaIsStamped'
  BY <1>1 DEF TransactionalInv, SchemaIsStamped, Stamped
<1> QED  BY <1>6, <1>7, <1>8, <1>9, <1>10 DEF TransactionalInv

LEMMA TransactionalStep ==
    ASSUME Parameters, ~Autocommits, TransactionalInv, [Next]_vars
    PROVE  TransactionalInv'
<1>0. Typed /\ Typed'
  BY TypedStep DEF TransactionalInv
<1>f. ASSUME NEW c \in Commands, Fail(c) PROVE TransactionalInv'
  BY <1>0, <1>f, RolledBack DEF Fail
<1>1. ASSUME NEW c \in Commands, ReadHeads(c) PROVE TransactionalInv'
  <2>1. mine[c] = Nothing /\ version \in {0, 1, 2}
    BY <1>0, <1>1, Revisions DEF ReadHeads, Typed, TypeOK
  <2>2. /\ UNCHANGED <<tables, version, kind, mine, broken>>
        /\ at'[c] = version /\ pc'[c] \in {"failed", "ensure", "next"}
        /\ pc'[c] = "next" => version # 0
        /\ pc'[c] = "ensure" => version = 0 /\ target'[c] = 2
    <3>1. kind[c] \in {"upgrade", "downgrade"} /\ pc \in [Commands -> {"new", "ensure", "next", "stamp", "ok", "failed", "dead"}]
          /\ at \in [Commands -> Revision] /\ target \in [Commands -> Revision]
      BY <1>0 DEF Typed, TypeOK, Parameters
    <3>2. /\ at' = [at EXCEPT ![c] = version]
          /\ pc' = [pc EXCEPT ![c] = IF kind[c] = "downgrade" /\ version = 0 THEN "failed"
                                     ELSE IF version = 0 THEN "ensure" ELSE "next"]
          /\ kind[c] = "upgrade" => target' = [target EXCEPT ![c] = 2]
          /\ UNCHANGED <<tables, version, kind, mine, broken>>
      BY <1>1, Revisions DEF ReadHeads, Go
    <3>3. at'[c] = version /\ (kind[c] = "upgrade" => target'[c] = 2)
      BY <3>1, <3>2
    <3>4. pc'[c] = IF kind[c] = "downgrade" /\ version = 0 THEN "failed"
                   ELSE IF version = 0 THEN "ensure" ELSE "next"
      BY <3>1, <3>2
    <3> QED  BY <3>1, <3>2, <3>3, <3>4
  <2>3. \A q \in Commands : q # c => pc'[q] = pc[q] /\ at'[q] = at[q] /\ target'[q] = target[q]
    BY <1>0, <1>1 DEF ReadHeads, Go, Typed, TypeOK
  <2>4. \A q \in Commands : q # c => /\ Altering(q)' <=> Altering(q)
                                     /\ Version(q)' = Version(q) /\ Tables(q)' = Tables(q)
                                     /\ Reached(q)' = Reached(q)
    BY <2>2, <2>3, SameView
  <2>5. /\ ~Altering(c)' /\ mine'[c] = Nothing /\ mine'[c].version = Unset
        /\ mine'[c].dropped = {} /\ Tables(c)' = tables
    BY <2>1, <2>2 DEF Altering, Nothing, Tables
  <2>6. OneAlters'
    BY <2>4, <2>5 DEF TransactionalInv, OneAlters
  <2>7. InStep'
    BY <2>3, <2>4, <2>5 DEF TransactionalInv, InStep
  <2>8. Untouched'
    BY <2>2, <2>3, <2>4, <2>5 DEF TransactionalInv, Untouched
  <2>9. SchemaIsStamped' /\ (version # 0 => 0 \in tables)
    BY <2>1, <2>2 DEF TransactionalInv, SchemaIsStamped, Stamped
  <2>10. VersionTable'
    BY <2>2, <2>3, <2>4, <2>5, <2>9 DEF TransactionalInv, VersionTable
  <2> QED  BY <1>0, <2>6, <2>7, <2>8, <2>9, <2>10 DEF TransactionalInv
<1>2. ASSUME NEW c \in Commands, EnsureVersionTable(c) PROVE TransactionalInv'
  <2>0. at[c] # target[c] /\ ~Altering(c) /\ 0 \notin mine[c].dropped /\ pc[c] = "ensure"
    BY <1>2 DEF EnsureVersionTable, TransactionalInv, VersionTable
  <2>1. CASE Refused(c) /\ 0 \notin tables
    BY <1>2, <1>f, <2>1 DEF EnsureVersionTable, Statement
  <2>2. CASE ~Refused(c) \/ 0 \in tables
    <3>1. /\ UNCHANGED <<tables, version, at, target>> /\ pc'[c] = "next" /\ 0 \in Tables(c)'
          /\ mine'[c].version = mine[c].version /\ mine'[c].dropped = mine[c].dropped
          /\ mine'[c].made \in {mine[c].made, mine[c].made \cup {0}}
          /\ \A q \in Commands : q # c => mine'[q] = mine[q] /\ pc'[q] = pc[q]
      <4>1. CASE 0 \in tables
        BY <1>0, <1>2, <2>0, <4>1 DEF EnsureVersionTable, Go, Tables, Typed, TypeOK
      <4>2. CASE 0 \notin tables
        <5>1. Statement(c, {0}, {}, TRUE, "next")
          BY <1>2, <4>2 DEF EnsureVersionTable
        <5>2. /\ Tables(c)' = (Tables(c) \cup {0}) \ {}
              /\ mine'[c].version = mine[c].version
              /\ mine'[c].made = (mine[c].made \cup {0}) \ {}
              /\ mine'[c].dropped = (mine[c].dropped \cup {}) \ {0}
              /\ pc'[c] = "next"
              /\ \A q \in Commands : q # c => mine'[q] = mine[q] /\ pc'[q] = pc[q]
              /\ UNCHANGED <<tables, version, kind, at, target, broken>>
          <6>1. ~Refused(c)
            BY <2>2, <4>2
          <6>2. /\ mine' = [mine EXCEPT ![c].made = (@ \cup {0}) \ {},
                                        ![c].dropped = (@ \cup {}) \ {0}]
                /\ pc' = [pc EXCEPT ![c] = "next"]
                /\ UNCHANGED <<tables, version, kind, at, target, broken>>
            BY <5>1, <6>1 DEF Statement, Go
          <6>3. /\ mine'[c].version = mine[c].version
                /\ mine'[c].made = (mine[c].made \cup {0}) \ {}
                /\ mine'[c].dropped = (mine[c].dropped \cup {}) \ {0}
                /\ pc'[c] = "next"
                /\ \A q \in Commands : q # c => mine'[q] = mine[q] /\ pc'[q] = pc[q]
            BY <1>0, <6>2 DEF Typed, TypeOK
          <6>4. Tables(c)' = (Tables(c) \cup {0}) \ {}
            BY <6>2, <6>3 DEF Tables
          <6> QED  BY <6>2, <6>3, <6>4
        <5> QED  BY <2>0, <5>2
      <4> QED  BY <4>1, <4>2
    <3>2. ~Altering(c)'
      BY <2>0, <3>1 DEF Altering
    <3>3. \A q \in Commands : q # c => /\ Altering(q)' <=> Altering(q)
                                       /\ Version(q)' = Version(q) /\ Tables(q)' = Tables(q)
                                       /\ Reached(q)' = Reached(q)
      BY <3>1, SameView
    <3>4. OneAlters'
      BY <3>2, <3>3 DEF TransactionalInv, OneAlters
    <3>5. InStep'
      BY <3>1, <3>2, <3>3 DEF TransactionalInv, InStep
    <3>6. Untouched'
      BY <2>0, <3>1, <3>2, <3>3 DEF TransactionalInv, Untouched
    <3>7. SchemaIsStamped'
      BY <3>1 DEF TransactionalInv, SchemaIsStamped, Stamped
    <3>8. VersionTable'
      BY <2>0, <3>1, <3>2, <3>3 DEF TransactionalInv, VersionTable
    <3> QED  BY <1>0, <3>4, <3>5, <3>6, <3>7, <3>8 DEF TransactionalInv
  <2> QED  BY <2>1, <2>2
<1>3. ASSUME NEW c \in Commands, CreateTable(c) PROVE TransactionalInv'
  <2> DEFINE t == at[c] + 1
             allowed == t \notin Tables(c) /\ References(t) \subseteq Tables(c)
  <2>1. pc[c] = "next" /\ at[c] < target[c] /\ Statement(c, {t}, {}, allowed, "stamp")
    BY <1>3 DEF CreateTable
  <2>2. at[c] \in {0, 1, 2} /\ target[c] \in {0, 1, 2} /\ t \in {1, 2}
    BY <1>0, <2>1, Revisions DEF Typed, TypeOK
  <2>3. CASE Refused(c)
    BY <1>f, <2>1, <2>3 DEF Statement
  <2>4. CASE ~Refused(c) /\ ~allowed
    BY <1>0, <2>1, <2>4, RolledBack DEF Statement
  <2>5. CASE ~Refused(c) /\ allowed
    <3>1. Version(c) = at[c] /\ Tables(c) \ {0} = 1..at[c]
      BY <2>1, <2>5, AtItsVersion
    <3>2. Statement(c, {t}, {}, TRUE, "stamp")
      BY <2>1, <2>5
    <3>3. ((Tables(c) \ {0}) \cup {t}) \ {} = 1..Toward(c)
      BY <2>1, <2>2, <3>1, Revisions DEF Toward
    <3> HIDE DEF t
    <3>4. /\ {t} \in SUBSET {1, 2} /\ {} \in SUBSET {1, 2} /\ {t} \cap {} = {} /\ {t} \cup {} = {t}
      BY <2>2
    <3> QED  BY <1>0, <2>1, <2>2, <2>5, <3>1, <3>2, <3>3, <3>4, Altered, Zenon
  <2> QED  BY <2>3, <2>4, <2>5
<1>4. ASSUME NEW c \in Commands, DropTable(c) PROVE TransactionalInv'
  <2> DEFINE t == at[c]
             allowed == t \in Tables(c) /\ \A u \in Tables(c) : t \notin References(u)
  <2>1. pc[c] = "next" /\ at[c] > target[c] /\ Statement(c, {}, {t}, allowed, "stamp")
    BY <1>4 DEF DropTable
  <2>2. at[c] \in {0, 1, 2} /\ target[c] \in {0, 1, 2} /\ t \in {1, 2}
    BY <1>0, <2>1, Revisions DEF Typed, TypeOK
  <2>3. CASE Refused(c)
    BY <1>f, <2>1, <2>3 DEF Statement
  <2>4. CASE ~Refused(c) /\ ~allowed
    BY <1>0, <2>1, <2>4, RolledBack DEF Statement
  <2>5. CASE ~Refused(c) /\ allowed
    <3>1. Version(c) = at[c] /\ Tables(c) \ {0} = 1..at[c]
      BY <2>1, <2>5, AtItsVersion
    <3>2. Statement(c, {}, {t}, TRUE, "stamp")
      BY <2>1, <2>5
    <3>3. ((Tables(c) \ {0}) \cup {}) \ {t} = 1..Toward(c)
      BY <2>1, <2>2, <3>1, Revisions DEF Toward
    <3> HIDE DEF t
    <3>4. /\ {t} \in SUBSET {1, 2} /\ {} \in SUBSET {1, 2} /\ {} \cap {t} = {} /\ {} \cup {t} = {t}
      BY <2>2
    <3> QED  BY <1>0, <2>1, <2>2, <2>5, <3>1, <3>2, <3>3, <3>4, Altered, Zenon
  <2> QED  BY <2>3, <2>4, <2>5
<1>5. ASSUME NEW c \in Commands, Stamp(c) PROVE TransactionalInv'
  <2>1. CASE Fail(c)
    BY <1>f, <2>1
  <2>2. CASE ~Fail(c)
    <3>1. /\ mine' = [mine EXCEPT ![c].version = Toward(c)]
          /\ at' = [at EXCEPT ![c] = Toward(c)]
          /\ pc[c] = "stamp" /\ pc' = [pc EXCEPT ![c] = "next"]
          /\ UNCHANGED <<tables, version, kind, target, broken>>
      BY <1>5, <2>2 DEF Stamp, Go
    <3>2. /\ mine'[c].made = mine[c].made /\ mine'[c].dropped = mine[c].dropped
          /\ mine'[c].version = Toward(c) /\ at'[c] = Toward(c) /\ pc'[c] = "next"
          /\ \A q \in Commands : q # c => mine'[q] = mine[q] /\ pc'[q] = pc[q] /\ at'[q] = at[q]
      BY <1>0, <3>1 DEF Typed, TypeOK
    <3>3. \A q \in Commands : q # c => /\ Altering(q)' <=> Altering(q)
                                       /\ Version(q)' = Version(q) /\ Tables(q)' = Tables(q)
                                       /\ Reached(q)' = Reached(q)
      BY <3>1, <3>2, SameView
    <3>4. Altering(c) /\ Altering(c)' /\ Tables(c)' = Tables(c)
      BY <3>1, <3>2 DEF TransactionalInv, Untouched, Altering, Tables
    <3>5. Version(c)' = Toward(c) /\ Reached(c)' = Toward(c) /\ Reached(c) = Toward(c)
      <4>1. Toward(c) # Unset
        <5>1. at'[c] \in Revision
          BY <1>0 DEF Typed, TypeOK
        <5>2. at'[c] \in {0, 1, 2}
          BY <5>1, Revisions
        <5> QED  BY <3>2, <5>2 DEF Unset
      <4> QED  BY <3>1, <3>2, <4>1 DEF Version, Reached
    <3>6. OneAlters'
      BY <3>3, <3>4 DEF TransactionalInv, OneAlters
    <3>7. InStep'
      BY <3>2, <3>3, <3>4, <3>5 DEF TransactionalInv, InStep
    <3>8. Untouched'
      BY <3>2, <3>3, <3>4 DEF TransactionalInv, Untouched
    <3>9. SchemaIsStamped'
      BY <3>1 DEF TransactionalInv, SchemaIsStamped, Stamped
    <3>10. VersionTable'
      BY <3>1, <3>2, <3>3, <3>4 DEF TransactionalInv, VersionTable
    <3> QED  BY <1>0, <3>6, <3>7, <3>8, <3>9, <3>10 DEF TransactionalInv
  <2> QED  BY <2>1, <2>2
<1>6. ASSUME NEW c \in Commands, Commit(c) PROVE TransactionalInv'
  <2>1. pc[c] = "next" /\ at[c] = target[c] /\ Persist(c) /\ End(c, "ok") /\ UNCHANGED <<kind, at, target, broken>>
    BY <1>6 DEF Commit
  <2>2. CASE ~Altering(c)
    <3>1. mine[c] = Nothing
      BY <2>1, <2>2 DEF TransactionalInv, VersionTable
    <3>2. UNCHANGED <<tables, version>>
      BY <2>1, <3>1 DEF Persist, Tables, Version, Nothing
    <3> QED  BY <1>0, <2>1, <3>2, RolledBack
  <2>3. CASE Altering(c)
    <3>1. mine'[c] = Nothing /\ pc'[c] = "ok"
      BY <1>0, <2>1 DEF End, Go, Typed, TypeOK
    <3>2. \A q \in Commands : q # c => mine'[q] = mine[q] /\ pc'[q] = pc[q] /\ ~Altering(q) /\ ~Altering(q)'
      BY <1>0, <2>1, <2>3 DEF End, Go, TransactionalInv, OneAlters, Typed, TypeOK, Altering
    <3>3. ~Altering(c)' /\ mine'[c].version = Unset /\ mine'[c].dropped = {}
      BY <3>1 DEF Altering, Nothing
    <3>4. /\ tables' = Tables(c) /\ version' = at[c]
          /\ Tables(c) \ {0} = 1..at[c] /\ 0 \in tables'
      BY <2>1, <2>3 DEF Persist, TransactionalInv, InStep, Reached, VersionTable
    <3>5. OneAlters' /\ InStep'
      BY <3>2, <3>3 DEF OneAlters, InStep
    <3>6. Untouched'
      BY <3>1, <3>2, <3>3 DEF TransactionalInv, Untouched
    <3>7. SchemaIsStamped'
      BY <3>4 DEF SchemaIsStamped, Stamped
    <3>8. VersionTable'
      <4>1. \A q \in Commands : 0 \notin mine[q].dropped
        BY DEF TransactionalInv, VersionTable
      <4>2. \A q \in Commands : q # c => 0 \in Tables(q)'
        BY <3>2, <3>4, <4>1 DEF Tables
      <4> QED  BY <2>1, <3>1, <3>2, <3>3, <4>1, <4>2 DEF TransactionalInv, VersionTable
    <3> QED  BY <1>0, <3>5, <3>6, <3>7, <3>8 DEF TransactionalInv
  <2> QED  BY <2>2, <2>3
<1>7. ASSUME NEW c \in Commands, NEW result \in {"failed", "dead"}, Interrupt(c, result) PROVE TransactionalInv'
  BY <1>0, <1>7, RolledBack DEF Interrupt
<1>8. CASE UNCHANGED vars
  <2>1. UNCHANGED <<tables, version, pc, kind, at, target, mine, broken>>
    BY <1>8 DEF vars
  <2>2. \A q \in Commands : /\ Altering(q)' <=> Altering(q)
                            /\ Version(q)' = Version(q) /\ Tables(q)' = Tables(q)
                            /\ Reached(q)' = Reached(q)
    BY <2>1, SameView
  <2> QED
    BY <1>0, <2>1, <2>2 DEF TransactionalInv, SchemaIsStamped, Stamped, OneAlters, InStep, Untouched, VersionTable
<1> QED  BY <1>1, <1>2, <1>3, <1>4, <1>5, <1>6, <1>7, <1>8 DEF Next, Proceed, Error, Kill

(* A command says that it is done where it commits, and nowhere else.      *)
LEMMA OnlyCommit ==
    ASSUME Typed, NEW c \in Commands, [Next]_vars, pc[c] = "next", pc'[c] = "ok"
    PROVE  Commit(c)
<1>1. ASSUME NEW q \in Commands, NEW x \in {"ensure", "next", "stamp", "failed", "dead"}, Go(q, x)
      PROVE  FALSE
  BY <1>1 DEF Go, Typed, TypeOK
<1>2. ASSUME NEW q \in Commands, ReadHeads(q) PROVE FALSE
  BY <1>1, <1>2 DEF ReadHeads
<1>3. ASSUME NEW q \in Commands, NEW made, NEW dropped, NEW allowed,
             NEW to \in {"next", "stamp"}, Statement(q, made, dropped, allowed, to)
      PROVE  FALSE
  BY <1>1, <1>3 DEF Statement, Fail, End
<1>4. ASSUME NEW q \in Commands, EnsureVersionTable(q) PROVE FALSE
  BY <1>1, <1>3, <1>4 DEF EnsureVersionTable
<1>5. ASSUME NEW q \in Commands, CreateTable(q) \/ DropTable(q) PROVE FALSE
  BY <1>3, <1>5 DEF CreateTable, DropTable
<1>6. ASSUME NEW q \in Commands, Stamp(q) PROVE FALSE
  BY <1>1, <1>6 DEF Stamp, Fail, End
<1>7. ASSUME NEW q \in Commands, Error(q) \/ Kill(q) PROVE FALSE
  BY <1>1, <1>7 DEF Error, Kill, Interrupt, End
<1>8. ASSUME NEW q \in Commands, Commit(q) PROVE q = c
  BY <1>8 DEF Commit, End, Go, Typed, TypeOK
<1>9. CASE UNCHANGED vars
  BY <1>9 DEF vars
<1> QED  BY <1>2, <1>4, <1>5, <1>6, <1>7, <1>8, <1>9 DEF Next, Proceed

LEMMA TransactionalDone ==
    ASSUME Parameters, ~Autocommits, TransactionalInv, [Next]_vars
    PROVE  DoneIsTarget
<1> SUFFICES ASSUME NEW c \in Commands, pc[c] = "next", pc'[c] = "ok", Writing(c)
             PROVE  version' = target[c] /\ tables' \ {0} = 1..target[c]
  BY DEF DoneIsTarget
<1>1. Commit(c)
  BY OnlyCommit DEF TransactionalInv
<1>2. Altering(c)
  BY <1>1 DEF Commit, Writing, TransactionalInv, VersionTable
<1> QED
  BY <1>1, <1>2 DEF Commit, Persist, TransactionalInv, InStep, Reached

-----------------------------------------------------------------------------
(* Where every DDL statement commits, for upgrades.  A command has nothing *)
(* uncommitted but the version it has set, and that is the next one.       *)
Bare == \A c \in Commands : mine[c].made = {} /\ mine[c].dropped = {}

RowLock ==
    /\ \A c \in Commands : mine[c].version # Unset =>
          pc[c] = "next" /\ mine[c].version = at[c] /\ at[c] = version + 1
    /\ \A c, q \in Commands : mine[c].version # Unset /\ mine[q].version # Unset => c = q

(* A command is never beyond the version it sees, and the tables of the    *)
(* revisions it has passed are there.                                      *)
Upward ==
    \A c \in Commands : InTransaction(c) =>
        /\ target[c] = 2 /\ at[c] <= Version(c)
        /\ \A t \in {1, 2} : t <= at[c] => t \in tables
        /\ pc[c] = "stamp" => at[c] + 1 \in tables

(* The tables are those of the version or of the next.                     *)
OneAhead == \A t \in {1, 2} : /\ t <= version => t \in tables
                              /\ t \in tables => t <= version + 1

(* They are of the next while a command is between its DDL and its commit, *)
(* or once one did not come to its commit.                                 *)
Midway(c) == (pc[c] = "stamp" /\ at[c] = version) \/ mine[c].version # Unset
Excused == version + 1 \in tables => broken \/ \E c \in Commands : Midway(c)

AutocommitInv ==
    /\ Typed /\ Bare /\ RowLock /\ Upward /\ OneAhead /\ Excused

Upgrades == Dialect = "mysql" /\ Kinds = {"upgrade"}

LEMMA AutocommitInit == Init => AutocommitInv
<1> SUFFICES ASSUME Init PROVE AutocommitInv
  OBVIOUS
<1>1. Typed /\ version \in {0, 1, 2} /\ tables = (IF version = 0 THEN {} ELSE 0..version)
  BY TypedInit, Revisions DEF Init
<1>2. \A c \in Commands : pc[c] = "new" /\ mine[c] = Nothing
  BY DEF Init
<1>3. \A t \in {1, 2} : t \in tables <=> t <= version
  BY <1>1
<1>4. version + 1 \notin tables
  BY <1>1
<1> QED
  BY <1>1, <1>2, <1>3, <1>4
     DEF AutocommitInv, Bare, RowLock, Upward, OneAhead, Excused, InTransaction, Nothing

(* The end of a command, which may take the version it set with it.        *)
LEMMA Ended ==
    ASSUME AutocommitInv, Typed', NEW c \in Commands, NEW result \in {"ok", "failed", "dead"},
           End(c, result), UNCHANGED <<tables, at, target>>,
           version' \in {version, Version(c)},
           broken' \/ (broken' = broken /\ version' = Version(c) /\ pc[c] = "next")
    PROVE  AutocommitInv'
<1>1. mine'[c] = Nothing /\ mine'[c].version = Unset /\ mine'[c].made = {} /\ mine'[c].dropped = {}
      /\ pc'[c] = result
  BY DEF End, Go, AutocommitInv, Typed, TypeOK, Nothing
<1>2. \A q \in Commands : q # c => mine'[q] = mine[q] /\ pc'[q] = pc[q]
  BY DEF End, Go, AutocommitInv, Typed, TypeOK
<1>3. version \in {0, 1, 2} /\ version' \in {0, 1, 2} /\ \A q \in Commands : at[q] \in {0, 1, 2}
  BY Revisions DEF AutocommitInv, Typed, TypeOK
<1>4. Bare'
  BY <1>1, <1>2 DEF AutocommitInv, Bare
<1>5. CASE mine[c].version = Unset
  <2>1. version' = version
    BY <1>5 DEF Version
  <2>2. RowLock'
    BY <1>1, <1>2, <2>1 DEF AutocommitInv, RowLock
  <2>3. Upward'
    BY <1>1, <1>2, <2>1 DEF AutocommitInv, Upward, InTransaction, Version
  <2>4. OneAhead'
    BY <2>1 DEF AutocommitInv, OneAhead
  <2>5. Excused'
    <3>1. ~broken' => ~Midway(c)
      BY <1>5 DEF Midway
    <3>2. \A q \in Commands : q # c /\ Midway(q) => Midway(q)'
      BY <1>2, <2>1 DEF Midway
    <3> QED  BY <2>1, <3>1, <3>2 DEF AutocommitInv, Excused
  <2> QED  BY <1>4, <2>2, <2>3, <2>4, <2>5 DEF AutocommitInv
<1>6. CASE mine[c].version # Unset
  <2>1. /\ version' \in {version, version + 1} /\ mine[c].version = version + 1
        /\ \A q \in Commands : q # c => mine[q].version = Unset
        /\ at[c] = version + 1 /\ pc[c] = "next"
    BY <1>6 DEF AutocommitInv, RowLock, Version
  <2>2. RowLock'
    BY <1>1, <1>2, <2>1 DEF RowLock
  <2>3. Upward'
    <3> SUFFICES ASSUME NEW q \in Commands, InTransaction(q)'
                 PROVE  /\ target'[q] = 2 /\ at'[q] <= Version(q)'
                        /\ \A t \in {1, 2} : t <= at'[q] => t \in tables'
                        /\ pc'[q] = "stamp" => at'[q] + 1 \in tables'
      BY DEF Upward
    <3>1. q # c
      BY <1>1 DEF InTransaction
    <3>2. Version(q) = version /\ Version(q)' = version'
      BY <1>2, <2>1, <3>1 DEF Version
    <3>3. InTransaction(q) /\ pc'[q] = pc[q]
      BY <1>2, <3>1 DEF InTransaction
    <3> QED  BY <1>3, <2>1, <3>2, <3>3 DEF AutocommitInv, Upward
  <2>4. \A t \in {1, 2} : t <= at[c] => t \in tables
    <3>1. InTransaction(c)
      BY <2>1 DEF InTransaction
    <3> QED  BY <3>1 DEF AutocommitInv, Upward
  <2>a. /\ tables' = tables
        /\ \A t \in {1, 2} : t <= version + 1 => t \in tables
        /\ \A t \in {1, 2} : (t <= version => t \in tables) /\ (t \in tables => t <= version + 1)
    <3>1. \A t \in {1, 2} : (t <= version => t \in tables) /\ (t \in tables => t <= version + 1)
      BY DEF AutocommitInv, OneAhead
    <3> QED  BY <2>1, <2>4, <3>1
  <2>5. OneAhead'
    <3>1. \A t \in {1, 2} : (t <= version' => t \in tables) /\ (t \in tables => t <= version' + 1)
      <4>1. CASE version' = version
        BY <2>a, <4>1
      <4>2. CASE version' = version + 1
        BY <1>3, <2>a, <4>2
      <4> QED  BY <2>1, <4>1, <4>2
    <3> QED  BY <2>a, <3>1 DEF OneAhead
  <2>6. Excused'
    <3>1. CASE broken'
      BY <3>1 DEF Excused
    <3>2. CASE ~broken'
      <4>1. version' = version + 1
        BY <1>6, <2>1, <3>2 DEF Version
      <4>2. tables \subseteq {0, 1, 2}
        BY Revisions DEF AutocommitInv, Typed, TypeOK
      <4>3. version' + 1 \in tables => version' + 1 \in {1, 2}
        BY <1>3, <4>1, <4>2
      <4>4. version' + 1 \notin tables'
        BY <1>3, <2>a, <4>1, <4>3
      <4> QED  BY <4>4 DEF Excused
    <3> QED  BY <3>1, <3>2
  <2> QED  BY <1>4, <2>2, <2>3, <2>5, <2>6 DEF AutocommitInv
<1> QED  BY <1>5, <1>6

LEMMA AutocommitFail ==
    ASSUME AutocommitInv, Typed', NEW c \in Commands, Fail(c)
    PROVE  AutocommitInv'
  BY Ended DEF Fail

(* What a command sees, and whom it waits for.                             *)
LEMMA BareView ==
    ASSUME AutocommitInv, NEW c \in Commands
    PROVE  /\ Tables(c) = tables
           /\ \A q \in Commands : Locks(mine[q].made \cup mine[q].dropped) = {}
           /\ pc[c] # "next" => mine[c].version = Unset /\ Version(c) = version
<1>1. mine[c].made = {} /\ mine[c].dropped = {}
  BY DEF AutocommitInv, Bare
<1>2. \A q \in Commands : mine[q].made \cup mine[q].dropped = {}
  BY DEF AutocommitInv, Bare
<1>3. Locks({}) = {}
  BY DEF Locks
<1> QED  BY <1>1, <1>2, <1>3 DEF Tables, Version, AutocommitInv, RowLock

LEMMA AutocommitStep ==
    ASSUME Upgrades, AutocommitInv, [Next]_vars
    PROVE  AutocommitInv'
<1>0. Typed /\ Typed' /\ Autocommits /\ \A c \in Commands : ~Refused(c)
  BY TypedStep DEF AutocommitInv, Autocommits, Refused, Upgrades
<1>r. /\ version \in {0, 1, 2} /\ version' \in {0, 1, 2} /\ tables \subseteq {0, 1, 2}
      /\ \A q \in Commands : at[q] \in {0, 1, 2} /\ target[q] \in {0, 1, 2}
                             /\ mine[q].version \in {0, 1, 2, Unset}
  BY <1>0, Revisions DEF Typed, TypeOK
<1>1. ASSUME NEW c \in Commands, ReadHeads(c) PROVE AutocommitInv'
  <2>1. kind[c] = "upgrade" /\ mine[c] = Nothing /\ mine[c].version = Unset
    BY <1>0, <1>1 DEF Typed, TypeOK, Upgrades, ReadHeads, Nothing
  <2>2. /\ at' = [at EXCEPT ![c] = version] /\ target' = [target EXCEPT ![c] = 2]
        /\ pc' = [pc EXCEPT ![c] = IF version = 0 THEN "ensure" ELSE "next"]
        /\ UNCHANGED <<tables, version, kind, mine, broken>> /\ pc[c] = "new"
    BY <1>1, <2>1, Revisions DEF ReadHeads, Go
  <2>3. at'[c] = version /\ target'[c] = 2 /\ pc'[c] \in {"ensure", "next"}
    BY <1>0, <2>2 DEF Typed, TypeOK
  <2>4. \A q \in Commands : q # c => pc'[q] = pc[q] /\ at'[q] = at[q] /\ target'[q] = target[q]
    BY <1>0, <2>2 DEF Typed, TypeOK
  <2>5. Bare' /\ OneAhead'
    BY <2>2 DEF AutocommitInv, Bare, OneAhead
  <2>6. RowLock'
    BY <2>1, <2>2, <2>4 DEF AutocommitInv, RowLock
  <2>7. Upward'
    <3>1. Version(c)' = version
      BY <2>1, <2>2 DEF Version
    <3>2. \A q \in Commands : Version(q)' = Version(q)
      BY <2>2 DEF Version
    <3>3. \A t \in {1, 2} : t <= version => t \in tables
      BY DEF AutocommitInv, OneAhead
    <3> QED  BY <1>r, <2>2, <2>3, <2>4, <3>1, <3>2, <3>3 DEF AutocommitInv, Upward, InTransaction
  <2>8. Excused'
    <3>1. \A q \in Commands : Midway(q) => Midway(q)'
      BY <2>1, <2>2, <2>4 DEF Midway
    <3> QED  BY <2>2, <3>1 DEF AutocommitInv, Excused
  <2> QED  BY <1>0, <2>5, <2>6, <2>7, <2>8 DEF AutocommitInv
<1>2. ASSUME NEW c \in Commands, EnsureVersionTable(c) PROVE AutocommitInv'
  <2>1. pc[c] = "ensure" /\ mine[c].version = Unset /\ Version(c) = version /\ Tables(c) = tables
        /\ mine[c].made = {} /\ mine[c].dropped = {}
    BY <1>2, BareView DEF EnsureVersionTable, AutocommitInv, Bare
  <2>2. /\ UNCHANGED <<version, kind, at, target, broken>> /\ tables' \in {tables, tables \cup {0}}
        /\ pc' = [pc EXCEPT ![c] = "next"] /\ mine' \in {mine, [mine EXCEPT ![c] = Nothing]}
    BY <1>0, <1>2, <2>1 DEF EnsureVersionTable, Statement, Go
  <2>3. /\ pc'[c] = "next" /\ mine'[c].version = Unset /\ mine'[c].made = {} /\ mine'[c].dropped = {}
        /\ \A q \in Commands : q # c => pc'[q] = pc[q] /\ mine'[q] = mine[q]
    BY <1>0, <2>1, <2>2 DEF Typed, TypeOK, Nothing
  <2>4. \A t \in {1, 2} : t \in tables' <=> t \in tables
    BY <2>2
  <2>5. \A q \in Commands : Version(q)' = Version(q)
    BY <2>1, <2>2, <2>3 DEF Version
  <2>6. Bare' /\ OneAhead'
    BY <2>2, <2>3, <2>4 DEF AutocommitInv, Bare, OneAhead
  <2>7. RowLock'
    BY <2>2, <2>3 DEF AutocommitInv, RowLock
  <2>8. Upward'
    BY <1>r, <2>1, <2>2, <2>3, <2>4, <2>5 DEF AutocommitInv, Upward, InTransaction
  <2>9. Excused'
    <3>1. \A q \in Commands : Midway(q) => Midway(q)'
      BY <2>1, <2>2, <2>3 DEF Midway
    <3>2. version' + 1 \in tables' => version + 1 \in tables
      BY <1>r, <2>2
    <3> QED  BY <2>2, <3>1, <3>2 DEF AutocommitInv, Excused
  <2> QED  BY <1>0, <2>6, <2>7, <2>8, <2>9 DEF AutocommitInv
<1>3. ASSUME NEW c \in Commands, CreateTable(c) PROVE AutocommitInv'
  <2> DEFINE t == at[c] + 1
             allowed == t \notin Tables(c) /\ References(t) \subseteq Tables(c)
  <2>1. pc[c] = "next" /\ at[c] < target[c] /\ Statement(c, {t}, {}, allowed, "stamp")
    BY <1>3 DEF CreateTable
  <2>2. Tables(c) = tables /\ t \in {1, 2} /\ target[c] = 2
    BY <1>r, <2>1, BareView DEF AutocommitInv, Upward, InTransaction
  <2>3. CASE ~allowed
    <3>1. Persist(c) /\ End(c, "failed") /\ broken' = TRUE /\ UNCHANGED <<kind, at, target>>
      BY <1>0, <2>1, <2>3 DEF Statement
    <3> QED  BY <1>0, <2>2, <3>1, Ended DEF Persist
  <2>4. CASE allowed
    <3>1. /\ tables' = tables \cup {t} /\ version' = Version(c)
          /\ mine' = [mine EXCEPT ![c] = Nothing] /\ pc' = [pc EXCEPT ![c] = "stamp"]
          /\ UNCHANGED <<kind, at, target, broken>>
      BY <1>0, <2>1, <2>2, <2>4 DEF Statement, Go
    <3>2. /\ pc'[c] = "stamp" /\ mine'[c].version = Unset /\ mine'[c].made = {} /\ mine'[c].dropped = {}
          /\ \A q \in Commands : q # c => pc'[q] = pc[q] /\ mine'[q] = mine[q]
      BY <1>0, <3>1 DEF Typed, TypeOK, Nothing
    <3>3. t \notin tables
      BY <2>2, <2>4
    <3>4. \A u \in {1, 2} : u <= at[c] => u \in tables
      BY <2>1 DEF AutocommitInv, Upward, InTransaction
    <3>5. at[c] <= Version(c)
      BY <2>1 DEF AutocommitInv, Upward, InTransaction
    <3>6. /\ version' = at[c]
          /\ version' = version \/ \A q \in Commands : q # c => mine[q].version = Unset
          /\ version <= version'
      <4>1. CASE mine[c].version = Unset
        <5>1. version' = version
          BY <3>1, <4>1 DEF Version
        <5>2. ~(t <= version)
          BY <2>2, <3>3 DEF AutocommitInv, OneAhead
        <5> QED  BY <1>r, <3>1, <3>5, <5>1, <5>2
      <4>2. CASE mine[c].version # Unset
        <5>1. mine[c].version = at[c] /\ at[c] = version + 1 /\ version' = at[c]
          BY <3>1, <4>2 DEF Version, AutocommitInv, RowLock
        <5>2. \A q \in Commands : q # c => mine[q].version = Unset
          BY <4>2 DEF AutocommitInv, RowLock
        <5> QED  BY <1>r, <5>1, <5>2
      <4> QED  BY <4>1, <4>2
    <3>7. Bare'
      BY <3>2 DEF AutocommitInv, Bare
    <3>8. RowLock'
      BY <3>1, <3>2, <3>6 DEF AutocommitInv, RowLock
    <3>9. Upward'
      <4> SUFFICES ASSUME NEW q \in Commands, InTransaction(q)'
                   PROVE  /\ target'[q] = 2 /\ at'[q] <= Version(q)'
                          /\ \A u \in {1, 2} : u <= at'[q] => u \in tables'
                          /\ pc'[q] = "stamp" => at'[q] + 1 \in tables'
        BY DEF Upward
      <4>1. CASE q = c
        <5>1. Version(q)' = version'
          BY <3>2, <4>1 DEF Version
        <5> QED  BY <1>r, <2>2, <3>1, <3>4, <3>6, <4>1, <5>1
      <4>2. CASE q # c
        <5>1. InTransaction(q) /\ pc'[q] = pc[q] /\ mine'[q] = mine[q]
          BY <3>2, <4>2 DEF InTransaction
        <5>2. Version(q) <= Version(q)' /\ Version(q) \in {0, 1, 2} /\ Version(q)' \in {0, 1, 2}
          BY <1>r, <3>6, <4>2, <5>1 DEF Version
        <5> QED  BY <1>r, <3>1, <5>1, <5>2 DEF AutocommitInv, Upward
      <4> QED  BY <4>1, <4>2
    <3>10. OneAhead'
      BY <1>r, <2>2, <3>1, <3>3, <3>4, <3>6 DEF AutocommitInv, OneAhead
    <3>11. Midway(c)'
      BY <3>1, <3>2, <3>6 DEF Midway
    <3>12. Excused'
      BY <3>11 DEF Excused
    <3> QED  BY <1>0, <3>7, <3>8, <3>9, <3>10, <3>12 DEF AutocommitInv
  <2> QED  BY <2>3, <2>4
<1>4. ASSUME NEW c \in Commands, DropTable(c) PROVE AutocommitInv'
  <2>1. target[c] = 2 /\ at[c] > target[c]
    BY <1>4 DEF DropTable, AutocommitInv, Upward, InTransaction
  <2> QED  BY <1>r, <2>1
<1>5. ASSUME NEW c \in Commands, Stamp(c) PROVE AutocommitInv'
  <2>1. CASE Fail(c)
    BY <1>0, <2>1, AutocommitFail
  <2>2. CASE ~Fail(c)
    <3>1. /\ mine' = [mine EXCEPT ![c].version = Toward(c)]
          /\ at' = [at EXCEPT ![c] = Toward(c)]
          /\ pc[c] = "stamp" /\ pc' = [pc EXCEPT ![c] = "next"]
          /\ UNCHANGED <<tables, version, kind, target, broken>>
          /\ ~Waits(c, {}) /\ Version(c) = at[c]
      BY <1>5, <2>2 DEF Stamp, Go
    <3>2. /\ mine'[c].made = {} /\ mine'[c].dropped = {}
          /\ mine'[c].version = Toward(c) /\ at'[c] = Toward(c) /\ pc'[c] = "next"
          /\ \A q \in Commands : q # c => mine'[q] = mine[q] /\ pc'[q] = pc[q] /\ at'[q] = at[q]
      BY <1>0, <3>1 DEF Typed, TypeOK, AutocommitInv, Bare
    <3>3. mine[c].version = Unset /\ at[c] = version
      BY <3>1, BareView
    <3>4. at[c] + 1 \in tables /\ target[c] = 2 /\ at[c] # target[c]
          /\ \A t \in {1, 2} : t <= at[c] => t \in tables
      BY <1>0, <3>1 DEF AutocommitInv, Upward, InTransaction, Typed, Directed
    <3>5. Toward(c) = version + 1 /\ version + 1 \in {1, 2} /\ Toward(c) # Unset
      BY <1>r, <3>3, <3>4 DEF Toward, Unset
    <3>6. \A q \in Commands : q # c => mine[q].version = Unset
      BY <3>1 DEF Waits, Others
    <3>7. Bare' /\ OneAhead'
      BY <3>1, <3>2 DEF AutocommitInv, Bare, OneAhead
    <3>8. RowLock'
      BY <3>1, <3>2, <3>5, <3>6 DEF RowLock
    <3>9. Upward'
      <4>1. Version(c)' = version + 1 /\ at'[c] = version + 1
        BY <3>1, <3>2, <3>5 DEF Version
      <4>2. \A q \in Commands : q # c => Version(q)' = Version(q)
        BY <3>1, <3>2 DEF Version
      <4>3. \A t \in {1, 2} : t <= version + 1 => t \in tables
        BY <1>r, <3>3, <3>4
      <4> QED  BY <1>r, <3>1, <3>2, <3>4, <4>1, <4>2, <4>3 DEF AutocommitInv, Upward, InTransaction
    <3>10. Excused'
      BY <3>2, <3>5 DEF Excused, Midway
    <3> QED  BY <1>0, <3>7, <3>8, <3>9, <3>10 DEF AutocommitInv
  <2> QED  BY <2>1, <2>2
<1>6. ASSUME NEW c \in Commands, Commit(c) PROVE AutocommitInv'
  <2>1. tables' = tables /\ version' = Version(c)
    BY <1>6, BareView DEF Commit, Persist
  <2> QED  BY <1>0, <1>6, <2>1, Ended DEF Commit
<1>7. ASSUME NEW c \in Commands, NEW result \in {"failed", "dead"}, Interrupt(c, result) PROVE AutocommitInv'
  <2>1. tables' = tables /\ version' \in {version, Version(c)}
    BY <1>7, BareView DEF Interrupt, Persist
  <2> QED  BY <1>0, <1>7, <2>1, Ended DEF Interrupt
<1>8. CASE UNCHANGED vars
  <2>1. UNCHANGED <<tables, version, pc, kind, at, target, mine, broken>>
    BY <1>8 DEF vars
  <2> QED
    BY <1>0, <2>1 DEF AutocommitInv, Bare, RowLock, Upward, OneAhead, Excused, Midway, InTransaction, Version
<1> QED  BY <1>1, <1>2, <1>3, <1>4, <1>5, <1>6, <1>7, <1>8 DEF Next, Proceed, Error, Kill

LEMMA AutocommitDone ==
    ASSUME Upgrades, AutocommitInv, [Next]_vars
    PROVE  DoneIsTarget
<1> SUFFICES ASSUME NEW c \in Commands, pc[c] = "next", pc'[c] = "ok", Writing(c)
             PROVE  version' = target[c] /\ tables' \ {0} = 1..target[c]
  BY DEF DoneIsTarget
<1>1. Commit(c)
  BY OnlyCommit DEF AutocommitInv
<1>2. mine[c].version # Unset
  <2>1. mine[c] \in [made : SUBSET Revision, dropped : SUBSET Revision, version : Revision \cup {Unset}]
    BY DEF AutocommitInv, Typed, TypeOK
  <2>2. mine[c].made = {} /\ mine[c].dropped = {}
    BY DEF AutocommitInv, Bare
  <2> QED  BY <2>1, <2>2 DEF Writing, Nothing
<1>3. version' = at[c] /\ tables' = tables /\ at[c] = target[c]
  BY <1>1, <1>2, BareView DEF Commit, Persist, Version, AutocommitInv, RowLock
<1>4. target[c] = 2 /\ \A t \in {1, 2} : t <= at[c] => t \in tables
  BY DEF AutocommitInv, Upward, InTransaction
<1>5. tables \ {0} = {1, 2}
  <2>1. tables \subseteq {0, 1, 2}
    BY Revisions DEF AutocommitInv, Typed, TypeOK
  <2>2. at[c] = 2
    BY <1>3, <1>4
  <2>3. 1 \in tables /\ 2 \in tables
    BY <1>4, <2>2
  <2>4. tables \ {0} \subseteq {1, 2}
    BY <2>1
  <2>5. {1, 2} \subseteq tables \ {0}
    BY <2>3
  <2> QED  BY <2>4, <2>5, Zenon
<1> QED  BY <1>3, <1>4, <1>5, Revisions

LEMMA AutocommitMeans == AutocommitInv => TypeOK /\ OneStepApart
<1> SUFFICES ASSUME AutocommitInv PROVE OneStepApart
  BY DEF AutocommitInv, Typed
<1>1. version \in {0, 1, 2} /\ tables \subseteq {0, 1, 2}
  BY Revisions DEF AutocommitInv, Typed, TypeOK
<1>2. /\ 1 <= version => 1 \in tables
      /\ 2 <= version => 2 \in tables
      /\ 2 \in tables => 2 <= version + 1
  BY DEF AutocommitInv, OneAhead
<1>3. 1..0 = {} /\ 1..1 = {1} /\ 1..2 = {1, 2} /\ Revision = {0, 1, 2}
  BY Revisions
<1>4. CASE version + 1 \in tables
  <2>1. (version = 0 /\ tables \ {0} = 1..1) \/ (version = 1 /\ tables \ {0} = 1..2)
    <3>1. CASE version = 0
      <4>1. 1 \in tables /\ 2 \notin tables
        BY <1>2, <1>4, <3>1
      <4> QED  BY <1>1, <1>3, <3>1, <4>1
    <3>2. CASE version = 1
      <4>1. 1 \in tables /\ 2 \in tables
        BY <1>2, <1>4, <3>2
      <4> QED  BY <1>1, <1>3, <3>2, <4>1
    <3>3. version # 2
      BY <1>1, <1>4
    <3> QED  BY <1>1, <3>1, <3>2, <3>3
  <2>2. \E v \in Revision : Stamped(v) /\ v - version \in -1..1
    <3>1. CASE version = 0 /\ tables \ {0} = 1..1
      <4>1. 1 \in Revision /\ Stamped(1) /\ 1 - version \in -1..1
        BY <1>3, <3>1 DEF Stamped
      <4> QED  BY <4>1
    <3>2. CASE version = 1 /\ tables \ {0} = 1..2
      <4>1. 2 \in Revision /\ Stamped(2) /\ 2 - version \in -1..1
        BY <1>3, <3>2 DEF Stamped
      <4> QED  BY <4>1
    <3> QED  BY <2>1, <3>1, <3>2
  <2>3. broken \/ \E c \in Commands : InTransaction(c)
    BY <1>4 DEF AutocommitInv, Excused, Midway, RowLock, InTransaction
  <2> QED  BY <2>2, <2>3 DEF OneStepApart
<1>5. CASE version + 1 \notin tables
  <2>1. tables \ {0} = 1..version
    <3>1. CASE version = 0
      <4>1. 1 \notin tables /\ 2 \notin tables
        BY <1>2, <1>5, <3>1
      <4> QED  BY <1>1, <1>3, <3>1, <4>1
    <3>2. CASE version = 1
      <4>1. 1 \in tables /\ 2 \notin tables
        BY <1>2, <1>5, <3>2
      <4> QED  BY <1>1, <1>3, <3>2, <4>1
    <3>3. CASE version = 2
      <4>1. 1 \in tables /\ 2 \in tables
        BY <1>2, <3>3
      <4> QED  BY <1>1, <1>3, <3>3, <4>1
    <3> QED  BY <1>1, <3>1, <3>2, <3>3
  <2>2. version \in Revision /\ Stamped(version) /\ version - version \in -1..1
    BY <1>1, <1>3, <2>1 DEF Stamped
  <2> QED  BY <2>2 DEF OneStepApart
<1> QED  BY <1>4, <1>5
=============================================================================
