----------------------------- MODULE MCAccounts -----------------------------
(***************************************************************************)
(* Instances of Accounts for TLC.  part says which of them a behaviour is  *)
(* of: the choices of requests and dialect whose races differ.  Requests   *)
(* of one kind differ only in what they choose on arrival; the PATCHes,    *)
(* which choose the most, are symmetric.                                   *)
(***************************************************************************)
EXTENDS TLC

CONSTANTS c1, c2, u1, u2, d1, d2, d3

ASSUME OfOneKind ==
    {c1, c2} \cap {u1, u2, d1, d2, d3} = {} /\ {u1, u2} \cap {d1, d2, d3} = {}

VARIABLES part, rows, seq, pc, actor, ask, target, seen

vars == <<part, rows, seq, pc, actor, ask, target, seen>>
Symmetry == Permutations({u1, u2})

(* A creation, a PATCH and a DELETE, on SQLite and on a server. *)
Lite == INSTANCE AccountsProofs WITH Creates <- {c1}, Updates <- {u1}, Deletes <- {d1},
          Sqlite <- TRUE, Admins <- 1, Users <- 2,
          MaxName <- 3, MaxEmail <- 0, MaxId <- 3, Faults <- {}
Server == INSTANCE AccountsProofs WITH Creates <- {c1}, Updates <- {u1}, Deletes <- {d1},
            Sqlite <- FALSE, Admins <- 1, Users <- 2,
            MaxName <- 3, MaxEmail <- 0, MaxId <- 3, Faults <- {}

(* Two PATCHes, on SQLite and at READ COMMITTED. *)
LitePatches == INSTANCE AccountsProofs WITH Creates <- {}, Updates <- {u1, u2}, Deletes <- {},
                 Sqlite <- TRUE, Admins <- 1, Users <- 2,
                 MaxName <- 3, MaxEmail <- 1, MaxId <- 2, Faults <- {}
Patches == INSTANCE AccountsProofs WITH Creates <- {}, Updates <- {u1, u2}, Deletes <- {},
             Sqlite <- FALSE, Admins <- 1, Users <- 2,
             MaxName <- 3, MaxEmail <- 1, MaxId <- 2, Faults <- {}

(* Two creations and a DELETE on a server whose commits may fail. *)
Creations == INSTANCE AccountsProofs WITH Creates <- {c1, c2}, Updates <- {}, Deletes <- {d1},
               Sqlite <- FALSE, Admins <- 1, Users <- 2,
               MaxName <- 3, MaxEmail <- 1, MaxId <- 4, Faults <- {"database"}

(* A creation and three DELETEs by two administrators. *)
Purge == INSTANCE AccountsProofs WITH Creates <- {c1}, Updates <- {}, Deletes <- {d1, d2, d3},
           Sqlite <- FALSE, Admins <- 2, Users <- 2,
           MaxName <- 3, MaxEmail <- 0, MaxId <- 3, Faults <- {}

Init ==
    \/ part = "lite" /\ Lite!Init
    \/ part = "server" /\ Server!Init
    \/ part = "litePatches" /\ LitePatches!Init
    \/ part = "patches" /\ Patches!Init
    \/ part = "creations" /\ Creations!Init
    \/ part = "purge" /\ Purge!Init

Next ==
    \/ part = "lite" /\ Lite!Next /\ UNCHANGED part
    \/ part = "server" /\ Server!Next /\ UNCHANGED part
    \/ part = "litePatches" /\ LitePatches!Next /\ UNCHANGED part
    \/ part = "patches" /\ Patches!Next /\ UNCHANGED part
    \/ part = "creations" /\ Creations!Next /\ UNCHANGED part
    \/ part = "purge" /\ Purge!Next /\ UNCHANGED part

Spec == Init /\ [][Next]_vars

-----------------------------------------------------------------------------
(* Types, in each instance. *)
TypeOK ==
    CASE part = "lite" -> Lite!TypeOK
      [] part = "server" -> Server!TypeOK
      [] part = "litePatches" -> LitePatches!TypeOK
      [] part = "patches" -> Patches!TypeOK
      [] part = "creations" -> Creations!TypeOK
      [] part = "purge" -> Purge!TypeOK

(* No two accounts share a name or an address: the checks of create_user   *)
(* and update_user race, and only the constraints behind them decide.      *)
AccountsDistinct ==
    CASE part = "lite" -> Lite!AccountsDistinct
      [] part = "server" -> Server!AccountsDistinct
      [] part = "litePatches" -> LitePatches!AccountsDistinct
      [] part = "patches" -> Patches!AccountsDistinct
      [] part = "creations" -> Creations!AccountsDistinct
      [] OTHER -> TRUE

(* What a request was told is true.  A 201 stays until a DELETE of its id; *)
(* on SQLite a 200 of update_user is what the table then holds, and a 409  *)
(* names an account that has the value (_write's IntegrityError).          *)
AnswersAreTrue ==
    /\ [](CASE part = "lite" -> Lite!CreatedIsKept
           [] part = "creations" -> Creations!CreatedIsKept
           [] OTHER -> TRUE)
    /\ [][CASE part = "lite" -> Lite!PatchIsExact /\ Lite!ConflictIsReal
            [] part = "litePatches" -> LitePatches!PatchIsExact /\ LitePatches!ConflictIsReal
            [] OTHER -> TRUE]_vars

(* A PATCH (update_user's UPDATE of what changed) leaves the fields it did *)
(* not provide as they are, whoever else changes the account meanwhile.    *)
OnlyProvided ==
    [][CASE part = "litePatches" -> LitePatches!OnlyProvided
         [] part = "patches" -> Patches!OnlyProvided
         [] part = "server" -> Server!OnlyProvided
         [] OTHER -> TRUE]_vars

(* The last administrator goes only by the request of one who was deleted  *)
(* after it was authenticated (the self-delete rule of delete_user).       *)
LastByStale ==
    [][CASE part = "purge" -> Purge!LastByStale
         [] part = "creations" -> Creations!LastByStale
         [] OTHER -> TRUE]_vars
=============================================================================
