-------------------------- MODULE MCAccountsProofs --------------------------
(***************************************************************************)
(* The theorems of AccountsProofs, for the instances the run is made of.   *)
(***************************************************************************)
EXTENDS MCAccounts, TLAPS

(* Each instance keeps its own inductive invariant. *)
Inv ==
    /\ part \in {"lite", "server", "litePatches", "patches", "creations", "purge"}
    /\ part = "lite" => Lite!AccountsInv
    /\ part = "server" => Server!AccountsInv
    /\ part = "litePatches" => LitePatches!AccountsInv
    /\ part = "patches" => Patches!AccountsInv
    /\ part = "creations" => Creations!AccountsInv
    /\ part = "purge" => Purge!AccountsInv

LEMMA Bounded ==
    /\ Lite!Parameters /\ Server!Parameters /\ LitePatches!Parameters
    /\ Patches!Parameters /\ Creations!Parameters /\ Purge!Parameters
  BY OfOneKind DEF Lite!Parameters, Server!Parameters, LitePatches!Parameters,
     Patches!Parameters, Creations!Parameters, Purge!Parameters

LEMMA Started == Init => Inv
  BY Bounded, Lite!InitialInv, Server!InitialInv, LitePatches!InitialInv,
     Patches!InitialInv, Creations!InitialInv, Purge!InitialInv DEF Init, Inv

(* One step of the run is a step of one instance, or of none. *)
LEMMA StepsAre ==
  ASSUME [Next]_vars
  PROVE  /\ part' = part
         /\ part = "lite" => [Lite!Next]_(Lite!vars)
         /\ part = "server" => [Server!Next]_(Server!vars)
         /\ part = "litePatches" => [LitePatches!Next]_(LitePatches!vars)
         /\ part = "patches" => [Patches!Next]_(Patches!vars)
         /\ part = "creations" => [Creations!Next]_(Creations!vars)
         /\ part = "purge" => [Purge!Next]_(Purge!vars)
<1>1. CASE Next
  BY <1>1 DEF Next
<1>2. CASE UNCHANGED vars
  BY <1>2 DEF vars, Lite!vars, Server!vars, LitePatches!vars, Patches!vars,
     Creations!vars, Purge!vars
<1> QED
  BY <1>1, <1>2

LEMMA Kept == Inv /\ [Next]_vars => Inv'
  BY Bounded, StepsAre, Lite!InvKept, Server!InvKept, LitePatches!InvKept,
     Patches!InvKept, Creations!InvKept, Purge!InvKept DEF Inv

LEMMA Always == Spec => []Inv
  BY Started, Kept, PTL DEF Spec

-----------------------------------------------------------------------------
(* Every instance keeps the types of its tables and requests. *)
THEOREM TypesHold == Spec => []TypeOK
<1>1. Inv => TypeOK
  BY DEF TypeOK, Inv, Lite!AccountsInv, Server!AccountsInv,
     LitePatches!AccountsInv, Patches!AccountsInv, Creations!AccountsInv,
     Purge!AccountsInv
<1> QED
  BY <1>1, Always, PTL

(* In every instance names and addresses stay distinct, whatever races     *)
(* between the checks and the writes of create_user and update_user.       *)
THEOREM DistinctHolds == Spec => []AccountsDistinct
<1>1. Inv => AccountsDistinct
  BY DEF AccountsDistinct, Inv, Lite!AccountsInv, Server!AccountsInv,
     LitePatches!AccountsInv, Patches!AccountsInv, Creations!AccountsInv,
     Purge!AccountsInv
<1> QED
  BY <1>1, Always, PTL

(* In every instance what a request was told is true: a 201 stays until a  *)
(* DELETE, and on SQLite a 200 is what the table holds and a 409 has a     *)
(* rival (update_user, _write).                                            *)
THEOREM AnswersHold == Spec => AnswersAreTrue
<1> DEFINE Kept201 == CASE part = "lite" -> Lite!CreatedIsKept
                        [] part = "creations" -> Creations!CreatedIsKept
                        [] OTHER -> TRUE
           Exact == CASE part = "lite" -> Lite!PatchIsExact /\ Lite!ConflictIsReal
                      [] part = "litePatches" ->
                           LitePatches!PatchIsExact /\ LitePatches!ConflictIsReal
                      [] OTHER -> TRUE
<1>1. Inv => Kept201
  BY DEF Inv, Lite!AccountsInv, Creations!AccountsInv
<1>2. ASSUME Inv, [Next]_vars PROVE Exact
  <2>1. CASE part = "lite"
    BY <1>2, <2>1, Bounded, StepsAre, Lite!ExactStep, Lite!ConflictStep DEF Inv
  <2>2. CASE part = "litePatches"
    BY <1>2, <2>2, Bounded, StepsAre, LitePatches!ExactStep, LitePatches!ConflictStep DEF Inv
  <2> QED
    BY <2>1, <2>2
<1>3. []Inv /\ [][Next]_vars => []Kept201 /\ [][Exact]_vars
  BY <1>1, <1>2, PTL
<1> QED
  BY <1>3, Always DEF Spec, AnswersAreTrue

(* In every instance of PATCHes beside other requests, update_user leaves  *)
(* the fields its request did not provide as they are.                     *)
THEOREM ProvidedHolds == Spec => OnlyProvided
<1> DEFINE Only == CASE part = "litePatches" -> LitePatches!OnlyProvided
                     [] part = "patches" -> Patches!OnlyProvided
                     [] part = "server" -> Server!OnlyProvided
                     [] OTHER -> TRUE
<1>1. ASSUME Inv, [Next]_vars PROVE Only
  BY <1>1, Bounded, StepsAre, LitePatches!PatchStep, Patches!PatchStep, Server!PatchStep DEF Inv
<1>2. []Inv /\ [][Next]_vars => [][Only]_vars
  BY <1>1, PTL
<1> QED
  BY <1>2, Always DEF Spec, OnlyProvided

(* In every instance with several DELETEs, the last administrator goes by  *)
(* one whose own account was deleted after its authentication.             *)
THEOREM LastHolds == Spec => LastByStale
<1> DEFINE Last == CASE part = "purge" -> Purge!LastByStale
                     [] part = "creations" -> Creations!LastByStale
                     [] OTHER -> TRUE
<1>1. ASSUME Inv, [Next]_vars PROVE Last
  BY <1>1, Bounded, StepsAre, Purge!LastStep, Creations!LastStep DEF Inv
<1>2. []Inv /\ [][Next]_vars => [][Last]_vars
  BY <1>1, PTL
<1> QED
  BY <1>2, Always DEF Spec, LastByStale
=============================================================================
