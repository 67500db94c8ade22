---------------------------- MODULE FileRequests ----------------------------
(***************************************************************************)
(* The requests of one run of the file component, and the faults its       *)
(* environment may show.  A request is served once: an upload, a delete or *)
(* a download (app/modules/file/router.py).                                *)
(*                                                                         *)
(* An upload draws its object key with uuid4().hex; the model names the    *)
(* key after the upload that drew it, so Uploads is also the set of object *)
(* keys and two uploads never share one.                                   *)
(***************************************************************************)
EXTENDS Naturals

CONSTANTS
    Uploads,      \* POST /files requests; also the object keys they draw
    Deletes,      \* DELETE /files/{id} requests
    Downloads,    \* GET /files/{id}/download requests
    NoKey,        \* the key of an empty row
    Faults,       \* subset of {"storage", "database", "crash"}
    MaxCancels    \* cancellations the server delivers to one request

Request == Uploads \cup Deletes \cup Downloads

ASSUME RequestsDisjoint ==
    /\ Uploads \cap Deletes = {}
    /\ Uploads \cap Downloads = {}
    /\ Deletes \cap Downloads = {}

ASSUME NoKeyIsNoUpload == NoKey \notin Uploads

ASSUME MaxCancelsIsNat == MaxCancels \in Nat
=============================================================================
