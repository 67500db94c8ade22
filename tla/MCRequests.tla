----------------------------- MODULE MCRequests -----------------------------
(***************************************************************************)
(* Requests for TLC: two logins, a bearer and a refresh over ids that are  *)
(* given again; three logins of one address, whose token is refilled in    *)
(* three ticks; a response whose route, send and log may fail; a pool of   *)
(* two connections beside requests that hang and a database that restarts; *)
(* walks through the users by pages of two.                                *)
(***************************************************************************)
EXTENDS Requests

(* A request of each of three kinds. *)
KindOf == [r \in PoolRequests |-> r]
=============================================================================
