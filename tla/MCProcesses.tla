---------------------------- MODULE MCProcesses -----------------------------
(***************************************************************************)
(* Processes for TLC: three lives of an application with everything        *)
(* configured; one task on two workers with every retry, and two tasks on  *)
(* one; two files over every backend; a diagnosis of all checks but one;   *)
(* three migrations at once on each dialect; every combination of          *)
(* settings.                                                               *)
(***************************************************************************)
EXTENDS Processes
=============================================================================
