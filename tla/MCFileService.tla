--------------------------- MODULE MCFileService ----------------------------
(***************************************************************************)
(* Small instances of the file component for TLC.  Every request is a      *)
(* model value of its own, because requests differ in what they were sent  *)
(* with; so no symmetry is declared.                                       *)
(***************************************************************************)
EXTENDS FileGuarantees, FiniteSets

(* An upload inserts at most once: the bound on file ids never stops one. *)
ASSUME FileIdsSuffice == Cardinality(Uploads) <= MaxFiles
=============================================================================
