------------------------------ MODULE MCUpload ------------------------------
(***************************************************************************)
(* Instances of Upload for TLC.  Three requests on two connections let a   *)
(* chunk be asked for while the task of an earlier one has not ended.      *)
(***************************************************************************)
EXTENDS Upload

CONSTANTS k1, k2
=============================================================================
