------------------------------ MODULE MCBuffer ------------------------------
(***************************************************************************)
(* Buffer for TLC.  The vector is small enough to be grown, filled and     *)
(* compacted several times before MaxBytes bytes have gone in.             *)
(***************************************************************************)
EXTENDS Buffer
=============================================================================
