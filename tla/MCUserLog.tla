----------------------------- MODULE MCUserLog -----------------------------
(***************************************************************************)
(* The instance of UserLog that TLC checks.                                *)
(***************************************************************************)
EXTENDS UserLog
=============================================================================
