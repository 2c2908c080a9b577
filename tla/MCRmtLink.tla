------------------------------ MODULE MCRmtLink -------------------------------
(* The instance of RmtLink that TLC checks. *)
EXTENDS RmtLink
=============================================================================
