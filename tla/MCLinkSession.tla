---------------------------- MODULE MCLinkSession ----------------------------
(* The instances of LinkSession that TLC checks. *)
EXTENDS LinkSession
=============================================================================
