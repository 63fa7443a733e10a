------------------------------ MODULE MCServer ------------------------------
(* Three clients of two listeners; a reload lowers the cap.                   *)
EXTENDS Server

MCCaps == <<2, 1>>
=============================================================================
