-------------------------- MODULE MCLiveComposition --------------------------
(* LiveComposition on small bounds. *)
EXTENDS LiveComposition
=============================================================================
