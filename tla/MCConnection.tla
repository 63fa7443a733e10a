---------------------------- MODULE MCConnection ----------------------------
(* Bodies, buffers and sockets of up to two units; two requests. *)
EXTENDS Connection
=============================================================================
