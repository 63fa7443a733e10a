----------------------------- MODULE MCAgreement -----------------------------
(* A registry of two functions. *)
EXTENDS Agreement

\* Three entries for f and two for g, interleaved: only the width 2 can be met.
MCImplements == <<"f", "g", "f", "f", "g">>
=============================================================================
