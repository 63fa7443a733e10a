--------------------------- MODULE MCMemoryBudget ---------------------------
(* MemoryBudget with three workers and a usize that a sum can overflow. *)
EXTENDS MemoryBudget, TLC

Symmetry == Permutations(Workers)
=============================================================================
