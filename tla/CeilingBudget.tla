---------------------------- MODULE CeilingBudget ----------------------------
(***************************************************************************)
(* What the aggregate body-memory budget promises, without its             *)
(* compare-and-swap loop: every worker owns a set of charged bytes, charges*)
(* and releases are atomic, and no charge takes the total past the highest *)
(* limit the operator has ever configured.                                 *)
(***************************************************************************)
EXTENDS Naturals

CONSTANTS
    Workers,
    Total(_)    \* the number of bytes in a function from workers to bytes

VARIABLES
    owned,      \* owned[w]: the bytes charged to worker w
    ceiling     \* the highest limit configured so far

absVars == <<owned, ceiling>>

AbsInit ==
    /\ owned = [w \in Workers |-> 0]
    /\ ceiling \in Nat

Charge(w) ==
    /\ owned'[w] \in Nat /\ owned'[w] >= owned[w]
    /\ owned' = [owned EXCEPT ![w] = owned'[w]]
    /\ Total(owned') <= ceiling
    /\ UNCHANGED ceiling

Release(w) ==
    /\ owned'[w] \in 0 .. owned[w]
    /\ owned' = [owned EXCEPT ![w] = owned'[w]]
    /\ UNCHANGED ceiling

Raise ==
    /\ ceiling' \in Nat /\ ceiling' > ceiling
    /\ UNCHANGED owned

AbsNext == Raise \/ \E w \in Workers : Charge(w) \/ Release(w)

AbsSpec == AbsInit /\ [][AbsNext]_absVars
=============================================================================
