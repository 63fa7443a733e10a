-------------------------- MODULE MemoryBudgetProofs --------------------------
(***************************************************************************)
(* For any number of workers, any sizes and any limits: used is the sum of *)
(* the live permits, no sum passes the highest limit, and the loop         *)
(* implements CeilingBudget.                                               *)
(***************************************************************************)
EXTENDS MemoryBudget, FiniteSetTheorems, TLAPS

-----------------------------------------------------------------------------
(* Counting bytes: changing one worker's share changes the total by as     *)
(* much.                                                                   *)

LEMMA PairCardinality ==
    ASSUME NEW w, NEW n \in Nat
    PROVE  /\ IsFiniteSet({w} \X (1 .. n))
           /\ Cardinality({w} \X (1 .. n)) = n
<1>1. IsFiniteSet({w}) /\ Cardinality({w}) = 1
  BY FS_Singleton
<1>2. IsFiniteSet(1 .. n) /\ Cardinality(1 .. n) = n
  BY FS_Interval
<1>3. /\ IsFiniteSet({w} \X (1 .. n))
      /\ Cardinality({w} \X (1 .. n)) = Cardinality({w}) * Cardinality(1 .. n)
  BY <1>1, <1>2, FS_Product
<1>4. QED
  BY <1>1, <1>2, <1>3

LEMMA OwnedFinite ==
    ASSUME NEW B \in Nat, NEW f \in [Workers -> 0 .. B]
    PROVE  IsFiniteSet(OwnedBytes(f))
<1>1. IsFiniteSet(Workers \X (0 .. B))
  <2>1. IsFiniteSet(0 .. B)
    BY FS_Interval
  <2>2. QED
    BY <2>1, BudgetAssumption, FS_Product
<1>2. OwnedBytes(f) \subseteq Workers \X (0 .. B)
  BY DEF OwnedBytes
<1>3. QED
  BY <1>1, <1>2, FS_Subset

LEMMA TotalUpdate ==
    ASSUME NEW B \in Nat, NEW f \in [Workers -> 0 .. B],
           NEW g \in [Workers -> 0 .. B], NEW w \in Workers,
           g = [f EXCEPT ![w] = g[w]]
    PROVE  /\ Total(f) \in Nat /\ Total(g) \in Nat
           /\ Total(g) = Total(f) - f[w] + g[w]
           /\ f[w] <= Total(f)
<1> DEFINE MineF == {w} \X (1 .. f[w])
           MineG == {w} \X (1 .. g[w])
           Rest == OwnedBytes(f) \ MineF
<1>0. f[w] \in Nat /\ g[w] \in Nat
  OBVIOUS
<1>1. IsFiniteSet(OwnedBytes(f)) /\ IsFiniteSet(OwnedBytes(g))
  BY OwnedFinite
<1>2. IsFiniteSet(Rest)
  BY <1>1, FS_Difference
<1>3. OwnedBytes(f) = Rest \cup MineF /\ Rest \cap MineF = {}
  BY DEF OwnedBytes
<1>4. OwnedBytes(g) = Rest \cup MineG /\ Rest \cap MineG = {}
  <2>1. \A p \in Rest : \E v \in Workers \ {w} : p \in {v} \X (1 .. f[v])
    BY DEF OwnedBytes
  <2>2. \A v \in Workers \ {w} : {v} \X (1 .. f[v]) \subseteq Rest
    BY DEF OwnedBytes
  <2>3. \A v \in Workers \ {w} : g[v] = f[v]
    OBVIOUS
  <2>4. OwnedBytes(g) \subseteq Rest \cup MineG
    BY <2>2, <2>3 DEF OwnedBytes
  <2>5. Rest \cup MineG \subseteq OwnedBytes(g)
    BY <2>1, <2>3 DEF OwnedBytes
  <2>6. Rest \cap MineG = {}
    BY <2>1
  <2>7. QED
    BY <2>4, <2>5, <2>6
<1>5. /\ IsFiniteSet(MineF) /\ Cardinality(MineF) = f[w]
      /\ IsFiniteSet(MineG) /\ Cardinality(MineG) = g[w]
  BY <1>0, PairCardinality
<1>6. Cardinality(Rest) \in Nat
  BY <1>2, FS_CardinalityType
<1> HIDE DEF MineF, MineG, Rest
<1>7. Cardinality({}) = 0
  BY FS_EmptySet
<1>8. Total(f) = Cardinality(Rest) + f[w]
  <2>1. Cardinality(Rest \cup MineF)
          = Cardinality(Rest) + Cardinality(MineF) - Cardinality(Rest \cap MineF)
    BY <1>2, <1>5, FS_Union
  <2>2. Total(f) = Cardinality(Rest \cup MineF)
    BY <1>3 DEF Total
  <2>3. Cardinality(Rest \cap MineF) = 0
    BY <1>3, <1>7
  <2>4. QED
    BY <2>1, <2>2, <2>3, <1>0, <1>5, <1>6
<1>9. Total(g) = Cardinality(Rest) + g[w]
  <2>1. Cardinality(Rest \cup MineG)
          = Cardinality(Rest) + Cardinality(MineG) - Cardinality(Rest \cap MineG)
    BY <1>2, <1>5, FS_Union
  <2>2. Total(g) = Cardinality(Rest \cup MineG)
    BY <1>4 DEF Total
  <2>3. Cardinality(Rest \cap MineG) = 0
    BY <1>4, <1>7
  <2>4. QED
    BY <2>1, <2>2, <2>3, <1>0, <1>5, <1>6
<1>10. QED
  BY <1>6, <1>8, <1>9

-----------------------------------------------------------------------------
(* The budget is charged by one worker at a time: what a step that touches *)
(* only worker w does to the total.                                        *)

LEMMA OwnedType ==
    ASSUME TypeOK
    PROVE  Owned \in [Workers -> 0 .. (2 * MaxUsize)]
BY BudgetAssumption DEF TypeOK, Owned

LEMMA TotalStep ==
    ASSUME TypeOK, TypeOK', NEW w \in Workers,
           \A v \in Workers \ {w} : body'[v] = body[v] /\ extra'[v] = extra[v]
    PROVE  /\ Total(Owned) \in Nat /\ Total(Owned') \in Nat
           /\ Total(Owned') = Total(Owned) - (body[w] + extra[w])
                                  + (body'[w] + extra'[w])
           /\ body[w] + extra[w] <= Total(Owned)
           /\ Owned' = [Owned EXCEPT ![w] = Owned'[w]]
<1> DEFINE B == 2 * MaxUsize
<1>1. B \in Nat
  BY BudgetAssumption
<1>2. Owned \in [Workers -> 0 .. B] /\ Owned' \in [Workers -> 0 .. B]
  BY BudgetAssumption DEF TypeOK, Owned
<1>3. Owned' = [Owned EXCEPT ![w] = Owned'[w]]
  BY DEF Owned
<1>4. Owned[w] = body[w] + extra[w] /\ Owned'[w] = body'[w] + extra'[w]
  BY DEF Owned
<1> HIDE DEF B
<1>5. QED
  BY <1>1, <1>2, <1>3, <1>4, TotalUpdate

LEMMA InitTotal ==
    ASSUME Init
    PROVE  Total(Owned) = 0
<1>1. OwnedBytes(Owned) = {}
  BY DEF Init, Owned, OwnedBytes
<1>2. QED
  BY <1>1, FS_EmptySet DEF Total

-----------------------------------------------------------------------------
(* The inductive invariant. *)

LEMMA InitInv == Init => Inv
<1> SUFFICES ASSUME Init PROVE Inv
  OBVIOUS
<1>1. TypeOK
  BY BudgetAssumption DEF Init, TypeOK, Ops, Places
<1>2. Accounting
  BY InitTotal DEF Init, Accounting
<1>3. WithinHighestLimit /\ InFlight /\ limit <= highest
  BY BudgetAssumption DEF Init, WithinHighestLimit, InFlight
<1>4. QED
  BY <1>1, <1>2, <1>3 DEF Inv

\* A step that moves no bytes keeps the accounting.
LEMMA QuietStep ==
    ASSUME Accounting, UNCHANGED <<used, body, extra>>
    PROVE  Accounting'
BY DEF Accounting, Owned, Total, OwnedBytes

\* A permit's bytes are part of used, so giving them back never wraps.
LEMMA PermitWithinUsed ==
    ASSUME TypeOK, Accounting, NEW w \in Workers
    PROVE  body[w] + extra[w] <= used
<1>1. Owned \in [Workers -> 0 .. (2 * MaxUsize)] /\ 2 * MaxUsize \in Nat
  BY OwnedType, BudgetAssumption
<1>2. Owned = [Owned EXCEPT ![w] = Owned[w]]
  BY DEF Owned
<1>3. Owned[w] <= Total(Owned)
  BY <1>1, <1>2, TotalUpdate
<1>4. QED
  BY <1>3 DEF Accounting, Owned

\* A step of worker w that moves bytes keeps the accounting when used moves by
\* as much as the worker's permits do.
LEMMA MovingStep ==
    ASSUME TypeOK, TypeOK', Accounting, NEW w \in Workers,
           \A v \in Workers \ {w} : body'[v] = body[v] /\ extra'[v] = extra[v],
           used' = used - (body[w] + extra[w]) + (body'[w] + extra'[w])
    PROVE  Accounting'
BY TotalStep DEF Accounting

LEMMA StepInv ==
    ASSUME Inv, NEW w \in Workers, Step(w)
    PROVE  Inv'
<1> USE BudgetAssumption DEF Inv
<1>1. CASE ReserveBody(w) \/ Grow(w) \/ Gzip(w)
  <2>1. PICK kind \in Ops, n \in Sizes :
          Call(w, kind, n) /\ pc[w] \in {"none", "holding"}
                           /\ (kind = "body" => pc[w] = "none")
    BY <1>1 DEF ReserveBody, Grow, Gzip, Ops
  <2>2. TypeOK' /\ WithinHighestLimit' /\ InFlight' /\ (limit <= highest)'
    BY <2>1 DEF Call, TypeOK, WithinHighestLimit, InFlight, Places
  <2>3. Accounting'
    BY <2>1, QuietStep DEF Call
  <2>4. QED
    BY <2>2, <2>3
<1>2. CASE Check(w)
  <2>1. TypeOK'
    BY <1>2 DEF Check, Return, BusyTarget, TypeOK, Places, Ops
  <2>2. WithinHighestLimit' /\ InFlight' /\ (limit <= highest)'
    BY <1>2 DEF Check, Return, Fits, BusyTarget, TypeOK, WithinHighestLimit,
                InFlight, Places, Ops
  <2>3. Accounting'
    BY <1>2, QuietStep DEF Check
  <2>4. QED
    BY <2>1, <2>2, <2>3
<1>3. CASE CasSucceeds(w)
  <2>1. TypeOK'
    BY <1>3 DEF CasSucceeds, Return, TypeOK, Places, InFlight
  <2>2. WithinHighestLimit' /\ InFlight' /\ (limit <= highest)'
    BY <1>3 DEF CasSucceeds, Return, TypeOK, WithinHighestLimit, InFlight, Places
  <2>3. Accounting'
    <3>1. used' = used - (body[w] + extra[w]) + (body'[w] + extra'[w])
      BY <1>3 DEF CasSucceeds, TypeOK, InFlight
    <3>2. \A v \in Workers \ {w} : body'[v] = body[v] /\ extra'[v] = extra[v]
      BY <1>3 DEF CasSucceeds, TypeOK
    <3>3. QED
      BY <2>1, <3>1, <3>2, MovingStep
  <2>4. QED
    BY <2>1, <2>2, <2>3
<1>4. CASE CasFails(w)
  <2>1. TypeOK' /\ WithinHighestLimit' /\ InFlight' /\ (limit <= highest)'
    BY <1>4 DEF CasFails, TypeOK, WithinHighestLimit, InFlight, Places
  <2>2. Accounting'
    BY <1>4, QuietStep DEF CasFails
  <2>3. QED
    BY <2>1, <2>2
<1>5. CASE Merge(w)
  <2>0. body[w] + extra[w] <= MaxUsize
    BY PermitWithinUsed DEF TypeOK
  <2>1. TypeOK'
    BY <1>5, <2>0 DEF Merge, TypeOK, Places
  <2>2. WithinHighestLimit' /\ InFlight' /\ (limit <= highest)'
    BY <1>5, <2>0 DEF Merge, TypeOK, WithinHighestLimit, InFlight, Places
  <2>3. Accounting'
    <3>1. used' = used - (body[w] + extra[w]) + (body'[w] + extra'[w])
      BY <1>5, <2>0 DEF Merge, TypeOK
    <3>2. \A v \in Workers \ {w} : body'[v] = body[v] /\ extra'[v] = extra[v]
      BY <1>5, <2>0 DEF Merge, TypeOK
    <3>3. QED
      BY <2>1, <3>1, <3>2, MovingStep
  <2>4. QED
    BY <2>1, <2>2, <2>3
<1>6. CASE GzipFails(w)
  <2>1. TypeOK' /\ WithinHighestLimit' /\ InFlight' /\ (limit <= highest)'
    BY <1>6 DEF GzipFails, TypeOK, WithinHighestLimit, InFlight, Places
  <2>2. Accounting'
    BY <1>6, QuietStep DEF GzipFails
  <2>3. QED
    BY <2>1, <2>2
<1>7. CASE DropExtra(w)
  <2>0. extra[w] <= used /\ used' = used - extra[w]
    BY <1>7, PermitWithinUsed DEF DropExtra, WrappingSub, TypeOK
  <2>1. TypeOK'
    BY <1>7, <2>0 DEF DropExtra, TypeOK, Places
  <2>2. WithinHighestLimit' /\ InFlight' /\ (limit <= highest)'
    BY <1>7, <2>0 DEF DropExtra, TypeOK, WithinHighestLimit, InFlight, Places
  <2>3. Accounting'
    <3>1. used' = used - (body[w] + extra[w]) + (body'[w] + extra'[w])
      BY <1>7, <2>0 DEF DropExtra, TypeOK
    <3>2. \A v \in Workers \ {w} : body'[v] = body[v] /\ extra'[v] = extra[v]
      BY <1>7 DEF DropExtra, TypeOK
    <3>3. QED
      BY <2>1, <3>1, <3>2, MovingStep
  <2>4. QED
    BY <2>1, <2>2, <2>3
<1>8. CASE DropBody(w)
  <2>0. body[w] <= used /\ used' = used - body[w]
    BY <1>8, PermitWithinUsed DEF DropBody, WrappingSub, TypeOK
  <2>1. TypeOK'
    BY <1>8, <2>0 DEF DropBody, TypeOK, Places
  <2>2. WithinHighestLimit' /\ InFlight' /\ (limit <= highest)'
    BY <1>8, <2>0 DEF DropBody, TypeOK, WithinHighestLimit, InFlight, Places
  <2>3. Accounting'
    <3>1. used' = used - (body[w] + extra[w]) + (body'[w] + extra'[w])
      BY <1>8, <2>0 DEF DropBody, TypeOK
    <3>2. \A v \in Workers \ {w} : body'[v] = body[v] /\ extra'[v] = extra[v]
      BY <1>8 DEF DropBody, TypeOK
    <3>3. QED
      BY <2>1, <3>1, <3>2, MovingStep
  <2>4. QED
    BY <2>1, <2>2, <2>3
<1>9. QED
  BY <1>1, <1>2, <1>3, <1>4, <1>5, <1>6, <1>7, <1>8 DEF Step

LEMMA NextInv == Inv /\ [Next]_vars => Inv'
<1> SUFFICES ASSUME Inv, [Next]_vars PROVE Inv'
  OBVIOUS
<1>1. CASE ReloadLimit
  <2>1. TypeOK' /\ WithinHighestLimit' /\ InFlight' /\ (limit <= highest)'
    BY <1>1, BudgetAssumption
    DEF ReloadLimit, Inv, TypeOK, WithinHighestLimit, InFlight
  <2>2. Accounting'
    BY <1>1, QuietStep DEF ReloadLimit, Inv
  <2>3. QED
    BY <2>1, <2>2 DEF Inv
<1>2. CASE \E w \in Workers : Step(w)
  BY <1>2, StepInv
<1>3. CASE UNCHANGED vars
  <2>1. TypeOK' /\ WithinHighestLimit' /\ InFlight' /\ (limit <= highest)'
    BY <1>3 DEF vars, Inv, TypeOK, WithinHighestLimit, InFlight
  <2>2. Accounting'
    BY <1>3, QuietStep DEF vars, Inv
  <2>3. QED
    BY <2>1, <2>2 DEF Inv
<1>4. QED
  BY <1>1, <1>2, <1>3 DEF Next

-----------------------------------------------------------------------------
(* The theorems. *)

\* The accounting of MemoryBudget.reserve, grow, absorb and Drop is exact and
\* fetch_sub never wraps, for any number of connection threads.
THEOREM AccountingAlways == Spec => []Accounting
<1>1. Inv => Accounting
  BY DEF Inv
<1>2. QED
  BY <1>1, InitInv, NextInv, PTL DEF Spec

\* The budget's counters stay within a usize and every permit within its type.
THEOREM TypeCorrect == Spec => []TypeOK
<1>1. Inv => TypeOK
  BY DEF Inv
<1>2. QED
  BY <1>1, InitInv, NextInv, PTL DEF Spec

\* No interleaving of reservations and reloads charges the budget past the
\* highest limit an operator has configured.
THEOREM WithinHighestLimitAlways == Spec => []WithinHighestLimit
<1>1. Inv => WithinHighestLimit
  BY DEF Inv
<1>2. QED
  BY <1>1, InitInv, NextInv, PTL DEF Spec

\* Whatever happened before, a proxy without request or response bodies has its
\* whole body-memory budget available.
THEOREM NoLeakAlways == Spec => []NoLeak
<1>1. Inv => NoLeak
  <2> SUFFICES ASSUME Inv, \A w \in Workers : pc[w] = "none" PROVE used = 0
    BY DEF NoLeak
  <2>1. OwnedBytes(Owned) = {}
    BY BudgetAssumption DEF Inv, InFlight, TypeOK, Owned, OwnedBytes
  <2>2. QED
    BY <2>1, FS_EmptySet DEF Inv, Accounting, Total
<1>2. QED
  BY <1>1, InitInv, NextInv, PTL DEF Spec

\* A step of the loop is one atomic charge or release, a raised limit, or
\* nothing at all, for an observer who sees only the bytes workers own.
LEMMA StepImplements ==
    ASSUME Inv, Inv', [Next]_vars
    PROVE  [Abs!AbsNext]_(Abs!absVars)
<1> USE DEF Inv
<1>1. CASE ReloadLimit
  <2>1. Owned' = Owned
    BY <1>1 DEF ReloadLimit, Owned
  <2>2. highest \in Nat /\ highest' \in Nat
    BY BudgetAssumption DEF TypeOK
  <2>3. highest' = highest \/ highest' > highest
    BY <1>1, BudgetAssumption DEF ReloadLimit, TypeOK
  <2>4. QED
    BY <2>1, <2>2, <2>3 DEF Abs!AbsNext, Abs!Raise, Abs!absVars
<1>2. ASSUME NEW w \in Workers, Step(w)
      PROVE  [Abs!AbsNext]_(Abs!absVars)
  <2>1. \A v \in Workers \ {w} : body'[v] = body[v] /\ extra'[v] = extra[v]
    BY <1>2 DEF Step, ReserveBody, Grow, Gzip, Call, Check, CasSucceeds,
                CasFails, Merge, GzipFails, DropExtra, DropBody, TypeOK
  <2>2. Owned' = [Owned EXCEPT ![w] = Owned'[w]]
    BY <2>1, TotalStep
  <2>3. highest' = highest
    BY <1>2 DEF Step, ReserveBody, Grow, Gzip, Call, Check, CasSucceeds,
                CasFails, Merge, GzipFails, DropExtra, DropBody
  <2>4. Owned[w] \in Nat /\ Owned'[w] \in Nat
    BY BudgetAssumption DEF Owned, TypeOK
  <2>5. Total(Owned') <= highest
    BY <2>3 DEF Accounting, WithinHighestLimit
  <2>6. CASE Owned'[w] >= Owned[w]
    BY <2>2, <2>3, <2>4, <2>5, <2>6
    DEF Abs!AbsNext, Abs!Charge
  <2>7. CASE Owned'[w] <= Owned[w]
    BY <2>2, <2>3, <2>4, <2>7
    DEF Abs!AbsNext, Abs!Release
  <2>8. QED
    BY <2>4, <2>6, <2>7
<1>3. CASE UNCHANGED vars
  BY <1>3 DEF vars, Abs!absVars, Owned
<1>4. QED
  BY <1>1, <1>2, <1>3 DEF Next

\* The compare-and-swap loop implements the budget whose charges are atomic.
THEOREM Implementation == Spec => ImplementsCeilingBudget
<1>1. Init => Abs!AbsInit
  BY BudgetAssumption DEF Init, Abs!AbsInit, Owned
<1>2. Inv /\ Inv' /\ [Next]_vars => [Abs!AbsNext]_(Abs!absVars)
  BY StepImplements
<1>3. QED
  BY <1>1, <1>2, InitInv, NextInv, PTL
  DEF Spec, ImplementsCeilingBudget, Abs!AbsSpec
=============================================================================
