---------------------------- MODULE MemoryBudget ----------------------------
(***************************************************************************)
(* The aggregate in-flight body-memory budget of src/src/proxy.rs:         *)
(* MemoryBudget (two atomics, used and limit) and the MemoryPermit values  *)
(* that connection workers hold.  reserve is a lock-free loop: load used,  *)
(* compare the sum with limit, compare_exchange_weak, retry with what was  *)
(* observed.  grow and absorb move bytes between permits; Drop gives them  *)
(* back with fetch_sub.  A reload may store a new limit at any moment.     *)
(*                                                                         *)
(* A worker has at most two permits at once: the body's, and the one that  *)
(* reserve returned inside grow or gzip_body_accounted and that has not    *)
(* been merged yet.                                                        *)
(***************************************************************************)
EXTENDS Naturals, FiniteSets

CONSTANTS
    Workers,    \* connection threads
    Sizes,      \* byte counts a worker asks for: lengths, chunk sizes, bounds
    Limits,     \* values of limits.max_inflight_body_bytes
    MaxUsize    \* usize::MAX

ASSUME BudgetAssumption ==
    /\ IsFiniteSet(Workers)
    /\ MaxUsize \in Nat
    /\ Sizes \subseteq 0 .. MaxUsize
    /\ Limits \subseteq 1 .. MaxUsize
    /\ Limits # {}

VARIABLES
    used,       \* MemoryBudget.used
    limit,      \* MemoryBudget.limit
    pc,         \* where each worker is
    op,         \* which caller of reserve it is in: body, grow or gzip
    want,       \* the argument of reserve
    current,    \* the local variable current of reserve
    body,       \* bytes of the worker's body permit
    extra,      \* bytes of the permit reserve returned, not yet merged
    highest     \* history: the highest limit stored so far

vars == <<used, limit, pc, op, want, current, body, extra, highest>>

Ops == {"body", "grow", "gzip"}
Places == {"none", "holding", "check", "cas", "merge", "dropExtra", "drop"}

TypeOK ==
    /\ used \in 0 .. MaxUsize
    /\ limit \in Limits
    /\ pc \in [Workers -> Places]
    /\ op \in [Workers -> Ops]
    /\ want \in [Workers -> 0 .. MaxUsize]
    /\ current \in [Workers -> 0 .. MaxUsize]
    /\ body \in [Workers -> 0 .. MaxUsize]
    /\ extra \in [Workers -> 0 .. MaxUsize]
    /\ highest \in Limits

Init ==
    /\ used = 0
    /\ limit \in Limits
    /\ pc = [w \in Workers |-> "none"]
    /\ op = [w \in Workers |-> "body"]
    /\ want = [w \in Workers |-> 0]
    /\ current = [w \in Workers |-> 0]
    /\ body = [w \in Workers |-> 0]
    /\ extra = [w \in Workers |-> 0]
    /\ highest = limit

\* AtomicUsize::fetch_sub wraps around.
WrappingSub(a, b) == IF b <= a THEN a - b ELSE a + (MaxUsize + 1) - b

\* reserve's first statement, for one of its three kinds of caller: a body of
\* known length (or 0), one more chunk or read, the compressed copy.
Call(w, kind, n) ==
    /\ op' = [op EXCEPT ![w] = kind]
    /\ want' = [want EXCEPT ![w] = n]
    /\ current' = [current EXCEPT ![w] = used]
    /\ pc' = [pc EXCEPT ![w] = "check"]
    /\ UNCHANGED <<used, limit, body, extra, highest>>

ReserveBody(w) == pc[w] = "none" /\ \E n \in Sizes : Call(w, "body", n)

Grow(w) == pc[w] = "holding" /\ \E n \in Sizes : Call(w, "grow", n)

\* The bound on the compressed copy is at least the body's own length.
Gzip(w) ==
    /\ pc[w] = "holding"
    /\ \E n \in Sizes : n > body[w] /\ Call(w, "gzip", n)

\* Faulty variant: the error path of grow forgets the body's permit.
BusyTargetForgets(kind) == IF kind = "gzip" THEN "holding" ELSE "none"

\* Where Fault::Busy takes each caller: no body, the ? of read_chunked or
\* read_to_eof_bounded that drops the body's permit, or Ok(None).
BusyTarget(kind) ==
    CASE kind = "body" -> "none"
      [] kind = "grow" -> "drop"
      [] kind = "gzip" -> "holding"

\* reserve's locals go out of scope.
Return(w) ==
    /\ want' = [want EXCEPT ![w] = 0]
    /\ current' = [current EXCEPT ![w] = 0]

\* Faulty variant: the sum wraps around before it is compared.
FitsWrapping(w) == (current[w] + want[w]) % (MaxUsize + 1) <= limit

\* checked_add, then the comparison.
Fits(w) == current[w] + want[w] <= MaxUsize /\ current[w] + want[w] <= limit

\* One evaluation of checked_add and of the limit.
Check(w) ==
    /\ pc[w] = "check"
    /\ IF Fits(w)
       THEN /\ pc' = [pc EXCEPT ![w] = "cas"]
            /\ UNCHANGED <<want, current>>
       ELSE /\ pc' = [pc EXCEPT ![w] = BusyTarget(op[w])]
            /\ Return(w)
    /\ UNCHANGED <<used, limit, op, body, extra, highest>>

(***************************************************************************)
(* Faulty variants, for checking that the properties below can fail.       *)
(***************************************************************************)
\* Retries the exchange with the observed value without looking at limit.
CasFailsUnchecked(w) ==
    /\ pc[w] = "cas"
    /\ current' = [current EXCEPT ![w] = used]
    /\ UNCHANGED <<used, limit, pc, op, want, body, extra, highest>>

\* Forgets additional.bytes = 0, so the merged bytes are given back twice.
MergeKeepsExtra(w) ==
    /\ pc[w] = "merge"
    /\ body' = [body EXCEPT ![w] = @ + extra[w]]
    /\ pc' = [pc EXCEPT ![w] = "dropExtra"]
    /\ UNCHANGED <<used, limit, op, want, current, extra, highest>>

\* A load and a store instead of a compare-and-swap.
CasStores(w) ==
    /\ pc[w] = "cas"
    /\ used' = current[w] + want[w]
    /\ extra' = [extra EXCEPT ![w] = want[w]]
    /\ pc' = [pc EXCEPT ![w] = "merge"]
    /\ UNCHANGED <<limit, op, want, current, body, highest>>

\* compare_exchange_weak succeeds: reserve returns a permit.
CasSucceeds(w) ==
    /\ pc[w] = "cas"
    /\ used = current[w]
    /\ used' = current[w] + want[w]
    /\ extra' = [extra EXCEPT ![w] = want[w]]
    /\ pc' = [pc EXCEPT ![w] = "merge"]
    /\ Return(w)
    /\ UNCHANGED <<limit, op, body, highest>>

\* It fails, because used moved or spuriously, and the loop retries.
CasFails(w) ==
    /\ pc[w] = "cas"
    /\ current' = [current EXCEPT ![w] = used]
    /\ pc' = [pc EXCEPT ![w] = "check"]
    /\ UNCHANGED <<used, limit, op, want, body, extra, highest>>

\* The caller takes the permit: BufferedBody keeps it, grow and absorb add its
\* bytes to the body's permit and zero it before it is dropped.
Merge(w) ==
    /\ pc[w] = "merge"
    /\ IF body[w] + extra[w] <= MaxUsize
       THEN /\ body' = [body EXCEPT ![w] = @ + extra[w]]
            /\ extra' = [extra EXCEPT ![w] = 0]
            /\ pc' = [pc EXCEPT ![w] = "holding"]
       ELSE /\ pc' = [pc EXCEPT ![w] = "dropExtra"]
            /\ UNCHANGED <<body, extra>>
    /\ UNCHANGED <<used, limit, op, want, current, highest>>

\* gzip_body_accounted fails after reserving: its local permit goes first.
GzipFails(w) ==
    /\ pc[w] = "merge"
    /\ op[w] = "gzip"
    /\ pc' = [pc EXCEPT ![w] = "dropExtra"]
    /\ UNCHANGED <<used, limit, op, want, current, body, extra, highest>>

DropExtra(w) ==
    /\ pc[w] = "dropExtra"
    /\ used' = WrappingSub(used, extra[w])
    /\ extra' = [extra EXCEPT ![w] = 0]
    /\ pc' = [pc EXCEPT ![w] = "drop"]
    /\ UNCHANGED <<limit, op, want, current, body, highest>>

\* Drop for MemoryPermit, on an error path or when the body was written.
DropBody(w) ==
    /\ pc[w] \in {"holding", "drop"}
    /\ used' = WrappingSub(used, body[w])
    /\ body' = [body EXCEPT ![w] = 0]
    /\ pc' = [pc EXCEPT ![w] = "none"]
    /\ UNCHANGED <<limit, op, want, current, extra, highest>>

\* run_inner stores the limit of the configuration it is about to activate.
ReloadLimit ==
    /\ \E l \in Limits :
         /\ limit' = l
         /\ highest' = IF l > highest THEN l ELSE highest
    /\ UNCHANGED <<used, pc, op, want, current, body, extra>>

Step(w) ==
    \/ ReserveBody(w) \/ Grow(w) \/ Gzip(w)
    \/ Check(w) \/ CasSucceeds(w) \/ CasFails(w)
    \/ Merge(w) \/ GzipFails(w) \/ DropExtra(w) \/ DropBody(w)

Next == ReloadLimit \/ \E w \in Workers : Step(w)

Spec == Init /\ [][Next]_vars

-----------------------------------------------------------------------------
Owned == [w \in Workers |-> body[w] + extra[w]]

\* The charged bytes as a set, so that their number is a cardinality.
OwnedBytes(o) == UNION { {w} \X (1 .. o[w]) : w \in Workers }

Total(o) == Cardinality(OwnedBytes(o))

Abs == INSTANCE CeilingBudget WITH owned <- Owned, ceiling <- highest

\* used is exactly the number of bytes in live permits: whatever the
\* interleaving of reserve, grow, absorb and Drop, nothing leaks, nothing is
\* given back twice and fetch_sub never wraps.
Accounting == used = Total(Owned)

\* The budget is never charged past the highest limit ever configured, even
\* when a reload lowers limit between a worker's check and its exchange.
WithinHighestLimit == used <= highest

\* When no worker has a body, the whole budget is free again: every error path
\* of the readers, of grow and of gzip_body_accounted gives its bytes back.
NoLeak == (\A w \in Workers : pc[w] = "none") => used = 0

\* The loop implements the budget in which a charge is one atomic step.
ImplementsCeilingBudget == Abs!AbsSpec

\* The strengthening that makes the two invariants inductive: a worker about
\* to exchange has seen its sum fit, and a permit in flight exists only
\* between the exchange and the merge or drop.
InFlight ==
    \A w \in Workers :
        /\ pc[w] = "cas" => current[w] + want[w] <= highest
        /\ pc[w] \notin {"merge", "dropExtra"} => extra[w] = 0
        /\ pc[w] \in {"none", "merge"} /\ op[w] = "body" => body[w] = 0
        /\ pc[w] = "none" => body[w] = 0
        /\ pc[w] \in {"check", "cas"} /\ op[w] = "body" => body[w] = 0

Inv == TypeOK /\ Accounting /\ WithinHighestLimit /\ InFlight /\ limit <= highest
=============================================================================
