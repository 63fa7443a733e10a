--------------------------- MODULE AgreementProofs ---------------------------
(***************************************************************************)
(* For any registry, width, quarantine list and sequence of compositions:  *)
(* a result goes on only when width distinct admitted implementations      *)
(* returned it, run never runs out of implementations and calls those that *)
(* selected_ids reports, and a disagreement leaves no successful call of   *)
(* its function in the telemetry until that is taken.                      *)
(***************************************************************************)
EXTENDS Agreement, FiniteSetTheorems, TLAPS

\* The admitted implementations before registry position q, and the primary.
Prefix(f, p, q) == { i \in Available(f) : i < q \/ i = p }

\* What the loop of run has behind it: the primary once its turn is over, and
\* the registry entries before pos.
Visited(w) == IF pos[w] = 0 THEN {} ELSE Prefix(fn[w], first[w], pos[w])

\* The same with the candidate at pos, which a disagreement leaves current.
Reached(w) == Prefix(fn[w], first[w], pos[w] + 1)

Enough == \A f \in Functions : Cardinality(Available(f)) >= width

RunInv(w) ==
    /\ called[w] \subseteq Available(fn[w])
    /\ count[w] = Cardinality(called[w])
    /\ reference[w] = NoId => called[w] = {}
    /\ status[w] \in {"running", "agreed"} =>
         \A i \in called[w] : answers[w][i] = reference[w]
    /\ status[w] \in {"running", "agreed"} => called[w] = Visited(w)
    /\ status[w] = "running" => count[w] < width /\ pos[w] <= N
    /\ status[w] = "agreed" => count[w] = width /\ pos[w] # 0
    /\ status[w] = "Disagreement" => count[w] <= width /\ called[w] = Reached(w)
    /\ status[w] # "Internal"

\* The inductive invariant: build_runtime's acceptance bounds the width by the
\* admitted implementations, and each run has called exactly the admitted ones
\* among those it has visited.
IInv ==
    /\ TypeOK
    /\ Enough
    /\ \A w \in Workers : RunInv(w)

LEMMA AvailableFinite ==
    ASSUME NEW f
    PROVE  IsFiniteSet(Available(f))
<1>1. IsFiniteSet(Ids)
  BY AgreementAssumption, FS_Interval DEF Ids
<1>2. Available(f) \subseteq Ids
  BY DEF Available
<1>3. QED
  BY <1>1, <1>2, FS_Subset

LEMMA AcceptedIsEnough == ASSUME BuildAccepts PROVE Enough
<1> SUFFICES ASSUME NEW f \in Functions
             PROVE  Cardinality(Available(f)) >= width
  BY DEF Enough
<1>1. SelectedIds(f, primary[f]) \subseteq Available(f)
  BY DEF SelectedIds
<1>2. IsFiniteSet(Available(f))
  BY AvailableFinite
<1>3. Cardinality(SelectedIds(f, primary[f])) <= Cardinality(Available(f))
  BY <1>1, <1>2, FS_Subset
<1>4. QED
  BY <1>3 DEF BuildAccepts

LEMMA InitIInv == Init => IInv
<1> SUFFICES ASSUME Init PROVE IInv
  OBVIOUS
<1>1. TypeOK
  <2>1. Classify \in Functions /\ NotAsked \in Outcomes
    BY AgreementAssumption DEF NotAsked
  <2>2. /\ width \in Nat \ {0}
        /\ quarantined \subseteq Ids
        /\ primary \in [Functions -> Ids \cup {NoId}]
    BY DEF Init, Compositions, NoComposition
  <2>3. trace \in [Workers -> Seq(CallRecords)]
    BY DEF Init
  <2>4. QED
    BY <2>1, <2>2, <2>3, AgreementAssumption DEF Init, TypeOK
<1>2. Enough
  BY AcceptedIsEnough DEF Init
<1>3. \A w \in Workers : RunInv(w)
  <2>1. Cardinality({}) = 0
    BY FS_EmptySet
  <2>2. QED
    BY <2>1 DEF Init, RunInv
<1>4. QED
  BY <1>1, <1>2, <1>3 DEF IInv

-----------------------------------------------------------------------------
(* One candidate of the loop.                                              *)

\* Once every registry entry is behind the loop, the admitted implementations
\* are all called, and there are at least width of them.
LEMMA AllVisited ==
    ASSUME TypeOK, Enough, NEW w \in Workers, NEW S,
           S = { i \in Available(fn[w]) : i < N + 1 \/ i = first[w] }
    PROVE  Cardinality(S) >= width
<1>1. S = Available(fn[w])
  BY AgreementAssumption DEF Available, Ids
<1>2. fn[w] \in Functions
  BY DEF TypeOK
<1>3. QED
  BY <1>1, <1>2 DEF Enough

\* Passing over a candidate leaves the set of called implementations exact.
LEMMA SkipRun ==
    ASSUME IInv, NEW w \in Workers, Skip(w)
    PROVE  RunInv(w)' /\ status'[w] \in {"running", "agreed"}
<1> DEFINE Behind == { i \in Available(fn[w]) : i < pos[w] + 1 \/ i = first[w] }
<1>1. /\ TypeOK /\ Enough /\ RunInv(w)
      /\ status[w] = "running" /\ pos[w] \in 0 .. N /\ N \in Nat
  <2>1. TypeOK /\ Enough /\ RunInv(w) /\ status[w] = "running"
    BY DEF IInv, Skip
  <2>2. pos[w] \in 0 .. N + 1 /\ N \in Nat
    BY <2>1, AgreementAssumption DEF TypeOK
  <2>3. QED
    BY <2>1, <2>2 DEF RunInv
<1>2. called[w] = Behind
  <2>1. called[w] = Visited(w)
    BY <1>1 DEF RunInv
  <2>2. CASE pos[w] = 0
    BY <1>1, <2>1, <2>2 DEF Skip, Callable, Candidate, Visited, Prefix, Available, Ids
  <2>3. CASE pos[w] # 0
    BY <1>1, <2>1, <2>3 DEF Skip, Callable, Candidate, Visited, Prefix, Available, Ids
  <2>4. QED
    BY <2>2, <2>3
<1>3. /\ pos'[w] = pos[w] + 1
      /\ status'[w] = AfterCandidate(w, count[w])
      /\ UNCHANGED <<fn, quarantined, width, first, count, called, reference, answers>>
  BY <1>1 DEF Skip, TypeOK, config
<1>4. status'[w] = IF pos[w] = N THEN "Internal" ELSE "running"
  BY <1>1, <1>3 DEF AfterCandidate, RunInv, TypeOK
<1>5. pos[w] # N
  <2>1. SUFFICES ASSUME pos[w] = N PROVE FALSE
    OBVIOUS
  <2>2. Cardinality(called[w]) >= width
    BY <1>1, <1>2, <2>1, AllVisited
  <2>3. QED
    BY <1>1, <2>2 DEF RunInv, TypeOK
<1>6. called'[w] = Visited(w)'
  <2>1. pos'[w] # 0
    BY <1>1, <1>3
  <2>2. QED
    BY <1>1, <1>2, <1>3, <2>1 DEF Visited, Prefix, Available
<1>7. QED
  BY <1>1, <1>3, <1>4, <1>5, <1>6 DEF RunInv, Available

\* A call that agrees adds one new implementation with the same result.
LEMMA AgreeRun ==
    ASSUME IInv, NEW w \in Workers, CallAgrees(w)
    PROVE  RunInv(w)' /\ status'[w] \in {"running", "agreed"} /\ pos[w] <= N
<1> DEFINE c == Candidate(w)
           Behind == { i \in Available(fn[w]) : i < pos[w] + 1 \/ i = first[w] }
<1>1. /\ TypeOK /\ Enough /\ RunInv(w)
      /\ status[w] = "running" /\ pos[w] \in 0 .. N /\ N \in Nat
      /\ called[w] = Visited(w) /\ count[w] < width
  <2>1. TypeOK /\ Enough /\ RunInv(w) /\ status[w] = "running"
    BY DEF IInv, CallAgrees
  <2>2. pos[w] \in 0 .. N + 1 /\ N \in Nat
    BY <2>1, AgreementAssumption DEF TypeOK
  <2>3. QED
    BY <2>1, <2>2 DEF RunInv
<1>2. c \in Available(fn[w]) /\ c \notin called[w]
  BY <1>1 DEF CallAgrees, Callable, Candidate, Visited, Prefix, Available, Ids
<1>3. called[w] \cup {c} = Behind
  <2>1. CASE pos[w] = 0
    BY <1>1, <1>2, <2>1 DEF Candidate, Visited, Prefix, Available, Ids
  <2>2. CASE pos[w] # 0
    BY <1>1, <1>2, <2>2 DEF Candidate, Visited, Prefix, Available, Ids
  <2>3. QED
    BY <2>1, <2>2
<1>4. Cardinality(called[w] \cup {c}) = count[w] + 1
  <2>1. IsFiniteSet(called[w])
    BY <1>1, AvailableFinite, FS_Subset DEF RunInv
  <2>2. count[w] = Cardinality(called[w])
    BY <1>1 DEF RunInv
  <2>3. QED
    BY <1>2, <2>1, <2>2, FS_AddElement
<1>5. /\ pos'[w] = pos[w] + 1
      /\ status'[w] = AfterCandidate(w, count[w] + 1)
      /\ called'[w] = called[w] \cup {c}
      /\ count'[w] = count[w] + 1
      /\ reference'[w] = answers[w][c]
      /\ UNCHANGED <<fn, quarantined, width, first, answers>>
  BY <1>1 DEF CallAgrees, TypeOK, config
<1>6. status'[w] # "Internal"
  <2>1. SUFFICES ASSUME pos[w] = N, count[w] + 1 # width PROVE FALSE
    BY <1>5 DEF AfterCandidate
  <2>2. Cardinality(called[w] \cup {c}) >= width
    BY <1>1, <1>3, <2>1, AllVisited
  <2>3. QED
    BY <1>1, <1>4, <2>1, <2>2 DEF TypeOK
<1>7. called'[w] = Visited(w)'
  BY <1>1, <1>3, <1>5 DEF Visited, Prefix, Available
<1>8. \A i \in called'[w] : answers'[w][i] = reference'[w]
  BY <1>1, <1>5 DEF CallAgrees, RunInv
<1>9. reference'[w] # NoId
  BY <1>1, <1>2, <1>5, AgreementAssumption DEF TypeOK, Available
<1>10. called'[w] \subseteq Available(fn[w])'
  BY <1>1, <1>2, <1>5 DEF RunInv, Available
<1>11. count'[w] = Cardinality(called'[w])
  BY <1>4, <1>5
<1>12. /\ status'[w] = "running" => count'[w] < width' /\ pos'[w] <= N
       /\ status'[w] = "agreed" => count'[w] = width' /\ pos'[w] # 0
       /\ status'[w] \in {"running", "agreed"}
  BY <1>1, <1>5, <1>6 DEF AfterCandidate, TypeOK
<1>13. QED
  BY <1>1, <1>7, <1>8, <1>9, <1>10, <1>11, <1>12 DEF RunInv

-----------------------------------------------------------------------------
(* The inductive step. *)

\* A step of another thread, or of refresh, leaves a worker's run alone.
LEMMA OtherRun ==
    ASSUME NEW v \in Workers, RunInv(v), UNCHANGED config,
           status'[v] = status[v], fn'[v] = fn[v], answers'[v] = answers[v],
           first'[v] = first[v], pos'[v] = pos[v], count'[v] = count[v],
           called'[v] = called[v], reference'[v] = reference[v]
    PROVE  RunInv(v)'
BY DEF RunInv, Visited, Reached, Prefix, Available, config

LEMMA EnoughStable == ASSUME Enough, UNCHANGED config PROVE Enough'
BY DEF Enough, Available, config

LEMMA TracedType ==
    ASSUME TypeOK, NEW w \in Workers, Candidate(w) \in Ids
    PROVE  /\ Traced(w) \in Seq(CallRecords)
           /\ Marked(Traced(w), fn[w]) \in Seq(CallRecords)
<1>1. [function |-> fn[w], implementation |-> Candidate(w),
       outcome |-> IF answers[w][Candidate(w)] \in OkOutcomes THEN "ok" ELSE "error"]
        \in CallRecords
  BY DEF TypeOK, CallRecords
<1>2. Traced(w) \in Seq(CallRecords)
  BY <1>1 DEF Traced, TypeOK
<1>3. ASSUME NEW t \in Seq(CallRecords), NEW f
      PROVE  Marked(t, f) \in Seq(CallRecords)
  <2>1. \A k \in DOMAIN t : t[k] \in CallRecords
    OBVIOUS
  <2>2. \A r \in CallRecords : [r EXCEPT !.outcome = "error"] \in CallRecords
    BY DEF CallRecords
  <2>3. Len(t) \in Nat /\ DOMAIN t = 1 .. Len(t)
    OBVIOUS
  <2>4. Marked(t, f) \in [1 .. Len(t) -> CallRecords]
    BY <2>1, <2>2, <2>3 DEF Marked
  <2>5. QED
    BY <2>3, <2>4
<1>4. QED
  BY <1>2, <1>3

LEMMA StepType ==
    ASSUME IInv, NEW w \in Workers, Step(w)
    PROVE  TypeOK'
<1> USE AgreementAssumption DEF config
<1>0. TypeOK
  BY DEF IInv
<1>1. CASE StartRun(w) \/ RecordResult(w)
  <2>1. PICK f \in Functions : BeginRun(w, f)
    BY <1>1 DEF StartRun, RecordResult
  <2>2. PICK a \in Answers(f) : answers' = [answers EXCEPT ![w] = a]
    BY <2>1 DEF BeginRun
  <2>3. a \in [Ids -> Outcomes]
    BY <2>2 DEF Answers
  <2>4. runs' \in [Workers -> 0 .. MaxRuns]
    <3>1. runs \in [Workers -> 0 .. MaxRuns]
      BY <1>0 DEF TypeOK
    <3>2. runs' = runs \/ (runs' = [runs EXCEPT ![w] = @ + 1] /\ runs[w] < MaxRuns)
      BY <1>1 DEF StartRun, RecordResult
    <3>3. QED
      BY <3>1, <3>2
  <2>5. answers' \in [Workers -> [Ids -> Outcomes]]
    BY <1>0, <2>2, <2>3 DEF TypeOK
  <2>6. /\ status' \in [Workers -> {"idle", "running", "agreed", "Disagreement", "Internal"}]
        /\ fn' \in [Workers -> Functions]
        /\ first' \in [Workers -> Ids \cup {NoId}]
    BY <1>0, <2>1 DEF BeginRun, TypeOK
  <2>7. /\ pos' \in [Workers -> 0 .. N + 1]
        /\ count' \in [Workers -> 0 .. N + 1]
        /\ called' \in [Workers -> SUBSET Ids]
        /\ reference' \in [Workers -> Outcomes \cup {NoId}]
    BY <1>0, <2>1 DEF BeginRun, TypeOK
  <2>8. UNCHANGED <<width, quarantined, primary, trace, failed>>
    BY <2>1 DEF BeginRun
  <2>9. QED
    BY <1>0, <2>4, <2>5, <2>6, <2>7, <2>8 DEF TypeOK
<1>2. CASE Skip(w)
  <2>1. RunInv(w)' /\ status'[w] \in {"running", "agreed"} /\ pos[w] <= N
    BY <1>2, SkipRun DEF IInv, RunInv, Skip
  <2>2. pos' \in [Workers -> 0 .. N + 1]
    BY <1>0, <1>2, <2>1 DEF Skip, TypeOK
  <2>3. status' \in [Workers -> {"idle", "running", "agreed", "Disagreement", "Internal"}]
    BY <1>0, <1>2 DEF Skip, TypeOK, AfterCandidate
  <2>4. QED
    BY <1>0, <1>2, <2>2, <2>3 DEF Skip, TypeOK
<1>3. CASE CallAgrees(w) \/ CallDisagrees(w)
  <2>1. Candidate(w) \in Ids
    BY <1>3 DEF CallAgrees, CallDisagrees, Callable, Available
  <2>2. trace' \in [Workers -> Seq(CallRecords)]
    <3>1. Traced(w) \in Seq(CallRecords) /\ Marked(Traced(w), fn[w]) \in Seq(CallRecords)
      BY <1>0, <2>1, TracedType
    <3>2. trace \in [Workers -> Seq(CallRecords)]
      BY <1>0 DEF TypeOK
    <3>3. \/ trace' = [trace EXCEPT ![w] = Traced(w)]
          \/ trace' = [trace EXCEPT ![w] = Marked(Traced(w), fn[w])]
      BY <1>3 DEF CallAgrees, CallDisagrees
    <3>4. QED
      BY <3>1, <3>2, <3>3
  <2>3. status' \in [Workers -> {"idle", "running", "agreed", "Disagreement", "Internal"}]
    BY <1>0, <1>3 DEF CallAgrees, CallDisagrees, TypeOK, AfterCandidate
  <2>4. pos[w] \in 0 .. N /\ count[w] \in 0 .. N
    <3>1. status[w] = "running" /\ RunInv(w)
      BY <1>3 DEF CallAgrees, CallDisagrees, IInv
    <3>2. called[w] \subseteq Ids /\ IsFiniteSet(Ids) /\ Cardinality(Ids) = N
      <4>1. IsFiniteSet(1 .. N) /\ Cardinality(1 .. N) = N
        BY FS_Interval
      <4>2. QED
        BY <1>0, <4>1 DEF TypeOK, Ids
    <3>3. Cardinality(called[w]) <= N
      BY <3>2, FS_Subset
    <3>4. QED
      BY <1>0, <3>1, <3>3 DEF RunInv, TypeOK
  <2>5. pos' \in [Workers -> 0 .. N + 1] /\ count' \in [Workers -> 0 .. N + 1]
    <3>1. pos \in [Workers -> 0 .. N + 1] /\ count \in [Workers -> 0 .. N + 1]
      BY <1>0 DEF TypeOK
    <3>2. /\ pos' = pos \/ pos' = [pos EXCEPT ![w] = @ + 1]
          /\ count' = [count EXCEPT ![w] = @ + 1]
      BY <1>3 DEF CallAgrees, CallDisagrees
    <3>3. QED
      BY <2>4, <3>1, <3>2
  <2>6. /\ called' \in [Workers -> SUBSET Ids]
        /\ reference' \in [Workers -> Outcomes \cup {NoId}]
    <3>1. /\ called \in [Workers -> SUBSET Ids]
          /\ reference \in [Workers -> Outcomes \cup {NoId}]
          /\ answers[w][Candidate(w)] \in Outcomes
      BY <1>0, <2>1 DEF TypeOK
    <3>2. /\ called' = [called EXCEPT ![w] = @ \cup {Candidate(w)}]
          /\ \/ reference' = reference
             \/ reference' = [reference EXCEPT ![w] = answers[w][Candidate(w)]]
      BY <1>3 DEF CallAgrees, CallDisagrees
    <3>3. called' \in [Workers -> SUBSET Ids]
      BY <2>1, <3>1, <3>2
    <3>4. reference' \in [Workers -> Outcomes \cup {NoId}]
      BY <3>1, <3>2
    <3>5. QED
      BY <3>3, <3>4
  <2>7. failed' \in [Workers -> SUBSET Functions]
    <3>1. failed \in [Workers -> SUBSET Functions] /\ fn[w] \in Functions
      BY <1>0 DEF TypeOK
    <3>2. failed' = failed \/ failed' = [failed EXCEPT ![w] = @ \cup {fn[w]}]
      BY <1>3 DEF CallAgrees, CallDisagrees
    <3>3. QED
      BY <3>1, <3>2
  <2>8. QED
    BY <1>0, <1>3, <2>2, <2>3, <2>5, <2>6, <2>7
    DEF CallAgrees, CallDisagrees, TypeOK
<1>4. CASE EndRequest(w)
  BY <1>0, <1>4 DEF EndRequest, locals, TypeOK
<1>5. QED
  BY <1>1, <1>2, <1>3, <1>4 DEF Step

LEMMA StepIInv ==
    ASSUME IInv, NEW w \in Workers, Step(w)
    PROVE  IInv'
<1>1. TypeOK'
  BY StepType
<1>2. UNCHANGED config
  BY DEF Step, StartRun, RecordResult, BeginRun, Skip, CallAgrees, CallDisagrees, EndRequest
<1>3. Enough'
  BY <1>2, EnoughStable DEF IInv
<1>4. ASSUME NEW v \in Workers, v # w
      PROVE  RunInv(v)'
  BY <1>2, <1>4, OtherRun
  DEF IInv, TypeOK, Step, StartRun, RecordResult, BeginRun, Skip, CallAgrees, CallDisagrees,
      EndRequest, locals
<1>5. RunInv(w)'
  <2>0. TypeOK /\ RunInv(w)
    BY DEF IInv
  <2>1. CASE StartRun(w) \/ RecordResult(w)
    <3>1. Cardinality({}) = 0
      BY FS_EmptySet
    <3>2. /\ status'[w] = "running" /\ called'[w] = {} /\ count'[w] = 0 /\ pos'[w] = 0
      BY <2>0, <2>1 DEF StartRun, RecordResult, BeginRun, TypeOK
    <3>3. Visited(w)' = {}
      BY <3>2 DEF Visited, Prefix, Available, Ids
    <3>4. width' \in Nat \ {0} /\ N \in Nat
      BY <1>1, AgreementAssumption DEF TypeOK
    <3>5. QED
      BY <3>1, <3>2, <3>3, <3>4 DEF RunInv
  <2>2. CASE Skip(w)
    BY <2>2, SkipRun
  <2>3. CASE CallAgrees(w)
    BY <2>3, AgreeRun
  <2>4. CASE CallDisagrees(w)
    <3>1. /\ status'[w] = "Disagreement"
          /\ called'[w] = called[w] \cup {Candidate(w)}
          /\ count'[w] = count[w] + 1
          /\ reference'[w] = reference[w] /\ reference[w] # NoId
          /\ pos'[w] = pos[w]
          /\ UNCHANGED <<fn, quarantined, width, first>>
      BY <2>0, <2>4 DEF CallDisagrees, TypeOK, config
    <3>2. Candidate(w) \in Available(fn[w]) /\ Candidate(w) \notin called[w]
      <4>1. status[w] = "running" /\ Callable(w)
        BY <2>4 DEF CallDisagrees
      <4>2. called[w] = Visited(w) /\ pos[w] \in Nat /\ N \in Nat
        BY <4>1, <2>0, AgreementAssumption DEF RunInv, TypeOK
      <4>3. QED
        BY <4>1, <4>2 DEF Callable, Candidate, Visited, Prefix, Available, Ids
    <3>3. IsFiniteSet(called[w])
      BY <2>0, AvailableFinite, FS_Subset DEF RunInv
    <3>4. count'[w] = Cardinality(called'[w])
      BY <2>0, <3>1, <3>2, <3>3, FS_AddElement DEF RunInv
    <3>5. called'[w] \subseteq Available(fn[w])'
      BY <2>0, <3>1, <3>2 DEF RunInv, Available
    <3>6. called'[w] = Reached(w)'
      <4>1. /\ called[w] = Visited(w) /\ pos[w] \in Nat /\ N \in Nat
            /\ status[w] = "running" /\ Callable(w)
        BY <2>0, <2>4, AgreementAssumption DEF CallDisagrees, RunInv, TypeOK
      <4>2. called[w] \cup {Candidate(w)} = Reached(w)
        <5>1. CASE pos[w] = 0
          BY <3>2, <4>1, <5>1 DEF Candidate, Visited, Reached, Prefix, Available, Ids
        <5>2. CASE pos[w] # 0
          BY <3>2, <4>1, <5>2 DEF Candidate, Visited, Reached, Prefix, Available, Ids
        <5>3. QED
          BY <5>1, <5>2
      <4>3. QED
        BY <3>1, <4>2 DEF Reached, Prefix, Available
    <3>7. count'[w] <= width'
      <4>1. count[w] < width /\ count[w] \in Nat /\ width \in Nat
        BY <2>0, <2>4, AgreementAssumption DEF CallDisagrees, RunInv, TypeOK
      <4>2. QED
        BY <3>1, <4>1
    <3>8. QED
      BY <3>1, <3>4, <3>5, <3>6, <3>7 DEF RunInv
  <2>5. CASE EndRequest(w)
    <3>1. status'[w] = "idle" /\ UNCHANGED locals
      BY <2>0, <2>5 DEF EndRequest, TypeOK
    <3>2. QED
      BY <1>2, <2>0, <3>1 DEF RunInv, locals, config, Available
  <2>6. QED
    BY <2>1, <2>2, <2>3, <2>4, <2>5 DEF Step
<1>6. QED
  BY <1>1, <1>3, <1>4, <1>5 DEF IInv

LEMMA NextIInv == IInv /\ [Next]_vars => IInv'
<1> SUFFICES ASSUME IInv, [Next]_vars PROVE IInv'
  OBVIOUS
<1>1. CASE UpdatePrimary \/ UNCHANGED vars
  <2>1. /\ UNCHANGED <<config, status, locals, trace, failed, runs>>
        /\ primary' = primary \/ primary' \in Compositions
    BY <1>1 DEF UpdatePrimary, vars
  <2>2. TypeOK'
    BY <2>1 DEF IInv, TypeOK, config, locals, Compositions
  <2>3. Enough'
    BY <2>1, EnoughStable DEF IInv
  <2>4. \A v \in Workers : RunInv(v)'
    BY <2>1, OtherRun DEF IInv, locals
  <2>5. QED
    BY <2>2, <2>3, <2>4 DEF IInv
<1>2. CASE \E w \in Workers : Step(w)
  BY <1>2, StepIInv
<1>3. QED
  BY <1>1, <1>2 DEF Next

-----------------------------------------------------------------------------
(* The theorems. *)

\* Agreement::run lets a value through only when width distinct admitted
\* implementations of the function computed that value.
THEOREM UnanimousAlways == Spec => []Unanimous
<1>1. IInv => Unanimous
  BY DEF IInv, RunInv, Unanimous
<1>2. QED
  BY <1>1, InitIInv, NextIInv, PTL DEF Spec

\* Once build_runtime has accepted a configuration, no composition the server
\* assigns later makes Agreement::run fail for want of implementations.
THEOREM NoInternalAlways == Spec => []NoInternal
<1>1. IInv => NoInternal
  BY DEF IInv, RunInv, NoInternal
<1>2. QED
  BY <1>1, InitIInv, NextIInv, PTL DEF Spec

\* The agreement state keeps its type whatever the refresh thread installs.
THEOREM AgreementTypeCorrect == Spec => []TypeOK
<1>1. IInv => TypeOK
  BY DEF IInv
<1>2. QED
  BY <1>1, InitIInv, NextIInv, PTL DEF Spec

-----------------------------------------------------------------------------
(* What selected_ids reports.                                              *)

\* The members of P before i, and those with fewer than m members before them.
Below(P, i) == { j \in P : j < i }
First(P, m) == { i \in P : Cardinality(Below(P, i)) < m }

LEMMA SubsetSize ==
    ASSUME NEW T, IsFiniteSet(T), NEW S, S \subseteq T
    PROVE  /\ IsFiniteSet(S) /\ Cardinality(S) \in Nat /\ Cardinality(T) \in Nat
           /\ Cardinality(S) <= Cardinality(T)
           /\ S # T => Cardinality(S) < Cardinality(T)
<1>1. IsFiniteSet(S) /\ Cardinality(S) <= Cardinality(T) /\ (Cardinality(T) = Cardinality(S) => T = S)
  BY FS_Subset
<1>2. Cardinality(S) \in Nat /\ Cardinality(T) \in Nat
  BY <1>1, FS_CardinalityType
<1>3. QED
  BY <1>1, <1>2

LEMMA BelowGrows ==
    ASSUME NEW P \in SUBSET Nat, NEW i \in Nat, NEW k \in Nat, i <= k
    PROVE  Below(P, i) \subseteq Below(P, k)
<1> SUFFICES ASSUME NEW j \in Below(P, i)
             PROVE  j \in Below(P, k)
  OBVIOUS
<1>1. j \in P /\ j < i
  BY DEF Below
<1>2. j \in Nat
  BY <1>1
<1>3. j < k
  BY <1>1, <1>2
<1>4. QED
  BY <1>1, <1>3 DEF Below

LEMMA BelowSize ==
    ASSUME NEW P \in SUBSET Nat, IsFiniteSet(P), NEW i \in P
    PROVE  /\ IsFiniteSet(Below(P, i)) /\ Cardinality(Below(P, i)) \in Nat
           /\ Cardinality(Below(P, i)) < Cardinality(P)
           /\ \A k \in P : i < k => Cardinality(Below(P, i)) < Cardinality(Below(P, k))
<1>1. \A k \in P : Below(P, k) \subseteq P
  BY DEF Below
<1>2. i \notin Below(P, i)
  BY DEF Below
<1>3. \A k \in P : IsFiniteSet(Below(P, k))
  BY <1>1, SubsetSize
<1>4. ASSUME NEW k \in P, i < k
      PROVE  Cardinality(Below(P, i)) < Cardinality(Below(P, k))
  <2>1. i \in Nat /\ k \in Nat /\ i <= k
    BY <1>4
  <2>2. Below(P, i) \subseteq Below(P, k)
    BY <2>1, BelowGrows
  <2>3. i \in Below(P, k)
    BY <1>4 DEF Below
  <2>4. QED
    BY <1>2, <1>3, <2>2, <2>3, SubsetSize
<1>5. QED
  BY <1>1, <1>2, <1>3, <1>4, SubsetSize

\* There are m of the latter: the rank of a member is an injection into as many
\* numbers as there are members, so every rank is taken.
LEMMA RanksFill ==
    ASSUME NEW P \in SUBSET Nat, IsFiniteSet(P), NEW m \in Nat, m <= Cardinality(P)
    PROVE  IsFiniteSet(First(P, m)) /\ Cardinality(First(P, m)) = m
<1> DEFINE rank == [i \in P |-> Cardinality(Below(P, i))]
           low == [i \in First(P, m) |-> Cardinality(Below(P, i))]
<1>0. PICK n \in Nat : n = Cardinality(P)
  BY FS_CardinalityType
<1>1. \A i \in P : Cardinality(Below(P, i)) \in Nat /\ Cardinality(Below(P, i)) < n
  BY <1>0, BelowSize
<1>2. ASSUME NEW i \in P, NEW k \in P, Cardinality(Below(P, i)) = Cardinality(Below(P, k))
      PROVE  i = k
  <2>1. i \in Nat /\ k \in Nat
    OBVIOUS
  <2>2. i < k \/ k < i \/ i = k
    BY <2>1
  <2>3. ~(i < k) /\ ~(k < i)
    BY <1>1, <1>2, BelowSize
  <2>4. QED
    BY <2>2, <2>3
<1>3. rank \in Injection(P, 0 .. n - 1)
  <2>1. \A i \in P : Cardinality(Below(P, i)) \in 0 .. n - 1
    BY <1>0, <1>1
  <2>2. rank \in [P -> 0 .. n - 1]
    BY <2>1
  <2>3. IsInjective(rank)
    BY <1>2 DEF IsInjective
  <2>4. QED
    BY <2>2, <2>3 DEF Injection
<1>4. IsFiniteSet(0 .. n - 1) /\ Cardinality(0 .. n - 1) = n
  <2>1. 0 \in Int /\ n - 1 \in Int /\ (0 > n - 1 => n = 0)
    BY <1>0
  <2>2. QED
    BY <1>0, <2>1, FS_Interval
<1>5. rank \in Surjection(P, 0 .. n - 1)
  BY <1>0, <1>3, <1>4, FS_Injection
<1>6. \A r \in 0 .. n - 1 : \E i \in P : Cardinality(Below(P, i)) = r
  BY <1>5 DEF Surjection
<1>7. First(P, m) \subseteq P /\ IsFiniteSet(First(P, m))
  BY SubsetSize DEF First
<1>8. low \in Bijection(First(P, m), 0 .. m - 1)
  <2>1. \A i \in First(P, m) : Cardinality(Below(P, i)) \in 0 .. m - 1
    BY <1>1 DEF First
  <2>2. low \in [First(P, m) -> 0 .. m - 1]
    BY <2>1
  <2>3. IsInjective(low)
    BY <1>2, <1>7 DEF IsInjective
  <2>4. \A r \in 0 .. m - 1 : \E i \in First(P, m) : low[i] = r
    <3> TAKE r \in 0 .. m - 1
    <3>1. r \in 0 .. n - 1 /\ r < m
      BY <1>0
    <3>2. PICK i \in P : Cardinality(Below(P, i)) = r
      BY <1>6, <3>1
    <3>3. i \in First(P, m)
      BY <3>1, <3>2 DEF First
    <3>4. QED
      BY <3>2, <3>3
  <2>5. QED
    BY <2>2, <2>3, <2>4 DEF Bijection, Injection, Surjection
<1>9. Cardinality(0 .. m - 1) = Cardinality(First(P, m))
  BY <1>7, <1>8, FS_Bijection DEF ExistsBijection
<1>10. Cardinality(0 .. m - 1) = m
  <2>1. 0 \in Int /\ m - 1 \in Int /\ (0 > m - 1 => m = 0)
    OBVIOUS
  <2>2. QED
    BY <2>1, FS_Interval
<1>11. QED
  BY <1>7, <1>9, <1>10

LEMMA PeersFinite ==
    ASSUME NEW f, NEW p
    PROVE  /\ Available(f) \ {p} \in SUBSET Nat
           /\ IsFiniteSet(Available(f) \ {p})
           /\ Cardinality(Available(f)) \in Nat
           /\ p \in Available(f) => Cardinality(Available(f) \ {p}) = Cardinality(Available(f)) - 1
           /\ p \notin Available(f) => Cardinality(Available(f) \ {p}) = Cardinality(Available(f))
<1>1. Available(f) \subseteq Nat
  BY AgreementAssumption DEF Available, Ids
<1>2. IsFiniteSet(Available(f)) /\ Cardinality(Available(f)) \in Nat
  BY AvailableFinite, FS_CardinalityType
<1>3. QED
  BY <1>1, <1>2, FS_RemoveElement

\* selected_ids, in these terms.
LEMMA SelectedIsLeadAndFirst ==
    ASSUME width \in Nat, NEW f, NEW p
    PROVE  /\ p \in Available(f) =>
                SelectedIds(f, p) = First(Available(f) \ {p}, width - 1) \cup {p}
           /\ p \notin Available(f) => SelectedIds(f, p) = First(Available(f) \ {p}, width)
<1>1. ASSUME p \in Available(f)
      PROVE  SelectedIds(f, p) = First(Available(f) \ {p}, width - 1) \cup {p}
  <2>1. Available(f) \cap {p} = {p} /\ Cardinality({p}) = 1
    BY <1>1, FS_Singleton
  <2>2. QED
    BY <2>1 DEF SelectedIds, First, Below
<1>2. ASSUME p \notin Available(f)
      PROVE  SelectedIds(f, p) = First(Available(f) \ {p}, width)
  <2>1. Available(f) \cap {p} = {} /\ Cardinality({}) = 0
    BY <1>2, FS_EmptySet
  <2>2. QED
    BY <2>1 DEF SelectedIds, First, Below
<1>3. QED
  BY <1>1, <1>2

\* Enough admitted implementations make the set complete, whatever the primary.
LEMMA SelectedSize ==
    ASSUME width \in Nat \ {0}, NEW f, NEW p, Cardinality(Available(f)) >= width
    PROVE  Cardinality(SelectedIds(f, p)) = width
<1> DEFINE P == Available(f) \ {p}
<1>1. CASE p \in Available(f)
  <2>1. width - 1 \in Nat /\ width - 1 <= Cardinality(P)
    <3>1. /\ Cardinality(P) = Cardinality(Available(f)) - 1
          /\ Cardinality(Available(f)) \in Nat
      BY <1>1, PeersFinite
    <3>2. QED
      BY <3>1
  <2>2. IsFiniteSet(First(P, width - 1)) /\ Cardinality(First(P, width - 1)) = width - 1
    BY <2>1, PeersFinite, RanksFill
  <2>3. p \notin First(P, width - 1)
    BY DEF First
  <2>4. Cardinality(First(P, width - 1) \cup {p}) = Cardinality(First(P, width - 1)) + 1
    BY <2>2, <2>3, FS_AddElement
  <2>5. SelectedIds(f, p) = First(P, width - 1) \cup {p}
    BY <1>1, SelectedIsLeadAndFirst
  <2>6. QED
    BY <2>1, <2>2, <2>4, <2>5
<1>2. CASE p \notin Available(f)
  <2>1. width <= Cardinality(P)
    BY <1>2, PeersFinite
  <2>2. Cardinality(First(P, width)) = width
    BY <2>1, PeersFinite, RanksFill
  <2>3. QED
    BY <1>2, <2>2, SelectedIsLeadAndFirst
<1>3. QED
  BY <1>1, <1>2

\* The members of P below q are among its first m when they are at most m, and
\* are its first m when they are m.
LEMMA PrefixFirst ==
    ASSUME NEW P \in SUBSET Nat, IsFiniteSet(P), NEW q \in Nat, NEW m \in Nat
    PROVE  /\ Cardinality(Below(P, q)) \in Nat /\ IsFiniteSet(Below(P, q))
           /\ Cardinality(Below(P, q)) <= m => Below(P, q) \subseteq First(P, m)
           /\ Cardinality(Below(P, q)) = m => Below(P, q) = First(P, m)
<1>1. Below(P, q) \subseteq P /\ \A i \in P : Below(P, i) \subseteq P
  BY DEF Below
<1>2. Cardinality(Below(P, q)) \in Nat /\ IsFiniteSet(Below(P, q))
  BY <1>1, SubsetSize
<1>3. \A i \in P : Cardinality(Below(P, i)) \in Nat /\ IsFiniteSet(Below(P, i))
  BY <1>1, SubsetSize
<1>4. ASSUME NEW i \in Below(P, q)
      PROVE  Cardinality(Below(P, i)) < Cardinality(Below(P, q))
  <2>1. i \in P /\ i < q /\ i \notin Below(P, i)
    BY DEF Below
  <2>2. i \in Nat /\ i <= q
    BY <2>1
  <2>3. Below(P, i) \subseteq Below(P, q)
    BY <2>2, BelowGrows
  <2>4. QED
    BY <1>2, <2>1, <2>3, SubsetSize
<1>5. ASSUME NEW i \in P, i \notin Below(P, q)
      PROVE  Cardinality(Below(P, i)) >= Cardinality(Below(P, q))
  <2>1. i \in Nat /\ ~(i < q)
    BY <1>5 DEF Below
  <2>2. q <= i
    BY <2>1
  <2>3. Below(P, q) \subseteq Below(P, i)
    BY <2>1, <2>2, BelowGrows
  <2>4. QED
    BY <1>3, <2>3, SubsetSize
<1>6. ASSUME Cardinality(Below(P, q)) <= m
      PROVE  Below(P, q) \subseteq First(P, m)
  <2>1. \A i \in Below(P, q) : i \in P /\ Cardinality(Below(P, i)) < m
    <3> TAKE i \in Below(P, q)
    <3>1. i \in P /\ Cardinality(Below(P, i)) \in Nat
      BY <1>1, <1>3
    <3>2. Cardinality(Below(P, i)) < Cardinality(Below(P, q))
      BY <1>4
    <3>3. QED
      BY <1>2, <1>6, <3>1, <3>2
  <2>2. QED
    BY <2>1 DEF First
<1>7. ASSUME Cardinality(Below(P, q)) = m
      PROVE  First(P, m) \subseteq Below(P, q)
  <2>1. \A i \in P : Cardinality(Below(P, i)) < m => i \in Below(P, q)
    <3> TAKE i \in P
    <3>1. Cardinality(Below(P, i)) \in Nat
      BY <1>3
    <3>2. i \notin Below(P, q) => Cardinality(Below(P, i)) >= Cardinality(Below(P, q))
      BY <1>5
    <3>3. QED
      BY <1>2, <1>7, <3>1, <3>2
  <2>2. QED
    BY <2>1 DEF First
<1>8. QED
  BY <1>2, <1>6, <1>7

\* A prefix of the loop, the primary included, is selected while it is no
\* longer than the width, and is all that is selected once it has the width.
LEMMA PrefixSelected ==
    ASSUME width \in Nat \ {0}, NEW f, NEW p, NEW q \in Nat,
           Cardinality(Prefix(f, p, q)) <= width
    PROVE  /\ Prefix(f, p, q) \subseteq SelectedIds(f, p)
           /\ Cardinality(Prefix(f, p, q)) = width => Prefix(f, p, q) = SelectedIds(f, p)
<1> DEFINE S == Prefix(f, p, q)
           P == Available(f) \ {p}
           B == Below(P, q)
<1>1. Cardinality(B) \in Nat /\ IsFiniteSet(B)
  BY PeersFinite, PrefixFirst
<1>2. CASE p \in Available(f)
  <2>1. S = B \cup {p} /\ p \notin B
    BY <1>2 DEF Below, Prefix
  <2>2. Cardinality(B \cup {p}) = Cardinality(B) + 1
    BY <1>1, <2>1, FS_AddElement
  <2>3. width - 1 \in Nat /\ Cardinality(B) <= width - 1
    BY <1>1, <2>1, <2>2
  <2>4. /\ B \subseteq First(P, width - 1)
        /\ Cardinality(B) = width - 1 => B = First(P, width - 1)
    BY <2>3, PeersFinite, PrefixFirst
  <2>5. Cardinality(S) = width => Cardinality(B) = width - 1
    BY <1>1, <2>1, <2>2
  <2>6. SelectedIds(f, p) = First(P, width - 1) \cup {p}
    BY <1>2, SelectedIsLeadAndFirst
  <2>7. QED
    BY <2>1, <2>4, <2>5, <2>6
<1>3. CASE p \notin Available(f)
  <2>1. S = B
    BY <1>3 DEF Below, Prefix
  <2>2. /\ B \subseteq First(P, width)
        /\ Cardinality(B) = width => B = First(P, width)
    BY <2>1, PeersFinite, PrefixFirst
  <2>3. SelectedIds(f, p) = First(P, width)
    BY <1>3, SelectedIsLeadAndFirst
  <2>4. QED
    BY <2>1, <2>2, <2>3
<1>4. QED
  BY <1>2, <1>3

-----------------------------------------------------------------------------
\* Agreement::run executes exactly the implementations that selected_ids
\* reports for the primary it read, calls no other before a disagreement, and
\* every composition installed later leaves the reported set complete.
THEOREM RunsSelectedAlways == Spec => []RunsSelected
<1>1. IInv => RunsSelected
  <2> SUFFICES ASSUME IInv PROVE RunsSelected
    OBVIOUS
  <2>1. TypeOK /\ Enough
    BY DEF IInv
  <2>2. ASSUME NEW w \in Workers, status[w] = "agreed"
        PROVE  called[w] = SelectedIds(fn[w], first[w])
    <3>1. /\ called[w] = Prefix(fn[w], first[w], pos[w])
          /\ Cardinality(called[w]) = width /\ pos[w] \in Nat
      BY <2>1, <2>2, AgreementAssumption DEF IInv, RunInv, Visited, TypeOK
    <3>2. QED
      BY <2>1, <3>1, PrefixSelected DEF TypeOK
  <2>3. ASSUME NEW w \in Workers, status[w] = "Disagreement"
        PROVE  called[w] \subseteq SelectedIds(fn[w], first[w])
    <3>1. /\ called[w] = Prefix(fn[w], first[w], pos[w] + 1)
          /\ Cardinality(called[w]) <= width /\ pos[w] + 1 \in Nat
      BY <2>1, <2>3, AgreementAssumption DEF IInv, RunInv, Reached, TypeOK
    <3>2. QED
      BY <2>1, <3>1, PrefixSelected DEF TypeOK
  <2>4. \A f \in Functions : Cardinality(SelectedIds(f, primary[f])) = width
    BY <2>1, SelectedSize DEF Enough, TypeOK
  <2>5. QED
    BY <2>2, <2>3, <2>4 DEF RunsSelected
<1>2. QED
  BY <1>1, InitIInv, NextIInv, PTL DEF Spec

\* A function that disagreed is not run again in its request: only the run that
\* classifies the outcome follows, and that one once.
Ended ==
    \A w \in Workers :
        /\ status[w] = "idle" => failed[w] = {}
        /\ fn[w] # Classify /\ status[w] # "Disagreement" => failed[w] = {}
        /\ fn[w] # Classify => Classify \notin failed[w]
        /\ status[w] = "running" => fn[w] \notin failed[w]

LEMMA NextEnded ==
    ASSUME TypeOK, Ended, [Next]_vars
    PROVE  Ended'
<1> SUFFICES ASSUME NEW v \in Workers
             PROVE  /\ status'[v] = "idle" => failed'[v] = {}
                    /\ fn'[v] # Classify /\ status'[v] # "Disagreement" => failed'[v] = {}
                    /\ fn'[v] # Classify => Classify \notin failed'[v]
                    /\ status'[v] = "running" => fn'[v] \notin failed'[v]
  BY DEF Ended
<1>1. CASE UpdatePrimary \/ UNCHANGED vars
  BY <1>1 DEF UpdatePrimary, vars, locals, Ended
<1>2. ASSUME NEW w \in Workers, Step(w), w # v
      PROVE  status'[v] = status[v] /\ failed'[v] = failed[v] /\ fn'[v] = fn[v]
  BY <1>2 DEF Step, StartRun, RecordResult, BeginRun, Skip, CallAgrees, CallDisagrees, EndRequest,
              locals, TypeOK
<1>3. CASE StartRun(v)
  <2>1. status'[v] = "running" /\ fn'[v] # Classify /\ failed' = failed /\ failed[v] = {}
    BY <1>3 DEF StartRun, BeginRun, GoesOn, TypeOK, Ended
  <2>2. QED
    BY <2>1
<1>4. CASE RecordResult(v)
  <2>1. /\ status'[v] = "running" /\ fn'[v] = Classify /\ failed' = failed
        /\ status[v] = "idle" \/ fn[v] # Classify
    BY <1>4 DEF RecordResult, BeginRun, TypeOK
  <2>2. Classify \notin failed[v]
    BY <2>1 DEF Ended
  <2>3. QED
    BY <2>1, <2>2
<1>5. CASE Skip(v) \/ CallAgrees(v)
  <2>1. /\ status[v] = "running" /\ status'[v] \in {"running", "agreed", "Internal"}
        /\ UNCHANGED <<fn, failed>>
    BY <1>5 DEF Skip, CallAgrees, AfterCandidate, TypeOK
  <2>2. QED
    BY <2>1 DEF Ended
<1>6. CASE CallDisagrees(v)
  <2>1. /\ status[v] = "running" /\ status'[v] = "Disagreement" /\ fn' = fn
        /\ failed'[v] = failed[v] \cup {fn[v]}
    BY <1>6 DEF CallDisagrees, TypeOK
  <2>2. QED
    BY <2>1 DEF Ended
<1>7. CASE EndRequest(v)
  <2>1. /\ status'[v] = "idle" /\ failed'[v] = {}
    BY <1>7 DEF EndRequest, TypeOK
  <2>2. QED
    BY <2>1
<1>8. QED
  BY <1>1, <1>2, <1>3, <1>4, <1>5, <1>6, <1>7 DEF Next, Step, Ended

\* A call is appended: every record that is not its own was there before.
LEMMA TraceGrows ==
    ASSUME TypeOK, NEW v \in Workers, NEW k \in DOMAIN Traced(v), Traced(v)[k].function # fn[v]
    PROVE  k \in DOMAIN trace[v] /\ Traced(v)[k] = trace[v][k]
<1>1. trace[v] \in Seq(CallRecords) /\ Len(trace[v]) \in Nat
  BY DEF TypeOK
<1>2. PICK r : r.function = fn[v] /\ Traced(v) = Append(trace[v], r)
  BY DEF Traced
<1>3. /\ DOMAIN Append(trace[v], r) = 1 .. Len(trace[v]) + 1
      /\ \A i \in 1 .. Len(trace[v]) : Append(trace[v], r)[i] = trace[v][i]
      /\ Append(trace[v], r)[Len(trace[v]) + 1] = r
      /\ DOMAIN trace[v] = 1 .. Len(trace[v])
  BY <1>1
<1>4. k # Len(trace[v]) + 1
  BY <1>2, <1>3
<1>5. k \in 1 .. Len(trace[v])
  BY <1>1, <1>2, <1>3, <1>4
<1>6. QED
  BY <1>2, <1>3, <1>5

\* mark_trace_disagreement leaves no successful call of the function in the
\* request's telemetry, and what is traced after it is of another function.
LEMMA NextTraced ==
    ASSUME TypeOK, Ended, DisagreementTraced, [Next]_vars
    PROVE  DisagreementTraced'
<1> SUFFICES ASSUME NEW v \in Workers, NEW k \in DOMAIN trace'[v],
                    trace'[v][k].function \in failed'[v]
             PROVE  trace'[v][k].outcome = "error"
  BY DEF DisagreementTraced
<1>1. CASE CallDisagrees(v)
  <2>1. /\ trace'[v] = Marked(Traced(v), fn[v]) /\ failed'[v] = failed[v] \cup {fn[v]}
    BY <1>1 DEF CallDisagrees, TypeOK
  <2>2. k \in DOMAIN Traced(v)
    BY <2>1 DEF Marked
  <2>3. Candidate(v) \in Ids
    BY <1>1 DEF CallDisagrees, Callable, Available
  <2>4. Traced(v) \in Seq(CallRecords)
    BY <2>3, TracedType
  <2>5. Traced(v)[k] \in CallRecords
    BY <2>2, <2>4
  <2>6. trace'[v][k] = IF Traced(v)[k].function = fn[v]
                       THEN [Traced(v)[k] EXCEPT !.outcome = "error"] ELSE Traced(v)[k]
    BY <2>1, <2>2 DEF Marked
  <2>7. CASE Traced(v)[k].function = fn[v]
    BY <2>5, <2>6, <2>7 DEF CallRecords
  <2>8. CASE Traced(v)[k].function # fn[v]
    <3>1. trace'[v][k] = Traced(v)[k] /\ Traced(v)[k].function \in failed[v]
      BY <2>1, <2>6, <2>8
    <3>2. k \in DOMAIN trace[v] /\ Traced(v)[k] = trace[v][k]
      BY <2>2, <2>8, TraceGrows
    <3>3. QED
      BY <3>1, <3>2 DEF DisagreementTraced
  <2>9. QED
    BY <2>7, <2>8
<1>2. CASE CallAgrees(v)
  <2>1. /\ trace'[v] = Traced(v) /\ failed' = failed /\ fn[v] \notin failed[v]
    BY <1>2 DEF CallAgrees, TypeOK, Ended
  <2>2. k \in DOMAIN trace[v] /\ Traced(v)[k] = trace[v][k]
    BY <2>1, TraceGrows
  <2>3. QED
    BY <2>1, <2>2 DEF DisagreementTraced
<1>3. CASE EndRequest(v)
  BY <1>3 DEF EndRequest, TypeOK
<1>4. CASE ~CallDisagrees(v) /\ ~CallAgrees(v) /\ ~EndRequest(v)
  <2>1. trace'[v] = trace[v] /\ failed'[v] = failed[v]
    <3>1. CASE UpdatePrimary \/ UNCHANGED vars
      BY <3>1 DEF UpdatePrimary, vars
    <3>2. ASSUME NEW w \in Workers, Step(w), w # v
          PROVE  trace'[v] = trace[v] /\ failed'[v] = failed[v]
      BY <3>2 DEF Step, StartRun, RecordResult, BeginRun, Skip, CallAgrees, CallDisagrees, EndRequest,
                  locals, TypeOK
    <3>3. CASE StartRun(v) \/ RecordResult(v) \/ Skip(v)
      BY <3>3 DEF StartRun, RecordResult, BeginRun, Skip
    <3>4. QED
      BY <1>4, <3>1, <3>2, <3>3 DEF Next, Step
  <2>2. QED
    BY <2>1 DEF DisagreementTraced
<1>5. QED
  BY <1>1, <1>2, <1>3, <1>4

\* After a disagreement and until record_request_result has taken the trace, the
\* request's telemetry holds no successful call of the function, from this run or
\* an earlier one of the same request.
THEOREM DisagreementTracedAlways == Spec => []DisagreementTraced
<1>1. Init => DisagreementTraced /\ Ended
  BY DEF Init, DisagreementTraced, Ended
<1>2. IInv /\ Ended /\ DisagreementTraced /\ [Next]_vars => DisagreementTraced' /\ Ended'
  BY NextTraced, NextEnded DEF IInv
<1>3. QED
  BY <1>1, <1>2, InitIInv, NextIInv, PTL DEF Spec
==============================================================================
