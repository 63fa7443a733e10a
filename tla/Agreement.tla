------------------------------ MODULE Agreement ------------------------------
(***************************************************************************)
(* Agreement mode of src/src/proxy.rs: every critical function of a request*)
(* is executed by width independent implementations, the composition's     *)
(* assigned implementation first, and the request goes on only when their  *)
(* results are equal.  Connection threads run functions concurrently with  *)
(* the refresh thread, which replaces the primary map under its lock.      *)
(*                                                                         *)
(* An implementation is its position in registered_implementations(), so   *)
(* the registry's order is the order of numbers and identities are unique. *)
(***************************************************************************)
EXTENDS Naturals, FiniteSets, Sequences

CONSTANTS
    Workers,        \* connection threads
    Functions,      \* the critical functions
    Classify,       \* of them, classify_telemetry_outcome: run once a request is over
    N,              \* number of registry entries
    Implements,     \* Implements[i]: the function entry i implements
    Outcomes,       \* results an implementation can return
    OkOutcomes,     \* those that are Ok(_)
    MaxRuns         \* bound on the functions one request runs before that

Ids == 1 .. N
NoId == 0

ASSUME AgreementAssumption ==
    /\ N \in Nat
    /\ Implements \in [Ids -> Functions]
    /\ Classify \in Functions /\ Outcomes # {}
    /\ OkOutcomes \subseteq Outcomes
    /\ NoId \notin Outcomes
    /\ MaxRuns \in Nat

VARIABLES
    width,          \* Agreement.width, fixed for the runtime
    quarantined,    \* Agreement.quarantined, fixed for the runtime
    primary,        \* Agreement.primary: what the composition assigns
    status,         \* per worker: idle, running, agreed, Disagreement, Internal
    fn,             \* the function being run
    answers,        \* what each implementation returns for this input
    first,          \* primary_id, read once per run
    pos,            \* candidates visited: 0 is the primary's turn
    count,          \* the local variable called
    called,         \* history: the implementations invoked in this run
    reference,      \* the first result, NoId while there is none
    trace,          \* CALL_TRACE of the worker's thread
    failed,         \* functions whose run in this request was a disagreement
    runs            \* functions run in this request

config == <<width, quarantined>>
locals == <<fn, answers, first, pos, count, called, reference>>
vars == <<config, primary, status, locals, trace, failed, runs>>

CallRecords == [function : Functions, implementation : Ids, outcome : {"ok", "error"}]

TypeOK ==
    /\ width \in Nat \ {0}
    /\ quarantined \subseteq Ids
    /\ primary \in [Functions -> Ids \cup {NoId}]
    /\ status \in [Workers -> {"idle", "running", "agreed", "Disagreement", "Internal"}]
    /\ fn \in [Workers -> Functions]
    /\ answers \in [Workers -> [Ids -> Outcomes]]
    /\ first \in [Workers -> Ids \cup {NoId}]
    /\ pos \in [Workers -> 0 .. N + 1]
    /\ count \in [Workers -> 0 .. N + 1]
    /\ called \in [Workers -> SUBSET Ids]
    /\ reference \in [Workers -> Outcomes \cup {NoId}]
    /\ trace \in [Workers -> Seq(CallRecords)]
    /\ failed \in [Workers -> SUBSET Functions]
    /\ runs \in [Workers -> 0 .. MaxRuns]

\* What the composition may hold: nothing when there is no Polyform runtime,
\* else one implementation of each function (verify_assignment).
NoComposition == [f \in Functions |-> NoId]
Compositions == { c \in [Functions -> Ids] : \A f \in Functions : Implements[c[f]] = f }

\* The entries that can run f on this listener.
Available(f) == { i \in Ids : Implements[i] = f /\ i \notin quarantined }

\* Faulty variant: reports the registry's first peers, whatever the primary.
SelectedInOrder(f, primaryId) ==
    { i \in Available(f) : Cardinality({ j \in Available(f) : j < i }) < width }

\* selected_ids: the primary if it is available, then the first available
\* peers in registry order up to the width.
SelectedIds(f, primaryId) ==
    LET lead == Available(f) \cap {primaryId}
        peers == Available(f) \ {primaryId}
        room == width - Cardinality(lead)
    IN  lead \cup { i \in peers : Cardinality({ j \in peers : j < i }) < room }

\* build_runtime refuses a configuration with an incomplete agreement set.
BuildAccepts == \A f \in Functions : Cardinality(SelectedIds(f, primary[f])) = width

\* What the implementations of f may answer; those of other functions are not
\* asked, and an arbitrary outcome stands for them.
NotAsked == CHOOSE o \in Outcomes : TRUE
Answers(f) == { a \in [Ids -> Outcomes] : \A i \in Ids : Implements[i] # f => a[i] = NotAsked }

\* validate_config admits widths from two to five, and any quarantine list.
Init ==
    /\ width \in 2 .. 5
    /\ quarantined \in SUBSET Ids
    /\ primary \in Compositions \cup {NoComposition}
    /\ BuildAccepts
    /\ status = [w \in Workers |-> "idle"]
    /\ fn = [w \in Workers |-> Classify]
    /\ answers = [w \in Workers |-> [i \in Ids |-> NotAsked]]
    /\ first = [w \in Workers |-> NoId]
    /\ pos = [w \in Workers |-> 0]
    /\ count = [w \in Workers |-> 0]
    /\ called = [w \in Workers |-> {}]
    /\ reference = [w \in Workers |-> NoId]
    /\ trace = [w \in Workers |-> <<>>]
    /\ failed = [w \in Workers |-> {}]
    /\ runs = [w \in Workers |-> 0]

\* Agreement::run up to its loop: the primary is read, the lock released.
BeginRun(w, f) ==
    /\ status' = [status EXCEPT ![w] = "running"]
    /\ fn' = [fn EXCEPT ![w] = f]
    /\ \E a \in Answers(f) : answers' = [answers EXCEPT ![w] = a]
    /\ first' = [first EXCEPT ![w] = primary[f]]
    /\ pos' = [pos EXCEPT ![w] = 0]
    /\ count' = [count EXCEPT ![w] = 0]
    /\ called' = [called EXCEPT ![w] = {}]
    /\ reference' = [reference EXCEPT ![w] = NoId]
    /\ UNCHANGED <<config, primary, trace, failed>>

\* The run of the last function of process_request came back with an Ok.
GoesOn(w) == status[w] = "agreed" /\ fn[w] # Classify /\ reference[w] \in OkOutcomes

\* process_request runs its next function; any other answer ends it.
StartRun(w) ==
    /\ status[w] = "idle" \/ GoesOn(w)
    /\ runs[w] < MaxRuns
    /\ runs' = [runs EXCEPT ![w] = @ + 1]
    /\ \E f \in Functions \ {Classify} : BeginRun(w, f)

\* record_request_result classifies the outcome by agreement too, whatever it
\* is, a disagreement included, before the trace is taken.
RecordResult(w) ==
    /\ status[w] # "running" /\ (status[w] # "idle" => fn[w] # Classify)
    /\ BeginRun(w, Classify)
    /\ UNCHANGED runs

\* The candidate at the worker's position: the primary, then everyone else.
Candidate(w) == IF pos[w] = 0 THEN first[w] ELSE pos[w]

\* Faulty variant: the primary is called again when its registry turn comes.
CallableTwice(w) == Candidate(w) \in Available(fn[w])

\* Whether the loop calls it: entries that are quarantined or implement
\* another function are passed over, and the primary has had its turn.
Callable(w) ==
    /\ Candidate(w) \in Available(fn[w])
    /\ pos[w] # 0 => pos[w] # first[w]

\* Faulty variant: the last registry entry is never reached.
AfterCandidateShort(w, n) ==
    IF n = width THEN "agreed" ELSE IF pos[w] + 1 = N THEN "Internal" ELSE "running"

\* Where the loop goes after a candidate, n results being in: it breaks at the
\* width, and running out of candidates before that is Fault::Internal.
AfterCandidate(w, n) ==
    IF n = width THEN "agreed" ELSE IF pos[w] = N THEN "Internal" ELSE "running"

\* Faulty variant: only a call advances the loop.
SkipStuck(w) ==
    /\ status[w] = "running"
    /\ ~Callable(w)
    /\ UNCHANGED vars

Skip(w) ==
    /\ status[w] = "running"
    /\ ~Callable(w)
    /\ pos' = [pos EXCEPT ![w] = @ + 1]
    /\ status' = [status EXCEPT ![w] = AfterCandidate(w, count[w])]
    /\ UNCHANGED <<config, primary, fn, answers, first, count, called, reference, trace, failed, runs>>

\* trace_call with telemetry_call_outcome.
Traced(w) ==
    Append(trace[w],
           [function |-> fn[w],
            implementation |-> Candidate(w),
            outcome |-> IF answers[w][Candidate(w)] \in OkOutcomes THEN "ok" ELSE "error"])

\* Faulty variant: only the call that differed is marked.
MarkedLast(t, f) == [t EXCEPT ![Len(t)].outcome = "error"]

\* mark_trace_disagreement: every call of the function in this trace.
Marked(t, f) ==
    [k \in DOMAIN t |-> IF t[k].function = f THEN [t[k] EXCEPT !.outcome = "error"] ELSE t[k]]

\* One implementation returned a result equal to the reference, or the first.
CallAgrees(w) ==
    LET c == Candidate(w) IN
    /\ status[w] = "running"
    /\ Callable(w)
    /\ reference[w] \in {NoId, answers[w][c]}
    /\ reference' = [reference EXCEPT ![w] = answers[w][c]]
    /\ called' = [called EXCEPT ![w] = @ \cup {c}]
    /\ trace' = [trace EXCEPT ![w] = Traced(w)]
    /\ pos' = [pos EXCEPT ![w] = @ + 1]
    /\ count' = [count EXCEPT ![w] = @ + 1]
    /\ status' = [status EXCEPT ![w] = AfterCandidate(w, count[w] + 1)]
    /\ UNCHANGED <<config, primary, fn, answers, first, failed, runs>>

\* It returned something else: Fault::Disagreement.
CallDisagrees(w) ==
    LET c == Candidate(w) IN
    /\ status[w] = "running"
    /\ Callable(w)
    /\ reference[w] \notin {NoId, answers[w][c]}
    /\ count' = [count EXCEPT ![w] = @ + 1]
    /\ called' = [called EXCEPT ![w] = @ \cup {c}]
    /\ trace' = [trace EXCEPT ![w] = Marked(Traced(w), fn[w])]
    /\ status' = [status EXCEPT ![w] = "Disagreement"]
    /\ failed' = [failed EXCEPT ![w] = @ \cup {fn[w]}]
    /\ UNCHANGED <<config, primary, fn, answers, first, pos, reference, runs>>

\* The trace is taken: by record_request_result whatever came of its own run,
\* or by handle_connection when a reused connection closes between two functions.
\* The next request begins with none.
EndRequest(w) ==
    /\ status[w] \notin {"idle", "running"}
    /\ fn[w] = Classify \/ GoesOn(w)
    /\ status' = [status EXCEPT ![w] = "idle"]
    /\ trace' = [trace EXCEPT ![w] = <<>>]
    /\ failed' = [failed EXCEPT ![w] = {}]
    /\ runs' = [runs EXCEPT ![w] = 0]
    /\ UNCHANGED <<config, primary, locals>>

\* update_primary, from the refresh thread.
UpdatePrimary ==
    /\ primary # NoComposition
    /\ primary' \in Compositions
    /\ UNCHANGED <<config, status, locals, trace, failed, runs>>

Step(w) ==
    \/ StartRun(w) \/ RecordResult(w)
    \/ Skip(w) \/ CallAgrees(w) \/ CallDisagrees(w)
    \/ EndRequest(w)

Next == UpdatePrimary \/ \E w \in Workers : Step(w)

\* The loop of run never blocks: its thread keeps executing it.
Fairness ==
    \A w \in Workers : WF_vars(Skip(w) \/ CallAgrees(w) \/ CallDisagrees(w))

Spec == Init /\ [][Next]_vars /\ Fairness

-----------------------------------------------------------------------------
\* A result goes on only when exactly width distinct implementations of the
\* function, none of them quarantined, all returned it.
Unanimous ==
    \A w \in Workers : status[w] = "agreed" =>
        /\ Cardinality(called[w]) = width
        /\ called[w] \subseteq Available(fn[w])
        /\ \A i \in called[w] : answers[w][i] = reference[w]

\* Every composition the refresh thread installs, also one whose primary is
\* quarantined on this listener, leaves enough peers: run never fails for want
\* of implementations once build_runtime has accepted the configuration.
NoInternal == \A w \in Workers : status[w] # "Internal"

\* Readiness and the startup diagnostics report selected_ids; run executes
\* exactly those implementations, for the primary it read, and no composition
\* installed later makes the set it reports smaller than the width.
RunsSelected ==
    /\ \A w \in Workers :
          /\ status[w] = "agreed" => called[w] = SelectedIds(fn[w], first[w])
          /\ status[w] = "Disagreement" => called[w] \subseteq SelectedIds(fn[w], first[w])
    /\ \A f \in Functions : Cardinality(SelectedIds(f, primary[f])) = width

\* After a disagreement the telemetry of the request holds no successful call
\* of the function, whichever run of the request it came from, until the trace
\* is taken: the calls that classify the outcome come after it and add none.
DisagreementTraced ==
    \A w \in Workers : \A k \in DOMAIN trace[w] :
        trace[w][k].function \in failed[w] => trace[w][k].outcome = "error"

\* Every run of a function ends.
RunEnds == \A w \in Workers : status[w] = "running" ~> status[w] # "running"
=============================================================================
