------------------------ MODULE LiveCompositionProofs ------------------------
(***************************************************************************)
(* For any number of reloads, revisions and reports: no generation runs    *)
(* ahead of the verified composition or falls back to an older one, every  *)
(* report is accounted for, and refreshes are made one at a time.          *)
(***************************************************************************)
EXTENDS LiveComposition, TLAPS

\* The client never holds more than the server has assigned, so a refresh only
\* moves it forward.
Sources == client <= server

\* The refresh threads that have not cleared refresh_in_progress yet, and those
\* that hold the client's mutex.
Pending == {t \in RefreshThreads : refresher[t] \in {"started", "fetching", "fetched", "done"}}
Holding == {t \in RefreshThreads : refresher[t] \in {"fetching", "fetched", "done", "cleared"}}

\* At most one refresh thread has not cleared the flag, whoever is inside
\* refresh_polyform's guard is the one owner of the mutex, and the flag is set
\* exactly from the exchange to the spawn and while such a thread exists.
OneRefresh ==
    /\ \A t, u \in Pending : t = u
    /\ \A t \in RefreshThreads : t \in Holding <=> owner = t
    /\ owner = "telemetry" <=> telemetry = "reporting"
    /\ busy <=> main = "spawning" \/ Pending # {}
    /\ main = "spawning" => Pending = {}

\* The inductive invariant.
IInv == TypeOK /\ Sources /\ OneRefresh /\ NeverAhead /\ TelemetryAccounted

-----------------------------------------------------------------------------
LEMMA InitIInv == Init => IInv
<1> SUFFICES ASSUME Init PROVE IInv
  OBVIOUS
<1> USE LiveAssumption DEF Init, Generations
<1>1. TypeOK
  <2>1. primary \in [Generations -> 0 .. MaxRevision]
    OBVIOUS
  <2>2. changed \in [RefreshThreads -> BOOLEAN] /\ busy \in BOOLEAN /\ settled \in BOOLEAN
    BY Zenon
  <2>3. QED
    BY <2>1, <2>2 DEF TypeOK
<1>2. Sources
  BY DEF Sources
<1>3. Pending = {} /\ Holding = {}
  BY DEF Pending, Holding
<1>4. OneRefresh
  BY <1>3 DEF OneRefresh
<1>5. NeverAhead
  BY DEF NeverAhead
<1>6. TelemetryAccounted
  BY DEF TelemetryAccounted
<1>7. QED
  BY <1>1, <1>2, <1>4, <1>5, <1>6 DEF IInv

\* The main loop and the server.
LEMMA MainIInv ==
    ASSUME IInv, ServerAssigns \/ Reload \/ MainStep \/ ScheduleRefresh
    PROVE  IInv'
<1> USE LiveAssumption
    DEF IInv, TypeOK, Sources, NeverAhead, TelemetryAccounted, Generations,
        refreshVars, telemetryVars
<1>1. CASE ServerAssigns
  BY <1>1 DEF ServerAssigns, OneRefresh, Pending, Holding
<1>2. CASE Reload
  BY <1>2 DEF Reload, OneRefresh, Pending, Holding
<1>3. CASE Build
  <2>1. client \in 0 .. MaxRevision
    OBVIOUS
  <2>2. primary' \in [Generations -> 0 .. MaxRevision]
    BY <1>3, <2>1 DEF Build
  <2>3. NeverAhead'
    BY <1>3, <2>1 DEF Build
  <2>4. OneRefresh'
    BY <1>3 DEF Build, OneRefresh, Pending, Holding
  <2>5. QED
    BY <1>3, <2>2, <2>3, <2>4 DEF Build
<1>4. CASE ReloadFails
  <2>1. OneRefresh'
    BY <1>4 DEF ReloadFails, OneRefresh, Pending, Holding
  <2>2. QED
    BY <1>4, <2>1 DEF ReloadFails
<1>5. CASE Swap
  <2>1. settled' \in BOOLEAN
    BY <1>5, Zenon DEF Swap
  <2>2. live' \in Generations /\ main' = "loop"
    BY <1>5 DEF Swap
  <2>3. OneRefresh'
    BY <1>5 DEF Swap, OneRefresh, Pending, Holding
  <2>4. QED
    BY <1>5, <2>1, <2>2, <2>3 DEF Swap
<1>6. CASE ScheduleRefresh
  <2>1. OneRefresh'
    BY <1>6 DEF ScheduleRefresh, OneRefresh, Pending, Holding
  <2>2. QED
    BY <1>6, <2>1 DEF ScheduleRefresh
<1>7. CASE SpawnFails
  <2>1. OneRefresh'
    BY <1>7 DEF SpawnFails, OneRefresh, Pending, Holding
  <2>2. QED
    BY <1>7, <2>1 DEF SpawnFails
<1>8. ASSUME NEW t \in RefreshThreads, Spawn(t)
      PROVE  IInv'
  <2>1. Pending' = {t} /\ Holding' = Holding
    BY <1>8 DEF Spawn, OneRefresh, Pending, Holding
  <2>2. OneRefresh'
    BY <1>8, <2>1 DEF Spawn, OneRefresh
  <2>3. QED
    BY <1>8, <2>2 DEF Spawn
<1>9. QED
  BY <1>1, <1>2, <1>3, <1>4, <1>5, <1>6, <1>7, <1>8 DEF MainStep

\* A refresh thread: as the owner of the mutex it is the only one that moves.
LEMMA RefreshIInv ==
    ASSUME IInv, NEW t \in RefreshThreads, RefreshLock(t) \/ RefreshStep(t)
    PROVE  IInv'
<1> USE LiveAssumption
    DEF IInv, TypeOK, Sources, NeverAhead, TelemetryAccounted, Generations,
        refreshVars, telemetryVars
<1>1. CASE RefreshLock(t)
  <2>1. Pending' = Pending /\ Holding' = Holding \cup {t}
    BY <1>1 DEF RefreshLock, Pending, Holding
  <2>2. \A u \in RefreshThreads : u # "free" /\ u # "telemetry"
    BY LiveAssumption
  <2>3. \A u \in RefreshThreads : u \notin Holding
    BY <1>1, <2>2 DEF RefreshLock, OneRefresh
  <2>4. OneRefresh'
    BY <1>1, <2>1, <2>2, <2>3 DEF RefreshLock, OneRefresh
  <2>5. QED
    BY <1>1, <2>4 DEF RefreshLock
<1>2. CASE RefreshFetched(t)
  <2>1. Pending' = Pending /\ Holding' = Holding
    BY <1>2 DEF RefreshFetched, Pending, Holding
  <2>2. OneRefresh'
    BY <1>2, <2>1 DEF RefreshFetched, OneRefresh
  <2>3. changed' \in [RefreshThreads -> BOOLEAN]
    BY <1>2, Zenon DEF RefreshFetched
  <2>4. QED
    BY <1>2, <2>2, <2>3 DEF RefreshFetched
<1>3. CASE RefreshFails(t)
  <2>1. Pending' = Pending /\ Holding' = Holding
    BY <1>3 DEF RefreshFails, Pending, Holding
  <2>2. OneRefresh'
    BY <1>3, <2>1 DEF RefreshFails, OneRefresh
  <2>3. QED
    BY <1>3, <2>2 DEF RefreshFails
<1>4. CASE RefreshInstall(t)
  <2>1. Pending' = Pending /\ Holding' = Holding
    BY <1>4 DEF RefreshInstall, Pending, Holding
  <2>2. OneRefresh'
    BY <1>4, <2>1 DEF RefreshInstall, OneRefresh
  <2>3. settled' \in BOOLEAN
    BY <1>4, Zenon DEF RefreshInstall
  <2>4. primary' \in [Generations -> 0 .. MaxRevision] /\ NeverAhead'
    BY <1>4 DEF RefreshInstall
  <2>5. QED
    BY <1>4, <2>2, <2>3, <2>4 DEF RefreshInstall
<1>5. CASE RefreshClears(t)
  <2>1. Pending' = Pending \ {t} /\ Holding' = Holding /\ t \in Pending
    BY <1>5 DEF RefreshClears, Pending, Holding
  <2>2. OneRefresh'
    BY <1>5, <2>1 DEF RefreshClears, OneRefresh
  <2>3. QED
    BY <1>5, <2>2 DEF RefreshClears
<1>6. CASE RefreshDone(t)
  <2>1. Pending' = Pending /\ Holding' = Holding \ {t} /\ owner = t
    BY <1>6 DEF RefreshDone, OneRefresh, Pending, Holding
  <2>2. OneRefresh'
    BY <1>6, <2>1 DEF RefreshDone, OneRefresh
  <2>3. changed' \in [RefreshThreads -> BOOLEAN]
    BY <1>6, Zenon DEF RefreshDone
  <2>4. QED
    BY <1>6, <2>2, <2>3 DEF RefreshDone
<1>7. QED
  BY <1>1, <1>2, <1>3, <1>4, <1>5, <1>6 DEF RefreshStep

\* The connection threads and the telemetry thread.
LEMMA TelemetryIInv ==
    ASSUME IInv, Report \/ TelemetryLock \/ TelemetryStep
    PROVE  IInv'
<1> USE LiveAssumption
    DEF IInv, TypeOK, Sources, NeverAhead, TelemetryAccounted, Generations,
        refreshVars, telemetryVars
<1>1. CASE Report
  <2>0. OneRefresh'
    BY <1>1 DEF Report, OneRefresh, Pending, Holding
  <2>1. CASE queued < QueueCap
    BY <1>1, <2>0, <2>1 DEF Report
  <2>2. CASE ~(queued < QueueCap)
    BY <1>1, <2>0, <2>2 DEF Report
  <2>3. QED
    BY <2>1, <2>2
<1>2. CASE TelemetryLock
  <2>1. OneRefresh'
    BY <1>2 DEF TelemetryLock, OneRefresh, Pending, Holding
  <2>2. QED
    BY <1>2, <2>1 DEF TelemetryLock
<1>3. CASE TelemetryReceive
  <2>1. OneRefresh'
    BY <1>3 DEF TelemetryReceive, OneRefresh, Pending, Holding
  <2>2. QED
    BY <1>3, <2>1 DEF TelemetryReceive
<1>4. CASE TelemetryDone
  <2>1. OneRefresh'
    BY <1>4 DEF TelemetryDone, OneRefresh, Pending, Holding
  <2>2. QED
    BY <1>4, <2>1 DEF TelemetryDone
<1>5. QED
  BY <1>1, <1>2, <1>3, <1>4 DEF TelemetryStep

LEMMA NextIInv == IInv /\ [Next]_vars => IInv'
<1> SUFFICES ASSUME IInv, [Next]_vars PROVE IInv'
  OBVIOUS
<1>1. CASE UNCHANGED vars
  BY <1>1 DEF IInv, TypeOK, Sources, OneRefresh, Pending, Holding, NeverAhead, TelemetryAccounted,
              vars, refreshVars, telemetryVars
<1>2. CASE Next
  BY <1>2, MainIInv, RefreshIInv, TelemetryIInv DEF Next
<1>3. QED
  BY <1>1, <1>2

-----------------------------------------------------------------------------
(* The theorems. *)

\* Whatever reloads and refreshes overlap, no generation's agreement set is
\* given a composition the client has not verified yet.
THEOREM NeverAheadAlways == Spec => []NeverAhead
<1>1. IInv => NeverAhead
  BY DEF IInv
<1>2. QED
  BY <1>1, InitIInv, NextIInv, PTL DEF Spec

\* report_polyform and the telemetry thread lose no report without counting it,
\* and the queue keeps its bound, also while the mutex is held over a refresh.
THEOREM TelemetryAccountedAlways == Spec => []TelemetryAccounted
<1>1. IInv => TelemetryAccounted
  BY DEF IInv
<1>2. QED
  BY <1>1, InitIInv, NextIInv, PTL DEF Spec

\* refresh_in_progress and the mutex let at most one refresh at a time into
\* refresh_polyform, although the flag is cleared before the guard is dropped, so
\* that two threads may exist, and although a spawn may fail.
THEOREM OneRefreshAlways == Spec => []OneRefresh
<1>1. IInv => OneRefresh
  BY DEF IInv
<1>2. QED
  BY <1>1, InitIInv, NextIInv, PTL DEF Spec

\* Neither build_runtime nor update_primary ever takes a generation back to an
\* older revision, although a refresh may install into a replaced generation.
THEOREM GenerationMonotoneAlways == Spec => GenerationMonotone
<1> DEFINE Forward ==
       \A g \in Generations :
          primary[g] # 0 /\ primary'[g] # 0 => primary'[g] >= primary[g]
<1>1. ASSUME IInv, [Next]_vars PROVE [Forward]_vars
  <2> USE LiveAssumption DEF IInv, TypeOK, NeverAhead, Generations
  <2>1. \/ UNCHANGED primary
        \/ Build \/ ReloadFails
        \/ \E t \in RefreshThreads : RefreshInstall(t)
    BY <1>1 DEF Next, vars, MainStep, RefreshStep, TelemetryStep, ServerAssigns, Reload, Swap,
                ScheduleRefresh, Spawn, SpawnFails, RefreshLock, RefreshFetched, RefreshFails,
                RefreshClears, RefreshDone, Report, TelemetryLock, TelemetryReceive, TelemetryDone
  <2>2. CASE UNCHANGED primary
    BY <1>1, <2>2
  <2>3. CASE Build
    BY <1>1, <2>3 DEF Build
  <2>4. CASE ReloadFails
    BY <1>1, <2>4 DEF ReloadFails
  <2>5. ASSUME NEW t \in RefreshThreads, RefreshInstall(t)
        PROVE  Forward
    BY <1>1, <2>5 DEF RefreshInstall
  <2>6. QED
    BY <2>1, <2>2, <2>3, <2>4, <2>5
<1>2. QED
  BY <1>1, InitIInv, NextIInv, PTL DEF Spec, GenerationMonotone
=============================================================================
