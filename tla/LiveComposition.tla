--------------------------- MODULE LiveComposition ---------------------------
(***************************************************************************)
(* How a verified composition reaches the agreement set of the live        *)
(* runtime in src/src/proxy.rs.  Four kinds of threads meet at the mutex   *)
(* around the Polyform client: the main loop, which builds the next        *)
(* generation on SIGHUP and schedules refreshes; the refresh thread, which *)
(* keeps the mutex over its network request; the telemetry thread, which   *)
(* keeps it over each report; and the connection threads, which only queue *)
(* reports.  A composition is its revision; [polyform] does not change.    *)
(***************************************************************************)
EXTENDS Naturals

CONSTANTS
    RefreshThreads, \* refresh threads that may exist at the same time
    MaxRevision,    \* bound on the revisions the server assigns
    MaxGeneration,  \* bound on the generations built, refused ones included
    MaxReports,     \* bound on the requests that report telemetry
    QueueCap        \* sync_channel's capacity, 1024 in the code

ASSUME LiveAssumption ==
    /\ MaxRevision \in Nat \ {0}
    /\ MaxGeneration \in Nat \ {0}
    /\ MaxReports \in Nat
    /\ QueueCap \in Nat
    /\ RefreshThreads \cap {"free", "telemetry"} = {}

VARIABLES
    server,     \* the revision the server assigns now
    client,     \* client.composition, guarded by the mutex
    owner,      \* who holds the client's mutex: a refresh thread, telemetry or no one
    primary,    \* primary[g]: Agreement.primary of generation g, 0 if not built
    live,       \* the generation in LiveState
    last,       \* the last generation a reload began to build
    main,       \* the main loop: loop, building, built or spawning
    refresher,  \* per refresh thread: none, started, fetching, fetched, done, cleared
    captured,   \* the generation the thread was given
    changed,    \* client.refresh()'s result
    busy,       \* refresh_in_progress
    settled,    \* history: a refresh of the live generation succeeded since it went live
    telemetry,  \* the telemetry thread: idle, received or reporting
    queued, dropped, taken, produced    \* counts of reports

refreshVars == <<refresher, captured, changed, busy, settled>>
telemetryVars == <<telemetry, queued, dropped, taken, produced>>
vars == <<server, client, owner, primary, live, last, main, refreshVars, telemetryVars>>

Generations == 1 .. MaxGeneration

TypeOK ==
    /\ server \in 1 .. MaxRevision
    /\ client \in 1 .. MaxRevision
    /\ owner \in RefreshThreads \cup {"free", "telemetry"}
    /\ primary \in [Generations -> 0 .. MaxRevision]
    /\ live \in Generations /\ last \in Generations
    /\ main \in {"loop", "building", "built", "spawning"}
    /\ refresher \in [RefreshThreads ->
                       {"none", "started", "fetching", "fetched", "done", "cleared"}]
    /\ captured \in [RefreshThreads -> Generations]
    /\ changed \in [RefreshThreads -> BOOLEAN]
    /\ busy \in BOOLEAN /\ settled \in BOOLEAN
    /\ telemetry \in {"idle", "received", "reporting"}
    /\ queued \in 0 .. QueueCap
    /\ dropped \in 0 .. MaxReports /\ taken \in 0 .. MaxReports /\ produced \in 0 .. MaxReports

\* run_inner registered and built its first generation.
Init ==
    /\ server = 1 /\ client = 1 /\ owner = "free"
    /\ primary = [g \in Generations |-> IF g = 1 THEN 1 ELSE 0]
    /\ live = 1 /\ last = 1 /\ main = "loop"
    /\ refresher = [t \in RefreshThreads |-> "none"]
    /\ captured = [t \in RefreshThreads |-> 1]
    /\ changed = [t \in RefreshThreads |-> FALSE]
    /\ busy = FALSE /\ settled = TRUE
    /\ telemetry = "idle"
    /\ queued = 0 /\ dropped = 0 /\ taken = 0 /\ produced = 0

\* The operator or the server moves the installation to another composition.
ServerAssigns ==
    /\ server < MaxRevision
    /\ server' = server + 1
    /\ UNCHANGED <<client, owner, primary, live, last, main, refreshVars, telemetryVars>>

-----------------------------------------------------------------------------
(* The main loop. *)

\* SIGHUP: the replacement keeps the running Polyform client.
Reload ==
    /\ main = "loop"
    /\ last < MaxGeneration
    /\ last' = last + 1
    /\ main' = "building"
    /\ UNCHANGED <<server, client, owner, primary, live, refreshVars, telemetryVars>>

\* Faulty variant: takes what the server announces, not what was verified.
BuildUnverified ==
    /\ main = "building"
    /\ owner = "free"
    /\ primary' = [primary EXCEPT ![last] = server]
    /\ main' = "built"
    /\ UNCHANGED <<server, client, owner, live, last, refreshVars, telemetryVars>>

\* build_runtime copies the client's composition under the mutex; it does not
\* block while it holds it.
Build ==
    /\ main = "building"
    /\ owner = "free"
    /\ primary' = [primary EXCEPT ![last] = client]
    /\ main' = "built"
    /\ UNCHANGED <<server, client, owner, live, last, refreshVars, telemetryVars>>

\* The replacement is refused; the previous generation is retained.
ReloadFails ==
    /\ main \in {"building", "built"}
    /\ primary' = [primary EXCEPT ![last] = 0]
    /\ main' = "loop"
    /\ UNCHANGED <<server, client, owner, live, last, refreshVars, telemetryVars>>

\* The new generation is swapped in.
Swap ==
    /\ main = "built"
    /\ live' = last
    /\ main' = "loop"
    /\ settled' = FALSE
    /\ UNCHANGED <<server, client, owner, primary, last, refresher, captured, changed, busy,
                   telemetryVars>>

\* schedule_polyform_refresh: the compare_exchange of refresh_in_progress.
ScheduleRefresh ==
    /\ main = "loop"
    /\ ~busy
    /\ busy' = TRUE
    /\ main' = "spawning"
    /\ UNCHANGED <<server, client, owner, primary, live, last, refresher, captured, changed,
                   settled, telemetryVars>>

\* The thread gets the generation that is live now.
Spawn(t) ==
    /\ main = "spawning"
    /\ refresher[t] = "none"
    /\ refresher' = [refresher EXCEPT ![t] = "started"]
    /\ captured' = [captured EXCEPT ![t] = live]
    /\ main' = "loop"
    /\ UNCHANGED <<server, client, owner, primary, live, last, changed, busy, settled,
                   telemetryVars>>

\* Faulty variant: the flag stays set although there is no thread to clear it.
SpawnFailsKeepsFlag ==
    /\ main = "spawning"
    /\ main' = "loop"
    /\ UNCHANGED <<server, client, owner, primary, live, last, refreshVars, telemetryVars>>

\* There is no thread: the flag is cleared by the main loop.
SpawnFails ==
    /\ main = "spawning"
    /\ busy' = FALSE
    /\ main' = "loop"
    /\ UNCHANGED <<server, client, owner, primary, live, last, refresher, captured, changed,
                   settled, telemetryVars>>

-----------------------------------------------------------------------------
(* A refresh thread: refresh_polyform. *)

RefreshLock(t) ==
    /\ refresher[t] = "started"
    /\ owner = "free"
    /\ owner' = t
    /\ refresher' = [refresher EXCEPT ![t] = "fetching"]
    /\ UNCHANGED <<server, client, primary, live, last, main, captured, changed, busy, settled,
                   telemetryVars>>

\* Faulty variant: takes whatever revision an old response carries.
RefreshFetchedAny(t) ==
    /\ refresher[t] = "fetching"
    /\ client' \in 1 .. server
    /\ changed' = [changed EXCEPT ![t] = client' # client]
    /\ refresher' = [refresher EXCEPT ![t] = "fetched"]
    /\ UNCHANGED <<server, owner, primary, live, last, main, captured, busy, settled, telemetryVars>>

\* client.refresh() returns a verified composition.
RefreshFetched(t) ==
    /\ refresher[t] = "fetching"
    /\ client' = server
    /\ changed' = [changed EXCEPT ![t] = server # client]
    /\ refresher' = [refresher EXCEPT ![t] = "fetched"]
    /\ UNCHANGED <<server, owner, primary, live, last, main, captured, busy, settled, telemetryVars>>

\* client.refresh() fails: the composition is retained.
RefreshFails(t) ==
    /\ refresher[t] = "fetching"
    /\ refresher' = [refresher EXCEPT ![t] = "done"]
    /\ UNCHANGED <<server, client, owner, primary, live, last, main, captured, changed, busy,
                   settled, telemetryVars>>

\* update_primary on the generation the thread was given, if anything changed.
RefreshInstall(t) ==
    /\ refresher[t] = "fetched"
    /\ primary' = IF changed[t] THEN [primary EXCEPT ![captured[t]] = client] ELSE primary
    /\ settled' = (settled \/ captured[t] = live)
    /\ refresher' = [refresher EXCEPT ![t] = "done"]
    /\ UNCHANGED <<server, client, owner, live, last, main, captured, changed, busy, telemetryVars>>

\* Faulty variant: only the path that installs something clears the flag.
RefreshClearsInstalled(t) ==
    /\ refresher[t] = "done"
    /\ busy' = (busy /\ ~changed[t])
    /\ refresher' = [refresher EXCEPT ![t] = "cleared"]
    /\ UNCHANGED <<server, client, owner, primary, live, last, main, captured, changed, settled,
                   telemetryVars>>

\* The flag is cleared while the guard is still held: from here on the main
\* loop may start another refresh thread, which has to wait for the mutex.
RefreshClears(t) ==
    /\ refresher[t] = "done"
    /\ busy' = FALSE
    /\ refresher' = [refresher EXCEPT ![t] = "cleared"]
    /\ UNCHANGED <<server, client, owner, primary, live, last, main, captured, changed, settled,
                   telemetryVars>>

\* The guard is dropped and the thread ends, its locals with it.
RefreshDone(t) ==
    /\ refresher[t] = "cleared"
    /\ owner' = "free"
    /\ refresher' = [refresher EXCEPT ![t] = "none"]
    /\ captured' = [captured EXCEPT ![t] = 1]
    /\ changed' = [changed EXCEPT ![t] = FALSE]
    /\ UNCHANGED <<server, client, primary, live, last, main, busy, settled, telemetryVars>>

-----------------------------------------------------------------------------
(* Telemetry. *)

\* Faulty variant: forgets to count a refused report.
ReportSilent ==
    /\ produced < MaxReports
    /\ produced' = produced + 1
    /\ queued' = IF queued < QueueCap THEN queued + 1 ELSE queued
    /\ UNCHANGED <<server, client, owner, primary, live, last, main, refreshVars,
                   telemetry, taken, dropped>>

\* report_polyform from a connection thread: try_send never blocks.
Report ==
    /\ produced < MaxReports
    /\ produced' = produced + 1
    /\ IF queued < QueueCap
       THEN queued' = queued + 1 /\ UNCHANGED dropped
       ELSE dropped' = dropped + 1 /\ UNCHANGED queued
    /\ UNCHANGED <<server, client, owner, primary, live, last, main, refreshVars, telemetry, taken>>

TelemetryReceive ==
    /\ telemetry = "idle"
    /\ queued > 0
    /\ queued' = queued - 1
    /\ taken' = taken + 1
    /\ telemetry' = "received"
    /\ UNCHANGED <<server, client, owner, primary, live, last, main, refreshVars, dropped, produced>>

TelemetryLock ==
    /\ telemetry = "received"
    /\ owner = "free"
    /\ owner' = "telemetry"
    /\ telemetry' = "reporting"
    /\ UNCHANGED <<server, client, primary, live, last, main, refreshVars, queued, dropped, taken,
                   produced>>

\* Faulty variant: a report that failed is sent again, as often as it takes.
TelemetryRetries ==
    /\ telemetry = "reporting"
    /\ owner' = "free"
    /\ telemetry' \in {"idle", "received"}
    /\ UNCHANGED <<server, client, primary, live, last, main, refreshVars, queued, dropped, taken,
                   produced>>

\* report_execution returns, with success or an error that is only logged.
TelemetryDone ==
    /\ telemetry = "reporting"
    /\ owner' = "free"
    /\ telemetry' = "idle"
    /\ UNCHANGED <<server, client, primary, live, last, main, refreshVars, queued, dropped, taken,
                   produced>>

-----------------------------------------------------------------------------
MainStep == Build \/ ReloadFails \/ Swap \/ SpawnFails \/ \E t \in RefreshThreads : Spawn(t)
RefreshStep(t) ==
    RefreshFetched(t) \/ RefreshFails(t) \/ RefreshInstall(t) \/ RefreshClears(t) \/ RefreshDone(t)
TelemetryStep == TelemetryReceive \/ TelemetryDone

Next ==
    \/ ServerAssigns
    \/ Reload \/ MainStep \/ ScheduleRefresh
    \/ \E t \in RefreshThreads : RefreshLock(t) \/ RefreshStep(t)
    \/ Report \/ TelemetryLock \/ TelemetryStep

\* Every thread runs, and every network request ends (the agent's ten-second
\* timeout).  std::sync::Mutex gives no order: a thread gets the mutex only
\* when no other one keeps taking it before.
Fairness ==
    /\ WF_vars(Build) /\ WF_vars(main \in {"built", "spawning"} /\ MainStep)
    /\ \A t \in RefreshThreads : WF_vars(RefreshLock(t)) /\ WF_vars(RefreshStep(t))
    /\ WF_vars(TelemetryLock) /\ WF_vars(TelemetryStep)

Spec == Init /\ [][Next]_vars /\ Fairness

-----------------------------------------------------------------------------
\* No generation runs a composition that is not yet the client's verified one.
NeverAhead == \A g \in Generations : primary[g] <= client

\* The primary of a generation never goes back to an older revision.
GenerationMonotone ==
    [][\A g \in Generations :
         primary[g] # 0 /\ primary'[g] # 0 => primary'[g] >= primary[g]]_vars

\* Every report is queued, taken by the telemetry thread or counted as dropped,
\* and the queue keeps its bound.
TelemetryAccounted == produced = queued + taken + dropped /\ queued <= QueueCap

\* A refresh that was scheduled ends, so that the next one can be scheduled,
\* whether it succeeds, fails or no thread could be started for it.  Reports
\* and reloads, each of which may pass it at the mutex, are finitely many here
\* (MaxReports, MaxGeneration).
RefreshEnds == busy ~> ~busy

\* A reload ends although the threads it waits for keep the mutex over network
\* requests.  It starts no refresh while it waits; reports, each of which may
\* pass it at the mutex, are finitely many here (MaxReports).
ReloadEnds == main \in {"building", "built"} ~> main = "loop"

\* operator-guide.md: "The assigned ID is the primary member of Polyguard's
\* local agreement set".  Whenever no refresh is under way and the live
\* generation has been refreshed successfully since it went live, it runs the
\* composition the client has verified.
AssignedIsPrimary == settled /\ ~busy => primary[live] = client
=============================================================================
