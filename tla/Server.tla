------------------------------- MODULE Server -------------------------------
(***************************************************************************)
(* run_inner of src/src/proxy.rs: startup, the main loop with its reload   *)
(* and accept steps, the connection counter it shares with the workers,    *)
(* signals, graceful shutdown, and the management thread it joins.         *)
(*                                                                         *)
(* A configuration is its version; Caps gives its max_connections.  What a *)
(* worker does between its handshake and its end is module Connection.     *)
(***************************************************************************)
EXTENDS Naturals, FiniteSets

CONSTANTS
    Listeners,      \* number of traffic listeners
    Conns,          \* client connections; one that has ended may come again
    MaxVersion,     \* bound on the edits of the configuration file
    Caps            \* Caps[v]: listener.max_connections of version v

Versions == 1 .. MaxVersion

ASSUME ServerAssumption ==
    /\ Listeners \in Nat \ {0}
    /\ IsFiniteSet(Conns)
    /\ MaxVersion \in Nat \ {0}
    /\ Caps \in [Versions -> Nat \ {0}]

VARIABLES
    main,       \* where run_inner is
    terminate,  \* TERMINATE
    reload,     \* RELOAD
    file,       \* the version the reload loader would read now
    signalled,  \* history: the version on disk at the last SIGHUP since startup
    attempted,  \* new_config: the version the last reload attempt read
    version,    \* the configuration of the live runtime
    conn,       \* per connection: away, queued, starting or serving
    gen,        \* the version of the runtime the connection has, 0 when it has none
    cur,        \* the connection the accept step deals with
    turn,       \* the listener the pass over listeners has come to
    active,     \* metrics.active
    late,       \* the shutdown deadline has passed
    mgmt        \* the management thread: idle, polling, serving, or done (or not configured)

flags == <<terminate, reload>>
config == <<file, signalled, attempted, version>>
pass == <<cur, turn>>
vars == <<main, flags, config, conn, gen, pass, active, late, mgmt>>

Places ==
    {"starting", "installed", "loop", "loading", "loaded", "accepting", "counting", "over",
     "spawning", "draining", "joining", "stopped", "failed"}

Running == main \notin {"stopped", "failed"}

\* Connections with a thread.
Workers == { c \in Conns : conn[c] \in {"starting", "serving"} }

Init ==
    /\ main = "starting"
    /\ terminate = FALSE /\ reload = FALSE
    /\ file = 1 /\ signalled = 1 /\ attempted = 1 /\ version = 1
    /\ conn = [c \in Conns |-> "away"]
    /\ gen = [c \in Conns |-> 0]
    /\ cur \in Conns /\ turn = 1
    /\ active = 0
    /\ late = FALSE
    /\ mgmt \in {"idle", "done"}

-----------------------------------------------------------------------------
(* The operator and the clients. *)

EditConfig ==
    /\ file < MaxVersion
    /\ file' = file + 1
    /\ UNCHANGED <<main, flags, signalled, attempted, version, conn, gen, pass,
                   active, late, mgmt>>

\* The handlers of install_signal_handlers.  A signal that precedes them has
\* its default effect on the process.
SigTerm ==
    /\ Running /\ main # "starting"
    /\ terminate' = TRUE
    /\ UNCHANGED <<main, reload, config, conn, gen, pass, active, late, mgmt>>

SigHup ==
    /\ Running /\ main # "starting"
    /\ reload' = TRUE
    /\ signalled' = IF main = "installed" THEN signalled ELSE file
    /\ UNCHANGED <<main, terminate, file, attempted, version, conn, gen, pass,
                   active, late, mgmt>>

\* A client's connection reaches the listener's backlog.
Connect(c) ==
    /\ Running /\ main \notin {"starting", "installed", "draining", "joining"}
    /\ conn[c] = "away"
    /\ conn' = [conn EXCEPT ![c] = "queued"]
    /\ UNCHANGED <<main, flags, config, gen, pass, active, late, mgmt>>

-----------------------------------------------------------------------------
(* The main thread. *)

InstallHandlers ==
    /\ main = "starting"
    /\ main' = "installed"
    /\ UNCHANGED <<flags, config, conn, gen, pass, active, late, mgmt>>

\* TERMINATE and RELOAD are cleared after the handlers are installed; then the
\* listeners are bound, which may fail.
ResetFlags ==
    /\ main = "installed"
    /\ terminate' = FALSE /\ reload' = FALSE
    /\ main' \in {"loop", "failed"}
    /\ UNCHANGED <<config, conn, gen, pass, active, late, mgmt>>

\* The while condition fails: drop(listeners) resets what is in the backlog.
StopAccepting ==
    /\ main = "loop"
    /\ terminate
    /\ conn' = [c \in Conns |-> IF conn[c] = "queued" THEN "away" ELSE conn[c]]
    /\ main' = "draining"
    /\ UNCHANGED <<flags, config, gen, pass, active, late, mgmt>>

\* RELOAD.swap(false) comes before the file is read.
TakeReload ==
    /\ main = "loop"
    /\ ~terminate
    /\ reload
    /\ reload' = FALSE
    /\ main' = "loading"
    /\ UNCHANGED <<terminate, config, conn, gen, pass, active, late, mgmt>>

NoReload ==
    /\ main = "loop"
    /\ ~terminate
    /\ ~reload
    /\ main' = "accepting"
    /\ UNCHANGED <<flags, config, conn, gen, pass, active, late, mgmt>>

\* The loader reads the file; validate_config or load_listener_tls may refuse it.
LoadConfig ==
    /\ main = "loading"
    /\ attempted' = file
    /\ main' \in {"loaded", "accepting"}
    /\ UNCHANGED <<flags, file, signalled, version, conn, gen, pass, active, late, mgmt>>

\* Faulty variant: the flag is cleared only once the reload is done.
ActivateThenClear ==
    /\ main = "loaded"
    /\ version' \in {version, attempted}
    /\ reload' = FALSE
    /\ main' = "accepting"
    /\ UNCHANGED <<terminate, file, signalled, attempted, conn, gen, pass, active,
                   late, mgmt>>

\* build_runtime refuses it, or the new state is swapped in.
Activate ==
    /\ main = "loaded"
    /\ version' \in {version, attempted}
    /\ main' = "accepting"
    /\ UNCHANGED <<flags, file, signalled, attempted, conn, gen, pass, active, late,
                   mgmt>>

\* One pass asks every listener once, then the flags are looked at again.
NextListener ==
    /\ main' = IF turn < Listeners THEN "accepting" ELSE "loop"
    /\ turn' = IF turn < Listeners THEN turn + 1 ELSE 1
    /\ UNCHANGED cur

\* accept: a connection gets the runtime that is live now.
Accept(c) ==
    /\ main = "accepting"
    /\ conn[c] = "queued"
    /\ gen' = [gen EXCEPT ![c] = version]
    /\ cur' = c
    /\ main' = "counting"
    /\ UNCHANGED <<flags, config, conn, turn, active, late, mgmt>>

\* WouldBlock or Interrupted; or the socket cannot be made blocking.
AcceptNothing ==
    /\ main = "accepting"
    /\ \/ UNCHANGED conn
       \/ \E c \in Conns : conn[c] = "queued" /\ conn' = [conn EXCEPT ![c] = "away"]
    /\ NextListener
    /\ UNCHANGED <<flags, config, gen, active, late, mgmt>>

\* Any other error of accept ends run_inner.
AcceptFails ==
    /\ main = "accepting"
    /\ main' = "failed"
    /\ UNCHANGED <<flags, config, conn, gen, pass, active, late, mgmt>>

\* Faulty variant: the old value may equal the cap.
CountLoosely ==
    /\ main = "counting"
    /\ active' = active + 1
    /\ main' = IF active > Caps[gen[cur]] THEN "over" ELSE "spawning"
    /\ UNCHANGED <<flags, config, conn, gen, pass, late, mgmt>>

\* Faulty variant: the new value is compared with the cap.
CountStrictly ==
    /\ main = "counting"
    /\ active' = active + 1
    /\ main' = IF active' >= Caps[gen[cur]] THEN "over" ELSE "spawning"
    /\ UNCHANGED <<flags, config, conn, gen, pass, late, mgmt>>

\* fetch_add, compared with the cap of the connection's own configuration.
Count ==
    /\ main = "counting"
    /\ active' = active + 1
    /\ main' = IF active >= Caps[gen[cur]] THEN "over" ELSE "spawning"
    /\ UNCHANGED <<flags, config, conn, gen, pass, late, mgmt>>

Refuse ==
    /\ main = "over"
    /\ active' = active - 1
    /\ conn' = [conn EXCEPT ![cur] = "away"]
    /\ gen' = [gen EXCEPT ![cur] = 0]
    /\ NextListener
    /\ UNCHANGED <<flags, config, late, mgmt>>

Spawn ==
    /\ main = "spawning"
    /\ conn' = [conn EXCEPT ![cur] = "starting"]
    /\ NextListener
    /\ UNCHANGED <<flags, config, gen, active, late, mgmt>>

SpawnFails ==
    /\ main = "spawning"
    /\ active' = active - 1
    /\ conn' = [conn EXCEPT ![cur] = "away"]
    /\ gen' = [gen EXCEPT ![cur] = 0]
    /\ NextListener
    /\ UNCHANGED <<flags, config, late, mgmt>>

\* active is zero or the deadline has passed.
Drained ==
    /\ main = "draining"
    /\ active = 0 \/ late
    /\ main' = "joining"
    /\ UNCHANGED <<flags, config, conn, gen, pass, active, late, mgmt>>

Join ==
    /\ main = "joining"
    /\ mgmt = "done"
    /\ main' = "stopped"
    /\ UNCHANGED <<flags, config, conn, gen, pass, active, late, mgmt>>

DeadlinePasses ==
    /\ main = "draining"
    /\ late' = TRUE
    /\ UNCHANGED <<main, flags, config, conn, gen, pass, active, mgmt>>

-----------------------------------------------------------------------------
(* The workers and the management thread. *)

Handshake(c) ==
    /\ conn[c] = "starting"
    /\ conn' = [conn EXCEPT ![c] = "serving"]
    /\ UNCHANGED <<main, flags, config, gen, pass, active, late, mgmt>>

\* Faulty variant: the early return skips the counter.
HandshakeFailsLeaks(c) ==
    /\ conn[c] = "starting"
    /\ conn' = [conn EXCEPT ![c] = "away"]
    /\ gen' = [gen EXCEPT ![c] = 0]
    /\ UNCHANGED <<main, flags, config, pass, active, late, mgmt>>

\* ClientStream::new fails.
HandshakeFails(c) ==
    /\ conn[c] = "starting"
    /\ conn' = [conn EXCEPT ![c] = "away"]
    /\ gen' = [gen EXCEPT ![c] = 0]
    /\ active' = active - 1
    /\ UNCHANGED <<main, flags, config, pass, late, mgmt>>

\* handle_connection returns.
WorkerEnds(c) ==
    /\ conn[c] = "serving"
    /\ conn' = [conn EXCEPT ![c] = "away"]
    /\ gen' = [gen EXCEPT ![c] = 0]
    /\ active' = active - 1
    /\ UNCHANGED <<main, flags, config, pass, late, mgmt>>

\* run_management_listener looks at the flag, polls its socket, and serves one
\* request at a time, with deadlines.
ManagementLooks ==
    /\ main \notin {"starting", "installed"}
    /\ mgmt = "idle"
    /\ ~terminate
    /\ mgmt' = "polling"
    /\ UNCHANGED <<main, flags, config, conn, gen, pass, active, late>>

\* A request; nothing to accept; an error that ends the thread.
ManagementPolls ==
    /\ mgmt = "polling"
    /\ mgmt' \in {"serving", "idle", "done"}
    /\ UNCHANGED <<main, flags, config, conn, gen, pass, active, late>>

ManagementServes ==
    /\ mgmt = "serving"
    /\ mgmt' = "idle"
    /\ UNCHANGED <<main, flags, config, conn, gen, pass, active, late>>

\* Faulty variant: the thread looks at the flag only after serving a request.
ManagementStopsLate ==
    /\ mgmt = "serving"
    /\ terminate
    /\ mgmt' = "done"
    /\ UNCHANGED <<main, flags, config, conn, gen, pass, active, late>>

ManagementStops ==
    /\ mgmt = "idle"
    /\ terminate /\ main \notin {"starting", "installed"}
    /\ mgmt' = "done"
    /\ UNCHANGED <<main, flags, config, conn, gen, pass, active, late>>

-----------------------------------------------------------------------------
MainStep ==
    \/ InstallHandlers \/ ResetFlags
    \/ StopAccepting \/ TakeReload \/ NoReload \/ LoadConfig \/ Activate
    \/ \E c \in Conns : Accept(c)
    \/ AcceptNothing \/ AcceptFails
    \/ Count \/ Refuse \/ Spawn \/ SpawnFails
    \/ Drained \/ Join

WorkerStep(c) == Handshake(c) \/ HandshakeFails(c) \/ WorkerEnds(c)

Next ==
    \/ EditConfig \/ SigTerm \/ SigHup
    \/ \E c \in Conns : Connect(c) \/ WorkerStep(c)
    \/ MainStep
    \/ DeadlinePasses
    \/ ManagementLooks \/ ManagementPolls \/ ManagementServes \/ ManagementStops

\* The main thread never blocks (its listeners are non-blocking), time passes,
\* and the management thread polls the flag and serves with deadlines.
Fairness ==
    /\ WF_vars(MainStep)
    /\ WF_vars(DeadlinePasses)
    /\ WF_vars(ManagementPolls)
    /\ WF_vars(ManagementServes)
    /\ WF_vars(ManagementStops)

Spec == Init /\ [][Next]_vars /\ Fairness

-----------------------------------------------------------------------------
TypeOK ==
    /\ main \in Places
    /\ terminate \in BOOLEAN /\ reload \in BOOLEAN /\ late \in BOOLEAN
    /\ file \in Versions /\ signalled \in Versions /\ attempted \in Versions
    /\ version \in Versions
    /\ conn \in [Conns -> {"away", "queued", "starting", "serving"}]
    /\ gen \in [Conns -> 0 .. MaxVersion]
    /\ cur \in Conns /\ turn \in 1 .. Listeners
    /\ active \in 0 .. Cardinality(Conns) + 1
    /\ mgmt \in {"idle", "polling", "serving", "done"}

\* The counter is the number of worker threads plus the connection being
\* admitted or refused, on every path: refusal, failed spawn, failed handshake
\* and end.  Shutdown therefore waits for exactly the live workers.
ActiveCounts ==
    active = Cardinality(Workers) + (IF main \in {"over", "spawning"} THEN 1 ELSE 0)

\* Although reloads change the cap under way, the workers alive never outnumber
\* the cap under which one of them was admitted.
CapHolds ==
    Workers # {} => \E c \in Workers : Cardinality(Workers) <= Caps[gen[c]]

\* A client is turned away only when, at that moment, the cap's worth of
\* workers is alive.
RefusedOnlyAtCap ==
    [][main # "over" /\ main' = "over" => Cardinality(Workers) >= Caps[gen[cur]]]_vars

\* No SIGHUP is lost: when the flag is down, what was on disk at the last
\* signal, or something newer, has been read by a reload attempt.
LastSignalServed ==
    ~reload /\ main \notin {"starting", "installed", "loading"} => attempted >= signalled

\* Once the flag is seen the server stops, whatever clients and the management
\* thread do, unless accept fails first.
ShutdownEnds == (terminate /\ main # "installed") ~> ~Running
=============================================================================
