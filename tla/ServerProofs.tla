---------------------------- MODULE ServerProofs ----------------------------
(***************************************************************************)
(* For any number of listeners and clients, any sequence of edits, signals *)
(* and reloads and any caps: the connection counter is exact, the cap      *)
(* holds although reloads change it, and no SIGHUP is lost.                *)
(***************************************************************************)
EXTENDS Server, FiniteSetTheorems, TLAPS

\* The connection between accept and spawn, and the comparison it has passed.
Admitting ==
    /\ main \in {"counting", "over", "spawning"} => conn[cur] = "queued" /\ gen[cur] \in Versions
    /\ main = "spawning" => active <= Caps[gen[cur]]

\* A worker has the runtime it was accepted under.
WorkersHaveRuntime == \A c \in Workers : gen[c] \in Versions

\* Workers admitted under a cap of at most k.
Capped(k) == { c \in Workers : Caps[gen[c]] <= k }

\* CapHolds is not inductive: its witness may be the worker that ends.  This
\* is: at most k of the workers alive were admitted under a cap of at most k.
CapsKept == \A k \in Nat : Cardinality(Capped(k)) <= k

\* Where the last signal is, between the handler and the attempt that serves it.
SignalsKept ==
    /\ signalled <= file
    /\ main \in {"starting", "installed"} => attempted >= signalled
    /\ LastSignalServed

\* The inductive invariant.
IInv ==
    /\ TypeOK
    /\ Admitting
    /\ WorkersHaveRuntime
    /\ ActiveCounts
    /\ CapsKept
    /\ SignalsKept

-----------------------------------------------------------------------------
(* Counting workers. *)

LEMMA WorkersFinite ==
    /\ IsFiniteSet(Workers) /\ Cardinality(Workers) \in Nat
    /\ Cardinality(Conns) \in Nat
    /\ Cardinality(Workers) <= Cardinality(Conns)
<1>1. IsFiniteSet(Conns) /\ Workers \subseteq Conns
  BY ServerAssumption DEF Workers
<1>2. QED
  BY <1>1, FS_Subset, FS_CardinalityType

\* Workers that end, or do nothing, leave room under every cap.
LEMMA CapsWhenFewer ==
    ASSUME CapsKept, Workers' \subseteq Workers, \A c \in Workers' : gen'[c] = gen[c]
    PROVE  CapsKept'
<1> SUFFICES ASSUME NEW k \in Nat
             PROVE  Cardinality(Capped(k)') <= k
  BY DEF CapsKept
<1>1. IsFiniteSet(Capped(k))
  BY WorkersFinite, FS_Subset DEF Capped
<1>2. Capped(k)' \subseteq Capped(k)
  BY DEF Capped
<1>3. Cardinality(Capped(k)') <= Cardinality(Capped(k))
  BY <1>1, <1>2, FS_Subset
<1>4. Cardinality(Capped(k)') \in Nat /\ Cardinality(Capped(k)) \in Nat
  BY <1>1, <1>2, FS_Subset, FS_CardinalityType
<1>5. QED
  BY <1>3, <1>4 DEF CapsKept

\* A worker added while fewer than its cap are alive keeps every bound: those
\* below its cap do not count it, those from its cap on exceed all workers.
LEMMA CapsWhenAdmitted ==
    ASSUME CapsKept, NEW c \in Conns, c \notin Workers, Caps[gen[c]] \in Nat,
           Cardinality(Workers) < Caps[gen[c]],
           Workers' = Workers \cup {c}, UNCHANGED gen
    PROVE  CapsKept'
<1> SUFFICES ASSUME NEW k \in Nat
             PROVE  Cardinality(Capped(k)') <= k
  BY DEF CapsKept
<1>1. CASE Caps[gen[c]] <= k
  <2>1. Capped(k)' \subseteq Workers \cup {c}
    BY DEF Capped
  <2>2. /\ IsFiniteSet(Workers \cup {c})
        /\ Cardinality(Workers \cup {c}) = Cardinality(Workers) + 1
    BY WorkersFinite, FS_AddElement
  <2>3. Cardinality(Capped(k)') <= Cardinality(Workers) + 1
    BY <2>1, <2>2, FS_Subset
  <2>4. Cardinality(Capped(k)') \in Nat
    BY <2>1, <2>2, FS_Subset, FS_CardinalityType
  <2>5. QED
    BY <1>1, <2>3, <2>4, WorkersFinite
<1>2. CASE ~(Caps[gen[c]] <= k)
  <2>1. Capped(k)' = Capped(k)
    BY <1>2 DEF Capped
  <2>2. QED
    BY <2>1 DEF CapsKept
<1>3. QED
  BY <1>1, <1>2

-----------------------------------------------------------------------------
LEMMA InitIInv == Init => IInv
<1> SUFFICES ASSUME Init PROVE IInv
  OBVIOUS
<1> USE ServerAssumption
<1>1. Workers = {}
  BY DEF Init, Workers
<1>2. TypeOK
  <2>1. terminate \in BOOLEAN /\ reload \in BOOLEAN /\ late \in BOOLEAN
    BY Zenon DEF Init
  <2>2. active \in 0 .. Cardinality(Conns) + 1
    BY WorkersFinite DEF Init
  <2>3. QED
    BY <2>1, <2>2 DEF Init, TypeOK, Places, Versions
<1>3. Admitting /\ SignalsKept
  BY DEF Init, Admitting, SignalsKept, LastSignalServed
<1>4. WorkersHaveRuntime
  BY <1>1 DEF WorkersHaveRuntime
<1>5. ActiveCounts
  BY <1>1, FS_EmptySet DEF Init, ActiveCounts
<1>6. CapsKept
  <2>1. \A k \in Nat : Capped(k) = {}
    BY <1>1 DEF Capped
  <2>2. QED
    BY <2>1, FS_EmptySet DEF CapsKept
<1>7. QED
  BY <1>2, <1>3, <1>4, <1>5, <1>6 DEF IInv

-----------------------------------------------------------------------------
(* What a step does to the set of workers. *)

\* The steps that leave the workers, and what they have, as they were.
Quiet ==
    \/ EditConfig \/ SigTerm \/ SigHup \/ (\E c \in Conns : Connect(c) \/ Handshake(c))
    \/ InstallHandlers \/ ResetFlags \/ StopAccepting \/ TakeReload \/ NoReload
    \/ LoadConfig \/ Activate \/ (\E c \in Conns : Accept(c)) \/ AcceptNothing \/ AcceptFails
    \/ Count \/ Refuse \/ SpawnFails \/ Drained \/ Join \/ DeadlinePasses
    \/ ManagementLooks \/ ManagementPolls \/ ManagementServes \/ ManagementStops
    \/ UNCHANGED vars

\* The steps of a worker that ends.
Ends(c) == HandshakeFails(c) \/ WorkerEnds(c)

LEMMA StepKinds ==
    ASSUME [Next]_vars
    PROVE  Quiet \/ Spawn \/ \E c \in Conns : Ends(c)
BY DEF Next, MainStep, WorkerStep, Quiet, Ends

LEMMA QuietWorkers ==
    ASSUME TypeOK, Admitting, Quiet
    PROVE  Workers' = Workers /\ \A c \in Workers : gen'[c] = gen[c]
<1> USE DEF Workers, TypeOK
<1>1. CASE EditConfig \/ SigTerm \/ SigHup
  BY <1>1 DEF EditConfig, SigTerm, SigHup
<1>2. ASSUME NEW c \in Conns, Connect(c) \/ Handshake(c)
      PROVE  Workers' = Workers /\ UNCHANGED gen
  BY <1>2 DEF Connect, Handshake
<1>3. CASE InstallHandlers \/ ResetFlags \/ TakeReload \/ NoReload \/ LoadConfig \/ Activate
  BY <1>3 DEF InstallHandlers, ResetFlags, TakeReload, NoReload, LoadConfig, Activate
<1>4. CASE StopAccepting
  BY <1>4 DEF StopAccepting
<1>5. ASSUME NEW c \in Conns, Accept(c)
      PROVE  Workers' = Workers /\ \A d \in Workers : gen'[d] = gen[d]
  BY <1>5 DEF Accept
<1>6. CASE AcceptNothing
  BY <1>6 DEF AcceptNothing
<1>7. CASE AcceptFails \/ Count \/ Drained \/ Join \/ DeadlinePasses
  BY <1>7 DEF AcceptFails, Count, Drained, Join, DeadlinePasses
<1>8. CASE Refuse \/ SpawnFails
  BY <1>8 DEF Refuse, SpawnFails, Admitting
<1>9. CASE ManagementLooks \/ ManagementPolls \/ ManagementServes \/ ManagementStops
  BY <1>9 DEF ManagementLooks, ManagementPolls, ManagementServes, ManagementStops
<1>10. CASE UNCHANGED vars
  BY <1>10 DEF vars
<1>11. QED
  BY <1>1, <1>2, <1>3, <1>4, <1>5, <1>6, <1>7, <1>8, <1>9, <1>10 DEF Quiet

LEMMA SpawnWorkers ==
    ASSUME TypeOK, Admitting, Spawn
    PROVE  /\ cur \in Conns /\ cur \notin Workers /\ gen[cur] \in Versions
           /\ Workers' = Workers \cup {cur} /\ UNCHANGED gen
           /\ Cardinality(Workers') = Cardinality(Workers) + 1
<1>1. /\ cur \in Conns /\ cur \notin Workers /\ gen[cur] \in Versions
      /\ Workers' = Workers \cup {cur} /\ UNCHANGED gen
  BY DEF Workers, TypeOK, Admitting, Spawn
<1>2. QED
  BY <1>1, WorkersFinite, FS_AddElement

LEMMA EndsWorkers ==
    ASSUME TypeOK, NEW c \in Conns, Ends(c)
    PROVE  /\ c \in Workers /\ Workers' = Workers \ {c}
           /\ \A d \in Workers' : gen'[d] = gen[d]
           /\ Cardinality(Workers') = Cardinality(Workers) - 1
           /\ Cardinality(Workers) >= 1
<1>1. /\ c \in Workers /\ Workers' = Workers \ {c}
      /\ \A d \in Workers' : gen'[d] = gen[d]
  BY DEF Workers, TypeOK, Ends, HandshakeFails, WorkerEnds
<1>2. Cardinality(Workers') = Cardinality(Workers) - 1
  BY <1>1, WorkersFinite, FS_RemoveElement
<1>3. Cardinality(Workers') \in Nat
  BY <1>1, WorkersFinite, FS_Subset, FS_CardinalityType
<1>4. QED
  BY <1>1, <1>2, <1>3, WorkersFinite

-----------------------------------------------------------------------------
(* Each conjunct of the invariant is kept by every step. *)

LEMMA NextActive ==
    ASSUME TypeOK, Admitting, ActiveCounts, [Next]_vars
    PROVE  ActiveCounts' /\ active' \in 0 .. Cardinality(Conns) + 1
<1> USE WorkersFinite DEF ActiveCounts, TypeOK
<1>1. CASE Quiet
  <2>1. Workers' = Workers
    BY <1>1, QuietWorkers
  <2>2. CASE Count
    BY <2>1, <2>2 DEF Count
  <2>3. CASE Refuse \/ SpawnFails
    BY <2>1, <2>3 DEF Refuse, SpawnFails, NextListener
  <2>4. CASE ~(Count \/ Refuse \/ SpawnFails)
    <3>1. active' = active
      BY <1>1, <2>4 DEF Quiet, EditConfig, SigTerm, SigHup, Connect, Handshake, InstallHandlers,
         ResetFlags, StopAccepting, TakeReload, NoReload, LoadConfig, Activate, Accept,
         AcceptNothing, AcceptFails, Drained, Join, DeadlinePasses, ManagementLooks,
         ManagementPolls, ManagementServes, ManagementStops, vars
    <3>2. main' \in {"over", "spawning"} <=> main \in {"over", "spawning"}
      BY <1>1, <2>4 DEF Quiet, EditConfig, SigTerm, SigHup, Connect, Handshake, InstallHandlers,
         ResetFlags, StopAccepting, TakeReload, NoReload, LoadConfig, Activate, Accept,
         AcceptNothing, NextListener, AcceptFails, Drained, Join, DeadlinePasses,
         ManagementLooks, ManagementPolls, ManagementServes, ManagementStops, vars
    <3>3. QED
      BY <2>1, <3>1, <3>2
  <2>5. QED
    BY <2>2, <2>3, <2>4
<1>2. CASE Spawn
  BY <1>2, SpawnWorkers DEF Spawn, NextListener
<1>3. ASSUME NEW c \in Conns, Ends(c)
      PROVE  ActiveCounts' /\ active' \in 0 .. Cardinality(Conns) + 1
  BY <1>3, EndsWorkers DEF Ends, HandshakeFails, WorkerEnds
<1>4. QED
  BY <1>1, <1>2, <1>3, StepKinds

LEMMA NextCaps ==
    ASSUME TypeOK, Admitting, WorkersHaveRuntime, ActiveCounts, CapsKept, [Next]_vars
    PROVE  WorkersHaveRuntime' /\ CapsKept'
<1>1. CASE Quiet
  BY <1>1, QuietWorkers, CapsWhenFewer DEF WorkersHaveRuntime
<1>2. CASE Spawn
  <2>1. WorkersHaveRuntime'
    BY <1>2, SpawnWorkers DEF WorkersHaveRuntime
  <2>2. Caps[gen[cur]] \in Nat
    BY <1>2, SpawnWorkers, ServerAssumption
  <2>3. Cardinality(Workers) < Caps[gen[cur]]
    BY <1>2, <2>2, WorkersFinite DEF Spawn, Admitting, ActiveCounts
  <2>4. QED
    BY <1>2, <2>1, <2>2, <2>3, SpawnWorkers, CapsWhenAdmitted
<1>3. ASSUME NEW c \in Conns, Ends(c)
      PROVE  WorkersHaveRuntime' /\ CapsKept'
  BY <1>3, EndsWorkers, CapsWhenFewer DEF WorkersHaveRuntime
<1>4. QED
  BY <1>1, <1>2, <1>3, StepKinds

LEMMA NextType ==
    ASSUME IInv, [Next]_vars
    PROVE  TypeOK'
<1> USE ServerAssumption DEF TypeOK, Places, Versions
<1> TypeOK /\ Admitting
  BY DEF IInv
<1>0. active' \in 0 .. Cardinality(Conns) + 1
  BY NextActive DEF IInv
<1>1. CASE EditConfig
  BY <1>0, <1>1 DEF EditConfig, flags, pass
<1>2. CASE SigTerm
  <2>1. terminate' \in BOOLEAN
    BY <1>2, Zenon DEF SigTerm
  <2>2. QED
    BY <1>2, <2>1 DEF SigTerm, config, pass
<1>3. CASE SigHup
  <2>1. reload' \in BOOLEAN
    BY <1>3, Zenon DEF SigHup
  <2>2. QED
    BY <1>3, <2>1 DEF SigHup, pass
<1>4. ASSUME NEW c \in Conns, Connect(c)
      PROVE  TypeOK'
  BY <1>4 DEF Connect, flags, config, pass
<1>5. ASSUME NEW c \in Conns, WorkerStep(c)
      PROVE  TypeOK'
  <2>1. UNCHANGED <<main, terminate, reload, file, signalled, attempted, version, cur, turn, late, mgmt>>
    BY <1>5 DEF WorkerStep, Handshake, HandshakeFails, WorkerEnds, flags, config, pass
  <2>2. /\ conn' \in [Conns -> {"away", "queued", "starting", "serving"}]
        /\ gen' \in [Conns -> 0 .. MaxVersion]
    <3>1. gen' = gen \/ gen' = [gen EXCEPT ![c] = 0]
      BY <1>5 DEF WorkerStep, Handshake, HandshakeFails, WorkerEnds
    <3>2. conn' = [conn EXCEPT ![c] = "serving"] \/ conn' = [conn EXCEPT ![c] = "away"]
      BY <1>5 DEF WorkerStep, Handshake, HandshakeFails, WorkerEnds
    <3>3. QED
      BY <3>1, <3>2
  <2>3. QED
    BY <1>0, <2>1, <2>2
<1>6. CASE InstallHandlers
  BY <1>6 DEF InstallHandlers, flags, config, pass
<1>7. CASE ResetFlags
  <2>1. terminate' \in BOOLEAN /\ reload' \in BOOLEAN
    BY <1>7, Zenon DEF ResetFlags
  <2>2. QED
    BY <1>7, <2>1 DEF ResetFlags, config, pass
<1>8. CASE StopAccepting
  BY <1>8 DEF StopAccepting, flags, config, pass
<1>9. CASE TakeReload
  <2>1. reload' \in BOOLEAN
    BY <1>9, Zenon DEF TakeReload
  <2>2. QED
    BY <1>9, <2>1 DEF TakeReload, config, pass
<1>10. CASE NoReload
  BY <1>10 DEF NoReload, flags, config, pass
<1>11. CASE LoadConfig
  BY <1>11 DEF LoadConfig, flags, pass
<1>12. CASE Activate
  BY <1>12 DEF Activate, flags, pass
<1>13. ASSUME NEW c \in Conns, Accept(c)
       PROVE  TypeOK'
  BY <1>13 DEF Accept, flags, config
<1>14. CASE AcceptNothing
  BY <1>14 DEF AcceptNothing, NextListener, flags, config
<1>15. CASE AcceptFails
  BY <1>15 DEF AcceptFails, flags, config, pass
<1>16. CASE Count
  BY <1>0, <1>16 DEF Count, flags, config, pass
<1>17. CASE Refuse \/ SpawnFails
  <2>1. /\ conn' = [conn EXCEPT ![cur] = "away"]
        /\ gen' = [gen EXCEPT ![cur] = 0]
    BY <1>17 DEF Refuse, SpawnFails
  <2>2. /\ conn' \in [Conns -> {"away", "queued", "starting", "serving"}]
        /\ gen' \in [Conns -> 0 .. MaxVersion]
    BY <2>1
  <2>3. main' \in Places /\ turn' \in 1 .. Listeners /\ cur' = cur
    BY <1>17 DEF Refuse, SpawnFails, NextListener
  <2>4. UNCHANGED <<terminate, reload, file, signalled, attempted, version, late, mgmt>>
    BY <1>17 DEF Refuse, SpawnFails, flags, config
  <2>5. QED
    BY <1>0, <2>2, <2>3, <2>4
<1>18. CASE Spawn
  BY <1>18 DEF Spawn, NextListener, flags, config
<1>19. CASE Drained \/ Join
  BY <1>19 DEF Drained, Join, flags, config, pass
<1>20. CASE DeadlinePasses
  <2>1. late' \in BOOLEAN
    BY <1>20, Zenon DEF DeadlinePasses
  <2>2. QED
    BY <1>20, <2>1 DEF DeadlinePasses, flags, config, pass
<1>21. CASE ManagementLooks \/ ManagementPolls \/ ManagementServes \/ ManagementStops
  BY <1>21 DEF ManagementLooks, ManagementPolls, ManagementServes, ManagementStops, flags, config, pass
<1>22. CASE UNCHANGED vars
  BY <1>22 DEF vars, flags, config, pass
<1>23. QED
  BY <1>1, <1>2, <1>3, <1>4, <1>5, <1>6, <1>7, <1>8, <1>9, <1>10, <1>11, <1>12, <1>13,
     <1>14, <1>15, <1>16, <1>17, <1>18, <1>19, <1>20, <1>21, <1>22 DEF Next, MainStep

\* Between accept and spawn only workers run beside the main thread, and they
\* only lower the counter.
LEMMA NextAdmitting ==
    ASSUME IInv, [Next]_vars
    PROVE  Admitting'
<1> USE ServerAssumption DEF TypeOK, Versions, Admitting
<1> TypeOK /\ Admitting
  BY DEF IInv
<1>1. CASE EditConfig \/ SigTerm \/ SigHup \/ DeadlinePasses
  BY <1>1 DEF EditConfig, SigTerm, SigHup, DeadlinePasses, pass
<1>2. ASSUME NEW c \in Conns, Connect(c) \/ WorkerStep(c)
      PROVE  Admitting'
  <2>1. /\ UNCHANGED <<main, cur>>
        /\ \A d \in Conns : conn[d] = "queued" => conn'[d] = "queued" /\ gen'[d] = gen[d]
    BY <1>2 DEF Connect, WorkerStep, Handshake, HandshakeFails, WorkerEnds, pass
  <2>2. active' \in Int /\ active' <= active
    BY <1>2 DEF Connect, WorkerStep, Handshake, HandshakeFails, WorkerEnds
  <2>3. QED
    BY <2>1, <2>2
<1>3. CASE InstallHandlers \/ ResetFlags \/ StopAccepting \/ TakeReload \/ NoReload \/ LoadConfig
           \/ Activate \/ AcceptNothing \/ AcceptFails \/ Refuse \/ Spawn \/ SpawnFails
           \/ Drained \/ Join
  BY <1>3 DEF InstallHandlers, ResetFlags, StopAccepting, TakeReload, NoReload, LoadConfig,
     Activate, AcceptNothing, AcceptFails, Refuse, Spawn, SpawnFails, Drained, Join, NextListener
<1>4. ASSUME NEW c \in Conns, Accept(c)
      PROVE  Admitting'
  BY <1>4 DEF Accept
<1>5. CASE Count
  <2>1. UNCHANGED <<conn, gen, cur>> /\ conn[cur] = "queued" /\ gen[cur] \in Versions
    BY <1>5 DEF Count, pass
  <2>2. main' = "spawning" => active' <= Caps[gen[cur]]
    BY <1>5, <2>1 DEF Count
  <2>3. QED
    BY <2>1, <2>2
<1>6. CASE ManagementLooks \/ ManagementPolls \/ ManagementServes \/ ManagementStops
  BY <1>6 DEF ManagementLooks, ManagementPolls, ManagementServes, ManagementStops, pass
<1>7. CASE UNCHANGED vars
  BY <1>7 DEF vars, pass
<1>8. QED
  BY <1>1, <1>2, <1>3, <1>4, <1>5, <1>6, <1>7 DEF Next, MainStep

\* A signal after the swap of TakeReload raises the flag again, so clearing the
\* flag before reading the file loses none.
LEMMA NextSignals ==
    ASSUME IInv, [Next]_vars
    PROVE  SignalsKept'
<1> USE DEF TypeOK, Versions, SignalsKept, LastSignalServed
<1> TypeOK /\ SignalsKept
  BY DEF IInv
<1>1. CASE EditConfig
  BY <1>1 DEF EditConfig, flags
<1>2. CASE SigTerm
  BY <1>2 DEF SigTerm, config
<1>3. CASE SigHup
  BY <1>3 DEF SigHup
<1>4. ASSUME NEW c \in Conns, Connect(c) \/ WorkerStep(c)
      PROVE  SignalsKept'
  BY <1>4 DEF Connect, WorkerStep, Handshake, HandshakeFails, WorkerEnds, flags, config
<1>5. CASE InstallHandlers \/ ResetFlags
  BY <1>5 DEF InstallHandlers, ResetFlags, flags, config
<1>6. CASE StopAccepting \/ TakeReload \/ NoReload
  BY <1>6 DEF StopAccepting, TakeReload, NoReload, flags, config
<1>7. CASE LoadConfig
  BY <1>7 DEF LoadConfig, flags
<1>8. CASE Activate
  BY <1>8 DEF Activate, flags
<1>9. ASSUME NEW c \in Conns, Accept(c)
      PROVE  SignalsKept'
  BY <1>9 DEF Accept, flags, config
<1>10. CASE AcceptNothing \/ AcceptFails \/ Count \/ Refuse \/ Spawn \/ SpawnFails
  BY <1>10 DEF AcceptNothing, AcceptFails, Count, Refuse, Spawn, SpawnFails, NextListener, flags, config
<1>11. CASE Drained \/ Join \/ DeadlinePasses
  BY <1>11 DEF Drained, Join, DeadlinePasses, flags, config
<1>12. CASE ManagementLooks \/ ManagementPolls \/ ManagementServes \/ ManagementStops
  BY <1>12 DEF ManagementLooks, ManagementPolls, ManagementServes, ManagementStops, flags, config
<1>13. CASE UNCHANGED vars
  BY <1>13 DEF vars, flags, config
<1>14. QED
  BY <1>1, <1>2, <1>3, <1>4, <1>5, <1>6, <1>7, <1>8, <1>9, <1>10, <1>11, <1>12, <1>13
     DEF Next, MainStep

LEMMA NextIInv == IInv /\ [Next]_vars => IInv'
BY NextType, NextAdmitting, NextActive, NextCaps, NextSignals DEF IInv

-----------------------------------------------------------------------------
LEMMA IInvAlways == Spec => []IInv
BY InitIInv, NextIInv, PTL DEF Spec

\* run_inner's state is always well formed.
THEOREM TypeCorrect == Spec => []TypeOK
BY IInvAlways, PTL DEF IInv

\* metrics.active is the number of worker threads plus the connection being
\* admitted or refused, whatever path each connection took.
THEOREM ActiveCountsAlways == Spec => []ActiveCounts
BY IInvAlways, PTL DEF IInv

\* Were all n workers admitted under caps below n, CapsKept would bound their
\* number by n - 1.
LEMMA CapsBoundWorkers == TypeOK /\ WorkersHaveRuntime /\ CapsKept => CapHolds
<1> SUFFICES ASSUME TypeOK, WorkersHaveRuntime, CapsKept, Workers # {},
                    \A c \in Workers : ~(Cardinality(Workers) <= Caps[gen[c]])
             PROVE  FALSE
  BY DEF CapHolds
<1> DEFINE n == Cardinality(Workers)
<1>1. n \in Nat /\ n # 0
  BY WorkersFinite, FS_EmptySet
<1>2. \A c \in Workers : Caps[gen[c]] \in Nat
  BY ServerAssumption DEF WorkersHaveRuntime
<1>3. \A c \in Workers : Caps[gen[c]] <= n - 1
  BY <1>1, <1>2
<1>4. Capped(n - 1) = Workers
  BY <1>3 DEF Capped
<1>5. n <= n - 1
  BY <1>1, <1>4 DEF CapsKept
<1>6. QED
  BY <1>1, <1>5

\* However reloads change max_connections, the workers alive never outnumber
\* the cap under which one of them was admitted.
THEOREM CapHoldsAlways == Spec => []CapHolds
<1>1. IInv => CapHolds
  BY CapsBoundWorkers DEF IInv
<1>2. QED
  BY <1>1, IInvAlways, PTL

\* While the flag is down, some reload attempt has read what was on disk at
\* the last SIGHUP, or something newer.
THEOREM LastSignalServedAlways == Spec => []LastSignalServed
BY IInvAlways, PTL DEF IInv, SignalsKept

\* A client is turned away only while the cap's worth of workers is alive: the
\* counter that fetch_add compares holds nothing but workers at that moment.
THEOREM RefusedOnlyAtCapAlways == Spec => RefusedOnlyAtCap
<1>1. ASSUME IInv, [Next]_vars, main # "over", main' = "over"
      PROVE  Cardinality(Workers) >= Caps[gen[cur]]
  <2>1. Count
    BY <1>1 DEF Next, MainStep, WorkerStep, EditConfig, SigTerm, SigHup, Connect, Handshake,
       HandshakeFails, WorkerEnds, InstallHandlers, ResetFlags, StopAccepting, TakeReload,
       NoReload, LoadConfig, Activate, Accept, AcceptNothing, AcceptFails, Refuse, Spawn,
       SpawnFails, NextListener, Drained, Join, DeadlinePasses, ManagementLooks,
       ManagementPolls, ManagementServes, ManagementStops, vars
  <2>2. active = Cardinality(Workers)
    BY <1>1, <2>1, WorkersFinite DEF IInv, ActiveCounts, Count
  <2>3. QED
    BY <1>1, <2>1, <2>2 DEF Count
<1>2. QED
  BY <1>1, IInvAlways, PTL DEF Spec, RefusedOnlyAtCap
=============================================================================
