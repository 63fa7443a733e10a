------------------------- MODULE PolyformClientProofs -------------------------
(***************************************************************************)
(* For one client over its state file, any inventory and any responses:    *)
(* the rollback floor only rises, no version ever names two things, and    *)
(* what is live was persisted first.                                       *)
(***************************************************************************)
EXTENDS PolyformClient, TLAPS

\* t may come after s: what verify_assignment checks against the prior state.
Follows(t, s) ==
    /\ t.listVersion >= s.listVersion
    /\ t.revision >= s.revision
    /\ t.listVersion = s.listVersion =>
         t.statuses = s.statuses /\ DOMAIN s.quarantined \subseteq DOMAIN t.quarantined
    /\ t.revision = s.revision => t.implementations = s.implementations

InService(s) ==
    \A f \in Functions :
        /\ s.statuses[s.implementations[f]] = "active"
        /\ s.implementations[f] \notin DOMAIN s.quarantined

InFlight == {"waiting", "verified", "writing", "written"}
Answered == {"verified", "writing", "written"}

\* The inductive invariant: the client compares with exactly what is in the
\* file, so the file is the top of everything ever accepted.
IInv ==
    /\ phase \in [Clients -> Phases]
    /\ DOMAIN prior = Clients /\ DOMAIN next = Clients /\ DOMAIN mem = Clients
    /\ disk = None \/ IsState(disk)
    /\ live \in Clients \cup {None}
    /\ \A c \in Clients :
         /\ mem[c] # None <=> live = c
         /\ live = c => disk # None /\ (phase[c] # "renamed" => mem[c] = disk)
         /\ phase[c] \in InFlight => prior[c] = disk
         /\ phase[c] \in Answered =>
              /\ IsState(next[c]) /\ InService(next[c])
              /\ disk # None => Follows(next[c], disk)
         /\ phase[c] = "written" => tmp = next[c]
         /\ phase[c] = "renamed" => next[c] = disk /\ IsState(disk) /\ InService(disk)
    /\ \A s \in accepted : IsState(s) /\ disk # None /\ Follows(disk, s) /\ InService(s)
    /\ \A s \in accepted : \A t \in accepted :
         /\ s.listVersion = t.listVersion => s.statuses = t.statuses
         /\ s.revision = t.revision => s.implementations = t.implementations

LEMMA FollowsTrans ==
    ASSUME NEW r, NEW s, NEW t, IsState(r), IsState(s), IsState(t),
           Follows(t, s), Follows(s, r)
    PROVE  Follows(t, r)
BY DEF Follows, IsState

\* verify_assignment returns a state that follows the prior one.
LEMMA VerifiedFollows ==
    ASSUME NEW a \in Assignments, NEW p, Verifies(a, p), p = None \/ IsState(p)
    PROVE  LET s == VerifiedState(a, p)
           IN  IsState(s) /\ InService(s) /\ (p # None => Follows(s, p))
<1> DEFINE s == VerifiedState(a, p)
<1>1. IsState(s)
  BY ClientAssumption DEF VerifiedState, IsState
<1>2. InService(s)
  BY DEF Verifies, MatchesInventory, FloorAllows, VerifiedState, InService
<1>3. ASSUME p # None
      PROVE  Follows(s, p)
  <2>1. /\ s.listVersion >= p.listVersion
        /\ s.revision >= p.revision
        /\ s.listVersion = p.listVersion => s.statuses = p.statuses
        /\ s.revision = p.revision => s.implementations = p.implementations
    BY <1>3 DEF Verifies, NoRollback, VerifiedState
  <2>2. ASSUME s.listVersion = p.listVersion
        PROVE  DOMAIN p.quarantined \subseteq DOMAIN s.quarantined
    <3>1. ~(a.listVersion > p.listVersion)
      BY <1>1, <2>2, <1>3 DEF IsState, VerifiedState
    <3>2. DOMAIN p.quarantined \subseteq DOMAIN Floor(a, p)
      BY <1>3, <3>1 DEF Floor
    <3>3. QED
      BY <3>2 DEF VerifiedState
  <2>3. QED
    BY <2>1, <2>2 DEF Follows
<1>4. QED
  BY <1>1, <1>2, <1>3

LEMMA NotNone == \A s : IsState(s) => s # None /\ s # Torn
BY DEF IsState, None, Torn

LEMMA InitIInv == Init => IInv
BY ClientAssumption DEF Init, IInv, Phases, InFlight, Answered

\* Verification against the state in the file yields a state that may replace it.
LEMMA AcceptIInv ==
    ASSUME IInv, NEW c \in Clients, NEW a \in Assignments, Accept(c, a)
    PROVE  IInv'
<1>1. prior[c] = disk /\ Verifies(a, prior[c]) /\ (disk = None \/ IsState(disk))
  BY DEF IInv, Accept, InFlight
<1>2. /\ IsState(VerifiedState(a, disk)) /\ InService(VerifiedState(a, disk))
      /\ disk # None => Follows(VerifiedState(a, disk), disk)
  BY <1>1, VerifiedFollows
<1>3. next' = [next EXCEPT ![c] = VerifiedState(a, disk)]
  BY <1>1 DEF Accept
<1>4. QED
  BY <1>2, <1>3 DEF Accept, IInv, Phases, InFlight, Answered

\* A failed request, verification or write leaves the client as it was.
LEMMA FailIInv ==
    ASSUME IInv, NEW c \in Clients, Clients = {c}, Reject(c) \/ PersistFails(c)
    PROVE  IInv'
<1>1. /\ Fail(c) /\ phase[c] # "renamed"
      /\ UNCHANGED <<release, disk, live, accepted>>
  BY DEF Reject, PersistFails
<1>2. Retained(c) \in {"ready", "off"}
  BY DEF Retained
<1>3. mem'[c] = mem[c]
  BY <1>1 DEF Fail, Retained, IInv
<1>4. phase'[c] \in {"ready", "off"} /\ phase' \in [Clients -> Phases]
  BY <1>1, <1>2 DEF Fail, IInv, Phases
<1>5. DOMAIN prior' = Clients /\ DOMAIN next' = Clients /\ DOMAIN mem' = Clients
  BY <1>1 DEF Fail, IInv
<1>6. QED
  BY <1>1, <1>3, <1>4, <1>5 DEF IInv, InFlight, Answered

\* The rename makes the verified state the new top.
LEMMA RenameIInv ==
    ASSUME IInv, NEW c \in Clients, Clients = {c}, Rename(c)
    PROVE  IInv'
<1> DEFINE n == next[c]
<1>1. /\ IsState(n) /\ InService(n)
      /\ disk # None => Follows(n, disk)
      /\ disk' = n
      /\ disk = None \/ IsState(disk)
  BY DEF Rename, IInv, Answered
<1>2. n # None
  BY <1>1, NotNone
<1>3. \A s \in accepted : IsState(s) /\ Follows(n, s) /\ InService(s)
  BY <1>1, FollowsTrans DEF IInv
<1>4. /\ phase' = [phase EXCEPT ![c] = "renamed"]
      /\ UNCHANGED <<live, prior, next, mem, accepted>>
  BY DEF Rename
<1>5. phase' \in [Clients -> Phases] /\ phase'[c] = "renamed"
  BY <1>4 DEF IInv, Phases
<1>6. QED
  BY <1>1, <1>2, <1>3, <1>4, <1>5 DEF IInv, InFlight, Answered

\* What is activated is what the file holds.
LEMMA ActivateIInv ==
    ASSUME IInv, NEW c \in Clients, Clients = {c}, Activate(c)
    PROVE  IInv'
<1> DEFINE n == next[c]
<1>1. /\ n = disk /\ IsState(n) /\ InService(n) /\ UNCHANGED disk
  BY DEF Activate, IInv
<1>2. n # None
  BY <1>1, NotNone
<1>3. c # None
  BY ClientAssumption
<1>4. \A s \in accepted : IsState(s) /\ Follows(n, s) /\ InService(s)
  BY <1>1 DEF IInv
<1>5. Follows(n, n)
  BY <1>1 DEF Follows, IsState
<1>6. CASE Activated(c) /\ accepted' = accepted \cup {n}
  <2>1. /\ live' = c /\ phase'[c] = "ready" /\ mem'[c] = n
        /\ phase' \in [Clients -> Phases]
        /\ DOMAIN mem' = Clients
    BY <1>6 DEF Activated, Phases
  <2>2. DOMAIN prior' = Clients /\ DOMAIN next' = Clients
    BY DEF Activate, IInv
  <2>3. \A s \in accepted' :
          IsState(s) /\ disk' # None /\ Follows(disk', s) /\ InService(s)
    BY <1>1, <1>2, <1>4, <1>5, <1>6
  <2>4. \A s \in accepted' : \A t \in accepted' :
          /\ s.listVersion = t.listVersion => s.statuses = t.statuses
          /\ s.revision = t.revision => s.implementations = t.implementations
    <3>1. \A s \in accepted :
            /\ s.listVersion = n.listVersion => s.statuses = n.statuses
            /\ s.revision = n.revision => s.implementations = n.implementations
      BY <1>4 DEF Follows
    <3>2. QED
      BY <3>1, <1>6 DEF IInv
  <2>5. QED
    BY <1>1, <1>2, <2>1, <2>2, <2>3, <2>4 DEF IInv, InFlight, Answered
<1>7. CASE Dropped(c) /\ mem[c] = None /\ UNCHANGED accepted
  <2>1. /\ live' = live /\ phase'[c] = "off" /\ mem'[c] = None
        /\ phase' \in [Clients -> Phases]
        /\ DOMAIN mem' = Clients
    BY <1>7 DEF Dropped, Phases, IInv
  <2>2. live # c
    BY <1>7 DEF IInv
  <2>3. DOMAIN prior' = Clients /\ DOMAIN next' = Clients
    BY DEF Activate, IInv
  <2>4. QED
    BY <1>1, <1>2, <1>4, <1>7, <2>1, <2>2, <2>3 DEF IInv, InFlight, Answered
<1>8. QED
  BY <1>6, <1>7 DEF Activate, IInv

LEMMA NextIInv ==
    ASSUME NEW c, Clients = {c}, IInv, [Next]_vars
    PROVE  IInv'
<1>0. c \in Clients
  OBVIOUS
<1>1. CASE Restart
  BY <1>1, ClientAssumption DEF Restart, IInv, Phases, InFlight, Answered
<1>2. CASE Register(c)
  BY <1>0, <1>2 DEF Register, IInv, Phases, InFlight, Answered
<1>3. CASE Refresh(c)
  BY <1>0, <1>3 DEF Refresh, IInv, Phases, InFlight, Answered
<1>4. CASE \E a \in Assignments : Accept(c, a)
  BY <1>0, <1>4, AcceptIInv
<1>5. CASE Reject(c) \/ PersistFails(c)
  BY <1>0, <1>5, FailIInv
<1>6. CASE OpenTemporary(c)
  BY <1>0, <1>6 DEF OpenTemporary, IInv, Phases, InFlight, Answered
<1>7. CASE WriteTemporary(c)
  BY <1>0, <1>7 DEF WriteTemporary, IInv, Phases, InFlight, Answered
<1>8. CASE Rename(c)
  BY <1>0, <1>8, RenameIInv
<1>9. CASE Activate(c)
  BY <1>0, <1>9, ActivateIInv
<1>10. CASE UNCHANGED vars
  BY <1>10 DEF vars, IInv
<1>11. QED
  BY <1>0, <1>1, <1>2, <1>3, <1>4, <1>5, <1>6, <1>7, <1>8, <1>9, <1>10 DEF Next, Step

-----------------------------------------------------------------------------
(* The theorems, for one client over its state file. *)

\* Over any run of registrations, refreshes, failed writes and restarts, all
\* compositions ever active agree on what a list version and a revision name.
THEOREM NoEquivocationAlways ==
    ASSUME NEW c, Clients = {c}
    PROVE  Spec => []NoEquivocation
<1>1. IInv => NoEquivocation
  BY DEF IInv, NoEquivocation
<1>2. IInv /\ [Next]_vars => IInv'
  BY NextIInv
<1>3. QED
  BY <1>1, <1>2, InitIInv, PTL DEF Spec

\* The state file is never a half-written one, so a restart finds its floor.
THEOREM StateFileWholeAlways ==
    ASSUME NEW c, Clients = {c}
    PROVE  Spec => []StateFileWhole
<1>1. IInv => StateFileWhole
  BY NotNone DEF IInv, StateFileWhole, None, Torn
<1>2. IInv /\ [Next]_vars => IInv'
  BY NextIInv
<1>3. QED
  BY <1>1, <1>2, InitIInv, PTL DEF Spec

\* The live composition is the persisted one, or about to become it: only
\* between the rename and the activation is the file one state ahead.
THEOREM PersistedBeforeActiveAlways ==
    ASSUME NEW c, Clients = {c}
    PROVE  Spec => []PersistedBeforeActive
<1>1. IInv => PersistedBeforeActive
  BY DEF IInv, PersistedBeforeActive
<1>2. IInv /\ [Next]_vars => IInv'
  BY NextIInv
<1>3. QED
  BY <1>1, <1>2, InitIInv, PTL DEF Spec

\* Nothing out of service in its own list, or under the carried-over floor, is
\* ever assigned by an active composition.
THEOREM AssignedInServiceAlways ==
    ASSUME NEW c, Clients = {c}
    PROVE  Spec => []AssignedInService
<1>1. IInv => AssignedInService
  BY DEF IInv, AssignedInService, InService
<1>2. IInv /\ [Next]_vars => IInv'
  BY NextIInv
<1>3. QED
  BY <1>1, <1>2, InitIInv, PTL DEF Spec

\* Only the rename of a verified state changes the state file.
LEMMA DiskStep ==
    ASSUME NEW c, Clients = {c}, IInv, [Next]_vars
    PROVE  disk' = disk \/ (IsState(disk') /\ (disk # None => Follows(disk', disk)))
<1>0. c \in Clients
  OBVIOUS
<1>1. CASE Rename(c)
  BY <1>0, <1>1 DEF Rename, IInv, Answered
<1>2. CASE Restart \/ UNCHANGED vars
  BY <1>2 DEF Restart, vars
<1>3. CASE Step(c) /\ ~Rename(c)
  BY <1>3 DEF Step, Register, Refresh, Accept, Reject, OpenTemporary,
              WriteTemporary, PersistFails, Activate
<1>4. QED
  BY <1>0, <1>1, <1>2, <1>3 DEF Next

\* No step takes the persisted list version or revision back.
THEOREM FloorMonotoneAlways ==
    ASSUME NEW c, Clients = {c}
    PROVE  Spec => FloorMonotone
<1>1. IInv /\ [Next]_vars =>
        [disk \notin {None, Torn} /\ disk' \notin {None, Torn} =>
           /\ disk'.listVersion >= disk.listVersion
           /\ disk'.revision >= disk.revision]_vars
  <2> SUFFICES ASSUME IInv, [Next]_vars, disk \notin {None, Torn}
               PROVE  disk'.listVersion >= disk.listVersion /\ disk'.revision >= disk.revision
    OBVIOUS
  <2>1. IsState(disk)
    BY DEF IInv
  <2>2. QED
    BY <2>1, DiskStep DEF Follows, IsState
<1>2. IInv /\ [Next]_vars => IInv'
  BY NextIInv
<1>3. QED
  BY <1>1, <1>2, InitIInv, PTL DEF Spec, FloorMonotone

\* No step lifts an implementation from the persisted quarantine floor unless
\* the list version rises with it.
THEOREM RestoreNeedsNewListAlways ==
    ASSUME NEW c, Clients = {c}
    PROVE  Spec => RestoreNeedsNewList
<1>1. IInv /\ [Next]_vars =>
        [disk \notin {None, Torn} /\ disk' \notin {None, Torn} =>
           (DOMAIN disk.quarantined \subseteq DOMAIN disk'.quarantined
              \/ disk'.listVersion > disk.listVersion)]_vars
  <2> SUFFICES ASSUME IInv, [Next]_vars, disk \notin {None, Torn}
               PROVE  \/ DOMAIN disk.quarantined \subseteq DOMAIN disk'.quarantined
                      \/ disk'.listVersion > disk.listVersion
    OBVIOUS
  <2>1. IsState(disk)
    BY DEF IInv
  <2>2. CASE disk' = disk
    BY <2>2
  <2>3. CASE IsState(disk') /\ Follows(disk', disk)
    BY <2>1, <2>3 DEF Follows, IsState
  <2>4. QED
    BY <2>2, <2>3, DiskStep
<1>2. IInv /\ [Next]_vars => IInv'
  BY NextIInv
<1>3. QED
  BY <1>1, <1>2, InitIInv, PTL DEF Spec, RestoreNeedsNewList
=============================================================================
