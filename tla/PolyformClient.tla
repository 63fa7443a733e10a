--------------------------- MODULE PolyformClient ---------------------------
(***************************************************************************)
(* The composition client of src/vendor/polyform-runtime/src/lib.rs as     *)
(* src/src/proxy.rs uses it: register at startup and at a reload that      *)
(* changes [polyform], refresh from a background thread, verify_assignment *)
(* against the state verified before, persist_state through a temporary    *)
(* file and a rename, and only then activation in memory.                  *)
(*                                                                         *)
(* The server and the network are not trusted to be consistent: a response *)
(* is any member of Assignments, a replayed or reordered one included.     *)
(* The process may stop between any two steps and start again, perhaps as  *)
(* another release.                                                        *)
(***************************************************************************)
EXTENDS Naturals, FiniteSets

CONSTANTS
    Clients,        \* Client objects over one state_path; one at a time is live
    Functions,      \* inventory.keys()
    Inventory,      \* Inventory[f]: implementations compiled for f
    Releases,       \* release identities a process may be started as
    Assignments     \* every response considered

\* No state, no file, no client; and a file that fs::write has not finished.
None == [kind |-> "none"]
Torn == [kind |-> "torn"]

AllIds == UNION { Inventory[f] : f \in Functions }
StatusWords == {"active", "quarantined", "disabled"}

ASSUME ClientAssumption ==
    /\ \A a \in Assignments : a.listVersion \in Nat /\ a.revision \in Nat
    /\ None \notin Clients

VARIABLES
    release,    \* trust.release_id of the running process
    disk,       \* the state file
    tmp,        \* its temporary file, shared by every client
    live,       \* the client of the live runtime
    phase,      \* per client: off, ready, waiting, verified, writing, written or renamed
    prior,      \* the state verify_assignment will compare with
    next,       \* the state it returned
    mem,        \* Client.state, with composition, revision and list_version
    accepted    \* history: every state ever activated

vars == <<release, disk, tmp, live, phase, prior, next, mem, accepted>>

Phases == {"off", "ready", "waiting", "verified", "writing", "written", "renamed"}

Init ==
    /\ release \in Releases
    /\ disk = None
    /\ tmp = None
    /\ live = None
    /\ phase = [c \in Clients |-> "off"]
    /\ prior = [c \in Clients |-> None]
    /\ next = [c \in Clients |-> None]
    /\ mem = [c \in Clients |-> None]
    /\ accepted = {}

-----------------------------------------------------------------------------
(* verify_assignment, check by check.  A state is a record of the fields   *)
(* of PersistedState that later checks read.                               *)

\* The response answers this request and carries the delegated signature.
Authentic(a) == a.release = release /\ a.nonce = "this" /\ a.signer /\ a.signature

\* It assigns every function of the binary an implementation compiled for it,
\* lists the status of exactly the compiled ones in known words, and assigns
\* only active ones.
MatchesInventory(a) ==
    /\ Inventory # <<>>
    /\ DOMAIN a.implementations = Functions
    /\ \A f \in Functions : a.implementations[f] \in Inventory[f]
    /\ DOMAIN a.statuses = AllIds
    /\ \A i \in AllIds : a.statuses[i] \in StatusWords
    /\ \A f \in Functions : a.statuses[a.implementations[f]] = "active"

(***************************************************************************)
(* Faulty variants, for checking that the properties below can fail.       *)
(***************************************************************************)
\* Compares versions but not what they name.
NoRollbackVersions(a, p) ==
    p # None =>
        /\ p.release = release
        /\ p.client \in {"", a.client}
        /\ a.listVersion >= p.listVersion /\ a.revision >= p.revision

\* Does not compare list versions.
NoRollbackList(a, p) ==
    p # None =>
        /\ p.release = release
        /\ p.client \in {"", a.client}
        /\ a.revision >= p.revision
        /\ a.listVersion = p.listVersion => a.statuses = p.statuses
        /\ a.revision = p.revision => a.implementations = p.implementations

\* Records what newly left service and carries nothing over.
FloorNewlyOut(a, p) ==
    LET old == IF p = None THEN <<>> ELSE p.quarantined
    IN  [i \in { j \in AllIds : a.statuses[j] # "active" } \ DOMAIN old |-> a.listVersion]

\* It is no rollback of what was verified before.
NoRollback(a, p) ==
    p # None =>
        /\ p.release = release
        /\ p.client \in {"", a.client}
        /\ a.listVersion >= p.listVersion
        /\ a.revision >= p.revision
        /\ a.listVersion = p.listVersion => a.statuses = p.statuses
        /\ a.revision = p.revision => a.implementations = p.implementations

\* The quarantine floor after a: the list version at which each implementation
\* left service, forgotten only by a higher list version that restores it.
Floor(a, p) ==
    LET old == IF p = None THEN <<>> ELSE p.quarantined
        canRestore == p = None \/ a.listVersion > p.listVersion
        out == { i \in AllIds : a.statuses[i] # "active" }
        kept == { i \in DOMAIN old : i \in out \/ ~canRestore \/ i \notin AllIds }
    IN  [i \in out \cup kept |-> IF i \in DOMAIN old THEN old[i] ELSE a.listVersion]

FloorAllows(a, p) == \A f \in Functions : a.implementations[f] \notin DOMAIN Floor(a, p)

Verifies(a, p) ==
    Authentic(a) /\ MatchesInventory(a) /\ NoRollback(a, p) /\ FloorAllows(a, p)

\* Faulty variant: the new statuses are kept with the old composition.
VerifiedStateStale(a, p) ==
    [kind |-> "state", release |-> a.release, client |-> a.client,
     listVersion |-> a.listVersion, revision |-> a.revision,
     implementations |-> IF p = None THEN a.implementations ELSE p.implementations,
     statuses |-> a.statuses, quarantined |-> Floor(a, p)]

VerifiedState(a, p) ==
    [kind |-> "state", release |-> a.release, client |-> a.client,
     listVersion |-> a.listVersion, revision |-> a.revision,
     implementations |-> a.implementations, statuses |-> a.statuses,
     quarantined |-> Floor(a, p)]

-----------------------------------------------------------------------------
\* Faulty variant: goes live with the verified state before persisting it.
AcceptEarly(c, a) ==
    /\ phase[c] = "waiting"
    /\ Verifies(a, prior[c])
    /\ phase' = [phase EXCEPT ![c] = "verified"]
    /\ next' = [next EXCEPT ![c] = VerifiedState(a, prior[c])]
    /\ mem' = [mem EXCEPT ![c] = next'[c]]
    /\ live' = c
    /\ UNCHANGED <<release, disk, tmp, prior, accepted>>

\* Where a failed register or refresh leaves the client: nothing, or what it
\* had verified before.  The old runtime's client goes once it is idle.
Retained(c) == IF mem[c] # None /\ c = live THEN "ready" ELSE "off"

Fail(c) ==
    /\ phase' = [phase EXCEPT ![c] = Retained(c)]
    /\ mem' = [mem EXCEPT ![c] = IF Retained(c) = "ready" THEN @ ELSE None]
    /\ prior' = [prior EXCEPT ![c] = None]
    /\ next' = [next EXCEPT ![c] = None]

\* The main thread is inside register: it schedules and reloads nothing else.
Registering == \E d \in Clients : phase[d] \notin {"off", "ready"} /\ mem[d] = None

\* initialize_polyform: register loads the state file, which must parse, and
\* sends its request.
Register(c) ==
    /\ phase[c] = "off"
    /\ ~Registering
    /\ disk # Torn
    /\ phase' = [phase EXCEPT ![c] = "waiting"]
    /\ prior' = [prior EXCEPT ![c] = disk]
    /\ UNCHANGED <<release, disk, tmp, live, next, mem, accepted>>

\* schedule_polyform_refresh on the live runtime's client.
Refresh(c) ==
    /\ phase[c] = "ready"
    /\ c = live
    /\ ~Registering
    /\ phase' = [phase EXCEPT ![c] = "waiting"]
    /\ prior' = [prior EXCEPT ![c] = mem[c]]
    /\ UNCHANGED <<release, disk, tmp, live, next, mem, accepted>>

\* The response arrives and verifies.
Accept(c, a) ==
    /\ phase[c] = "waiting"
    /\ Verifies(a, prior[c])
    /\ phase' = [phase EXCEPT ![c] = "verified"]
    /\ next' = [next EXCEPT ![c] = VerifiedState(a, prior[c])]
    /\ UNCHANGED <<release, disk, tmp, live, prior, mem, accepted>>

\* The request fails or its response does not verify.
Reject(c) ==
    /\ phase[c] = "waiting"
    /\ Fail(c)
    /\ UNCHANGED <<release, disk, tmp, live, accepted>>

\* Faulty variant: writes the state file in place.
OpenInPlace(c) ==
    /\ phase[c] = "verified"
    /\ tmp' = Torn
    /\ disk' = Torn
    /\ phase' = [phase EXCEPT ![c] = "writing"]
    /\ UNCHANGED <<release, live, prior, next, mem, accepted>>

\* persist_state: fs::write truncates the temporary file and fills it.
OpenTemporary(c) ==
    /\ phase[c] = "verified"
    /\ tmp' = Torn
    /\ phase' = [phase EXCEPT ![c] = "writing"]
    /\ UNCHANGED <<release, disk, live, prior, next, mem, accepted>>

WriteTemporary(c) ==
    /\ phase[c] = "writing"
    /\ tmp' = next[c]
    /\ phase' = [phase EXCEPT ![c] = "written"]
    /\ UNCHANGED <<release, disk, live, prior, next, mem, accepted>>

\* fs::write or fs::rename fails: the state is not activated.
PersistFails(c) ==
    /\ phase[c] \in {"verified", "writing", "written"}
    /\ Fail(c)
    /\ UNCHANGED <<release, disk, tmp, live, accepted>>

\* Client c is dropped: it was replaced, or its runtime could not be built.
Dropped(c) ==
    /\ phase' = [phase EXCEPT ![c] = "off"]
    /\ mem' = [mem EXCEPT ![c] = None]
    /\ UNCHANGED live

\* Client c becomes, or stays, the live one; an idle predecessor is dropped.
Activated(c) ==
    /\ live' = c
    /\ phase' = [d \in Clients |->
                   IF d = c THEN "ready" ELSE IF phase[d] = "ready" THEN "off" ELSE phase[d]]
    /\ mem' = [d \in Clients |->
                 IF d = c THEN next[c] ELSE IF phase[d] = "ready" THEN None ELSE mem[d]]

\* fs::rename: from here on the state survives a stop, active or not.
Rename(c) ==
    /\ phase[c] = "written"
    /\ tmp # None
    /\ disk' = tmp
    /\ tmp' = None
    /\ phase' = [phase EXCEPT ![c] = "renamed"]
    /\ UNCHANGED <<release, live, prior, next, mem, accepted>>

\* What follows persist_state: a refreshed client is updated, which only matters
\* while it is live; a registered one goes live unless build_runtime refuses the
\* new configuration.
Activate(c) ==
    /\ phase[c] = "renamed"
    /\ \/ mem[c] # None /\ c = live /\ Activated(c) /\ accepted' = accepted \cup {next[c]}
       \/ mem[c] # None /\ c # live /\ Dropped(c) /\ UNCHANGED accepted
       \/ mem[c] = None /\ Activated(c) /\ accepted' = accepted \cup {next[c]}
       \/ mem[c] = None /\ Dropped(c) /\ UNCHANGED accepted
    /\ prior' = [prior EXCEPT ![c] = None]
    /\ next' = [next EXCEPT ![c] = None]
    /\ UNCHANGED <<release, disk, tmp>>

\* The process stops, at any point, and is started again.
Restart ==
    /\ live # None \/ \E c \in Clients : phase[c] # "off"
    /\ release' \in Releases
    /\ live' = None
    /\ phase' = [c \in Clients |-> "off"]
    /\ prior' = [c \in Clients |-> None]
    /\ next' = [c \in Clients |-> None]
    /\ mem' = [c \in Clients |-> None]
    /\ UNCHANGED <<disk, tmp, accepted>>

Step(c) ==
    \/ Register(c) \/ Refresh(c)
    \/ \E a \in Assignments : Accept(c, a)
    \/ Reject(c)
    \/ OpenTemporary(c) \/ WriteTemporary(c) \/ PersistFails(c) \/ Rename(c) \/ Activate(c)

Next == Restart \/ \E c \in Clients : Step(c)

Spec == Init /\ [][Next]_vars

-----------------------------------------------------------------------------
\* A state as VerifiedState makes them.
IsState(s) ==
    /\ s.kind = "state"
    /\ s.listVersion \in Nat /\ s.revision \in Nat

TypeOK ==
    /\ release \in Releases
    /\ disk \in {None, Torn} \/ IsState(disk)
    /\ tmp \in {None, Torn} \/ IsState(tmp)
    /\ live \in Clients \cup {None}
    /\ phase \in [Clients -> Phases]
    /\ \A c \in Clients :
         /\ prior[c] = None \/ IsState(prior[c])
         /\ next[c] = None \/ IsState(next[c])
         /\ mem[c] = None \/ IsState(mem[c])
    /\ \A s \in accepted : IsState(s)

\* However the process is stopped and whichever write fails, the state file is
\* a complete state: the next start can load its rollback floor.
StateFileWhole == disk # Torn

\* What is live was persisted first: a crash never forgets an activated
\* composition and its floor.  The file is ahead of what is live only between a
\* rename and the assignments after it, and then it holds what they activate.
PersistedBeforeActive ==
    live # None => mem[live] = disk \/ (phase[live] = "renamed" /\ next[live] = disk)

\* Over restarts, refreshes and failures, the versions in the state file only
\* go up: no response takes the installation back.
FloorMonotone ==
    [][disk \notin {None, Torn} /\ disk' \notin {None, Torn} =>
         /\ disk'.listVersion >= disk.listVersion
         /\ disk'.revision >= disk.revision]_vars

\* An implementation leaves the persisted quarantine floor only under a
\* strictly higher list version.
RestoreNeedsNewList ==
    [][disk \notin {None, Torn} /\ disk' \notin {None, Torn} =>
         (DOMAIN disk.quarantined \subseteq DOMAIN disk'.quarantined
            \/ disk'.listVersion > disk.listVersion)]_vars

\* Of all states ever active, two with one list version carry the same
\* statuses and two with one revision the same composition, although each
\* response was compared with the state before it only.
NoEquivocation ==
    \A s \in accepted : \A t \in accepted :
        /\ s.listVersion = t.listVersion => s.statuses = t.statuses
        /\ s.revision = t.revision => s.implementations = t.implementations

\* Nothing active assigns an implementation that its signed status list, or a
\* floor carried over from an earlier one, has taken out of service.
AssignedInService ==
    \A s \in accepted : \A f \in Functions :
        /\ s.statuses[s.implementations[f]] = "active"
        /\ s.implementations[f] \notin DOMAIN s.quarantined
=============================================================================
