------------------------ MODULE ReceiverAuthorization ------------------------
(***************************************************************************)
(* The receiver daemon of one node.  It observes ZFSReceiveTasks through an *)
(* informer cache, compiles the complete listed view into one immutable    *)
(* snapshot of grants, publishes it by renaming the authorized_keys        *)
(* manifest, removes retired generations, and reports Ready or Failed back *)
(* to every task.  sshd authenticates against the manifest; every accepted *)
(* session runs a forced-command process that admits one command.          *)
(*                                                                         *)
(* A snapshot is named by the digest of its grants, so here it IS the set  *)
(* of its grants.  A grant keeps the task UID and the lease; the command   *)
(* policy it carries never changes for a UID.  A missing file is {}, a     *)
(* file is a singleton set.  All times are ticks of the clock `now`.       *)
(***************************************************************************)
EXTENDS Integers, FiniteSets

CONSTANTS
    Tasks,           \* UIDs of receive tasks for this node
    Keys, NoKey,     \* canonical public keys; a key that does not parse
    KeyOf,           \* KeyOf[u]: the immutable public key of a task
    WellFormed,      \* tasks whose dataset, prefix, compression pass validation
    ExpiryTimes,     \* the deadlines an API writer may give a task
    Horizon,         \* maximumLeaseHorizon
    TicksPerSecond,  \* resolution of the clock below OpenSSH's whole seconds
    MaxTime,         \* bound: the clock stops here, "this late or later"
    MaxSessions,     \* bound: concurrent forced-command processes
    MaxFaults        \* bound: MaxFaults[k] faults of kind k per behaviour

FaultKinds == {"publish", "cleanup", "api", "exit"}

ASSUME ConstantsAssumption ==
    /\ KeyOf \in [Tasks -> Keys \cup {NoKey}]
    /\ NoKey \notin Keys
    /\ WellFormed \subseteq Tasks
    /\ ExpiryTimes \subseteq Nat \ {0}
    /\ Horizon \in Nat
    /\ TicksPerSecond \in Nat \ {0}
    /\ MaxTime \in Nat
    /\ MaxSessions \in Nat
    /\ MaxFaults \in [FaultKinds -> Nat]

VARIABLES
    phase,      \* API server: status.phase of each task
    expiresAt,  \* API server: spec.ssh.expiresAt of each task
    view,       \* informer cache: 0 if not a candidate, else its expiresAt
    queued,     \* the single reconcile request is in the work queue
    timer,      \* RequeueAfter deadlines the delaying queue holds
    life,       \* how far the receiver process is in its startup
    pc,         \* where the Reconcile in progress is
    lapsed,     \* leaseState.lapsed: UIDs this process has seen lapse
    pending,    \* the compiled snapshot of the Reconcile in progress
    toClean,    \* retired generations the cleanup loop still has to visit
    toReport,   \* candidates whose outcome is still to be reported
    latest,     \* the object latestNonTerminalTask returned, if any
    result,     \* the delay deadlineResult computed, if any
    errs,       \* reconcileErrs is not empty
    manifest,   \* authorized_keys: the active snapshot, if any
    complete,   \* generations on disk with all their files
    partial,    \* generations a failed removal left incomplete
    procs,      \* forced-command processes
    now,        \* the node's clock
    faults      \* faults of each kind so far

apiVars  == <<phase, expiresAt>>
passVars == <<pending, toClean, toReport, latest, result, errs>>
diskVars == <<manifest, complete, partial>>
vars == <<apiVars, view, queued, timer, life, pc, lapsed, passVars, diskVars,
          procs, now, faults>>

-----------------------------------------------------------------------------
(* Types.                                                                   *)

Grants    == [uid : Tasks, expiresAt : Nat]
Snapshots == SUBSET Grants
Live      == {"Pending", "Ready"}           \* neither absent nor terminal
Terminal  == {"Completed", "Failed"}
Phases    == {"absent", "Gone"} \cup Live \cup Terminal
Stages    == {"exec", "checked", "loaded", "admitted"}
Procs     == [stage : Stages, snap : Snapshots, grant : Grants]
Reads     == [uid : Tasks, phase : Live, expiresAt : Nat]

TypeOK ==
    /\ phase \in [Tasks -> Phases]
    /\ expiresAt \in [Tasks -> Nat]
    /\ view \in [Tasks -> Nat]
    /\ queued \in BOOLEAN
    /\ timer \subseteq Nat
    /\ life \in {"stopped", "resetting", "starting", "activated", "serving"}
    /\ pc \in {"idle", "activating", "committing", "cleaning", "reporting"}
    /\ lapsed \subseteq Tasks
    /\ pending \in Snapshots
    /\ toClean \subseteq Snapshots
    /\ toReport \subseteq Tasks
    /\ latest \subseteq Reads
    /\ result \subseteq Nat
    /\ errs \in BOOLEAN
    /\ manifest \subseteq Snapshots
    /\ complete \subseteq Snapshots
    /\ partial \subseteq Snapshots
    /\ procs \subseteq Procs
    /\ now \in Nat
    /\ faults \in [FaultKinds -> Nat]

-----------------------------------------------------------------------------
(* Pure parts: compilation and lease arithmetic.                            *)

\* listReceiveTaskCandidates: what the cached list of a view returns.
Listed(v) == {u \in Tasks : v[u] # 0}

\* Mutant: the candidate list keeps terminal tasks.
TruthKeepsTerminal ==
    [u \in Tasks |-> IF phase[u] \in Live \cup Terminal THEN expiresAt[u] ELSE 0]

\* The part of the API state that a fully synchronised cache lists.
Truth == [u \in Tasks |-> IF phase[u] \in Live THEN expiresAt[u] ELSE 0]

\* validateGrant's two lease rules at time t.
LeaseValid(deadline, t) == deadline > t /\ deadline <= t + Horizon

\* Mutant: duplicate keys are not looked for.
AmbiguousKeyIgnored(v, u) == FALSE

\* keyOwners counts every listed candidate whose key parses, even one that is
\* rejected for a reason of its own.
AmbiguousKey(v, u) == \E w \in Listed(v) \ {u} : KeyOf[w] = KeyOf[u]

CompileCandidate(v, u, t) ==
    /\ KeyOf[u] # NoKey
    /\ u \in WellFormed
    /\ LeaseValid(v[u], t)

CompileCandidates(v, t) ==
    {[uid |-> u, expiresAt |-> v[u]] :
        u \in {w \in Listed(v) : /\ CompileCandidate(v, w, t)
                                 /\ ~AmbiguousKey(v, w)}}

\* recordAndReturnPreviouslyObservedLapses: what this pass newly records.
ObservedLapses(v, t) == {u \in Listed(v) : v[u] <= t}

\* Mutant: a lapsed UID is granted again once its lease has moved.
RemoveNoLapsedGrants(grants, uids) == grants

RemoveLapsedGrants(grants, uids) == {g \in grants : g.uid \notin uids}

\* Mutant: the published second is the deadline's own.
OpenSSHExpirySecondInclusive(deadline) == deadline \div TicksPerSecond

\* openSSHExpiryTime truncates to the second and steps one second back; sshd
\* still accepts a key while the current second equals the expiry.
OpenSSHExpirySecond(deadline) == deadline \div TicksPerSecond - 1

SSHDAccepts(deadline, t) ==
    t \div TicksPerSecond <= OpenSSHExpirySecond(deadline)

\* Mutant: no deadline requeue.
NoDeadlineResult(grants, t) == {}

\* nextLeaseDeadline followed by deadlineResult: {} for no deadline, {0} for
\* an immediate requeue, {d} for RequeueAfter d.
DeadlineResult(grants, t) ==
    {IF g.expiresAt <= t THEN 0 ELSE g.expiresAt - t :
        g \in {h \in grants : \A k \in grants : h.expiresAt <= k.expiresAt}}

\* activeUsable: the manifest exists and its generation validates against it.
ActiveUsable == manifest # {} /\ manifest \subseteq complete

Charge(kind) ==
    /\ faults[kind] < MaxFaults[kind]
    /\ faults' = [faults EXCEPT ![kind] = @ + 1]

-----------------------------------------------------------------------------
Init ==
    /\ phase = [u \in Tasks |-> "absent"]
    /\ expiresAt = [u \in Tasks |-> 0]
    /\ view = [u \in Tasks |-> 0]
    /\ queued = FALSE
    /\ timer = {}
    /\ life = "stopped"
    /\ pc = "idle"
    /\ lapsed = {}
    /\ pending = {}
    /\ toClean = {}
    /\ toReport = {}
    /\ latest = {}
    /\ result = {}
    /\ errs = FALSE
    /\ manifest = {}
    /\ complete = {}
    /\ partial = {}
    /\ procs = {}
    /\ now = 0
    /\ faults = [k \in FaultKinds |-> 0]

-----------------------------------------------------------------------------
(* The rest of the cluster: the run controller and users write tasks.  The  *)
(* CRD lets only expiresAt change, and only forward.                        *)

CreateTask(u, deadline) ==
    /\ phase[u] = "absent"
    /\ phase' = [phase EXCEPT ![u] = "Pending"]
    /\ expiresAt' = [expiresAt EXCEPT ![u] = deadline]
    /\ UNCHANGED <<view, queued, timer, life, pc, lapsed, passVars, diskVars,
                   procs, now, faults>>

RenewTask(u, deadline) ==
    /\ phase[u] \in Live
    /\ deadline > expiresAt[u]
    /\ expiresAt' = [expiresAt EXCEPT ![u] = deadline]
    /\ UNCHANGED <<phase, view, queued, timer, life, pc, lapsed, passVars,
                   diskVars, procs, now, faults>>

\* markReceiveTaskTerminal is a merge patch without a lock: the run controller
\* may also replace one terminal phase by another.
FinishTask(u, outcome) ==
    /\ phase[u] \in (Live \cup Terminal) \ {outcome}
    /\ phase' = [phase EXCEPT ![u] = outcome]
    /\ UNCHANGED <<expiresAt, view, queued, timer, life, pc, lapsed, passVars,
                   diskVars, procs, now, faults>>

DeleteTask(u) ==
    /\ phase[u] \in Live \cup Terminal
    /\ phase' = [phase EXCEPT ![u] = "Gone"]
    /\ UNCHANGED <<expiresAt, view, queued, timer, life, pc, lapsed, passVars,
                   diskVars, procs, now, faults>>

Tick ==
    /\ now < MaxTime
    /\ now' = now + 1
    /\ UNCHANGED <<apiVars, view, queued, timer, life, pc, lapsed, passVars,
                   diskVars, procs, faults>>

-----------------------------------------------------------------------------
(* The informer cache and the work queue of the receiver process.           *)

\* A watch event replaces the cached object and enqueues the one request that
\* receiverAuthorizationRequests maps every event to.
SyncView(u) ==
    /\ life \in {"starting", "activated", "serving"}
    /\ view[u] # Truth[u]
    /\ view' = [view EXCEPT ![u] = Truth[u]]
    /\ queued' = TRUE
    /\ UNCHANGED <<apiVars, timer, life, pc, lapsed, passVars, diskVars,
                   procs, now, faults>>

\* The delaying queue hands over a request whose time has come.  At MaxTime
\* every outstanding deadline is taken to have passed.
Wake ==
    /\ \E t \in timer : t <= now \/ now = MaxTime
    /\ timer' = {}
    /\ queued' = TRUE
    /\ UNCHANGED <<apiVars, view, life, pc, lapsed, passVars, diskVars,
                   procs, now, faults>>

-----------------------------------------------------------------------------
(* The receiver process: start, initial activation, sshd.                   *)

\* Reset, first half: no active authority before anything else happens.
Reset ==
    /\ life = "stopped"
    /\ life' = "resetting"
    /\ manifest' = {}
    /\ UNCHANGED <<apiVars, view, queued, timer, pc, lapsed, passVars,
                   complete, partial, procs, now, faults>>

\* Mutant: sshd does not wait for the initial activation.
StartInitialUngated ==
    /\ life = "resetting"
    /\ life' = "activated"
    /\ complete' = {}
    /\ partial' = {}
    /\ view' = Truth
    /\ queued' = TRUE
    /\ UNCHANGED <<apiVars, timer, pc, lapsed, passVars, manifest, procs, now,
                   faults>>

\* Reset, second half, then WaitForCacheSync and StartInitial's trigger.
StartInitial ==
    /\ life = "resetting"
    /\ life' = "starting"
    /\ complete' = {}
    /\ partial' = {}
    /\ view' = Truth
    /\ queued' = TRUE
    /\ UNCHANGED <<apiVars, timer, pc, lapsed, passVars, manifest, procs, now,
                   faults>>

\* startAuthorizedSSHD: sshd starts once the initial activation has reported.
StartSSHD ==
    /\ life = "activated"
    /\ life' = "serving"
    /\ UNCHANGED <<apiVars, view, queued, timer, pc, lapsed, passVars,
                   diskVars, procs, now, faults>>

\* The process ends: memory, queue, sshd and its forced commands are gone, the
\* files of the runtime directory stay.
ProcessEnds ==
    /\ life' = "stopped"
    /\ pc' = "idle"
    /\ view' = [u \in Tasks |-> 0]
    /\ queued' = FALSE
    /\ timer' = {}
    /\ lapsed' = {}
    /\ pending' = {}
    /\ toClean' = {}
    /\ toReport' = {}
    /\ latest' = {}
    /\ result' = {}
    /\ errs' = FALSE
    /\ procs' = {}

\* A crash, a container restart, or sshd or the manager ending on its own.
Exit ==
    /\ life # "stopped"
    /\ Charge("exit")
    /\ ProcessEnds
    /\ UNCHANGED <<apiVars, diskVars, now>>

-----------------------------------------------------------------------------
(* Reconcile: list, Replace, report, requeue.                               *)

\* The list and the first half of Replace: compile, record lapses, drop grants
\* of UIDs that had lapsed before.
BeginReplace ==
    /\ pc = "idle"
    /\ life \in {"starting", "activated", "serving"}
    /\ queued
    /\ queued' = FALSE
    /\ pending' = RemoveLapsedGrants(CompileCandidates(view, now), lapsed)
    /\ lapsed' = lapsed \cup ObservedLapses(view, now)
    /\ toReport' = Listed(view)
    /\ errs' = FALSE
    /\ pc' = "activating"
    /\ UNCHANGED <<apiVars, view, timer, life, toClean, latest, result,
                   diskVars, procs, now, faults>>

\* Mutant: the cleanup does not skip the active generation.
BeginCleanupOfAll ==
    /\ pc' = "cleaning"
    /\ toClean' = complete \cup partial

\* ReadDir of cleanupRetiredGenerations, skipping the active generation.
BeginCleanup ==
    /\ pc' = "cleaning"
    /\ toClean' = (complete \cup partial) \ {pending}

\* handlePublicationFailure: keep the last complete snapshot and retry, unless
\* none is usable or the initial activation was still due; then exit.
HandlePublicationFailure ==
    \/ /\ ActiveUsable /\ life # "starting"
       /\ pc' = "idle"
       /\ queued' = TRUE
       /\ pending' = {}
       /\ toReport' = {}
       /\ UNCHANGED <<view, timer, life, lapsed, toClean, latest, result, errs,
                      procs>>
    \/ /\ ~(ActiveUsable /\ life # "starting")
       /\ ProcessEnds

\* activate, identical authority: the manifest already names this snapshot.
ActivateUnchanged ==
    /\ pc = "activating"
    /\ manifest = {pending}
    /\ pending \in complete
    /\ BeginCleanup
    /\ UNCHANGED <<apiVars, view, queued, timer, life, lapsed, pending,
                   toReport, latest, result, errs, diskVars, procs, now,
                   faults>>

\* materializeGeneration: reuse a valid generation or rename a staged one into
\* place.
MaterializeGeneration ==
    /\ pc = "activating"
    /\ pending \notin partial \cup manifest
    /\ complete' = complete \cup {pending}
    /\ pc' = "committing"
    /\ UNCHANGED <<apiVars, view, queued, timer, life, lapsed, passVars,
                   manifest, partial, procs, now, faults>>

\* validateGeneration rejects an existing or active generation that lacks a
\* file.
RejectDamagedGeneration ==
    /\ pc = "activating"
    /\ pending \in (partial \cup manifest) \ complete
    /\ HandlePublicationFailure
    /\ UNCHANGED <<apiVars, diskVars, now, faults>>

\* commitManifest: the rename that moves authority.
CommitManifest ==
    /\ pc = "committing"
    /\ manifest' = {pending}
    /\ BeginCleanup
    /\ UNCHANGED <<apiVars, view, queued, timer, life, lapsed, pending,
                   toReport, latest, result, errs, complete, partial, procs,
                   now, faults>>

\* Creating a directory, staging, or the manifest write fails before the rename.
PublicationFails ==
    /\ pc \in {"activating", "committing"}
    /\ Charge("publish")
    /\ HandlePublicationFailure
    /\ UNCHANGED <<apiVars, diskVars, now>>

RemoveGeneration(s) ==
    /\ pc = "cleaning"
    /\ s \in toClean
    /\ toClean' = toClean \ {s}
    /\ complete' = complete \ {s}
    /\ partial' = partial \ {s}
    /\ UNCHANGED <<apiVars, view, queued, timer, life, pc, lapsed, pending,
                   toReport, latest, result, errs, manifest, procs, now,
                   faults>>

\* removeGeneration fails, before or after it removed some of the files.
RemovalFails(s) ==
    /\ pc = "cleaning"
    /\ s \in toClean
    /\ Charge("cleanup")
    /\ toClean' = toClean \ {s}
    /\ errs' = TRUE
    /\ \/ UNCHANGED <<complete, partial>>
       \/ complete' = complete \ {s} /\ partial' = partial \cup {s}
    /\ UNCHANGED <<apiVars, view, queued, timer, life, pc, lapsed, pending,
                   toReport, latest, result, manifest, procs, now>>

\* Replace returns: deadlineResult is computed and reportInitial(nil) lets the
\* main goroutine start sshd.
FinishReplace ==
    /\ pc = "cleaning"
    /\ toClean = {}
    /\ pc' = "reporting"
    /\ life' = IF life = "starting" THEN "activated" ELSE life
    /\ result' = DeadlineResult(pending, now)
    /\ UNCHANGED <<apiVars, view, queued, timer, lapsed, pending, toClean,
                   toReport, latest, errs, diskVars, procs, now, faults>>

\* Mutant: a candidate counts as accepted without looking at its rejection.
AcceptedIfListed(u) == u \in toReport

\* Whether Replace accepted the candidate.
Accepted(u) == \E g \in pending : g.uid = u

Reported(u) == IF Accepted(u) THEN "Ready" ELSE "Failed"

\* latestNonTerminalTask.  A deleted task is a NotFound error, or no error if
\* its name was taken by a new UID; a terminal task, or one that already shows
\* this outcome, is left alone.
ReadLatest(u) ==
    /\ pc = "reporting"
    /\ u \in toReport
    /\ latest = {}
    /\ \/ /\ phase[u] \in Live /\ phase[u] # Reported(u)
          /\ latest' = {[uid |-> u, phase |-> phase[u],
                         expiresAt |-> expiresAt[u]]}
          /\ UNCHANGED <<toReport, errs>>
       \/ /\ phase[u] \in Terminal \/ phase[u] = Reported(u)
          /\ toReport' = toReport \ {u}
          /\ UNCHANGED <<latest, errs>>
       \/ /\ phase[u] = "Gone"
          /\ toReport' = toReport \ {u}
          /\ errs' \in {errs, TRUE}
          /\ UNCHANGED latest
    /\ UNCHANGED <<apiVars, view, queued, timer, life, pc, lapsed, pending,
                   toClean, result, diskVars, procs, now, faults>>

\* Mutant: a status patch without the optimistic lock.
SameVersionUnlocked(r) == TRUE

\* The API server's check of the resource version a patch was computed from.
\* Phase and deadline only move forward, so an equal pair is an equal version.
SameVersion(r) == phase[r.uid] = r.phase /\ expiresAt[r.uid] = r.expiresAt

\* patchTaskReady and patchTaskFailed carry the resource version that was
\* read: a task that changed since is a conflict, not an overwrite.
PatchStatus ==
    /\ pc = "reporting"
    /\ \E r \in latest :
        /\ IF SameVersion(r)
             THEN /\ phase' = [phase EXCEPT ![r.uid] = Reported(r.uid)]
                  /\ UNCHANGED errs
             ELSE /\ errs' = TRUE
                  /\ UNCHANGED phase
        /\ toReport' = toReport \ {r.uid}
    /\ latest' = {}
    /\ UNCHANGED <<expiresAt, view, queued, timer, life, pc, lapsed, pending,
                   toClean, result, diskVars, procs, now, faults>>

\* The read or the patch of one report fails; the other reports still run.
ReportFails(u) ==
    /\ pc = "reporting"
    /\ u \in toReport
    /\ \A r \in latest : r.uid = u
    /\ Charge("api")
    /\ errs' = TRUE
    /\ toReport' = toReport \ {u}
    /\ latest' = {}
    /\ UNCHANGED <<apiVars, view, queued, timer, life, pc, lapsed, pending,
                   toClean, result, diskVars, procs, now>>

\* Reconcile returns: an error requeues at once (rate limiting is only delay)
\* and drops the deadline; a deadline joins the delaying queue, which keeps
\* the earliest.  RequeueAfter counts from this return.
FinishReconcile ==
    /\ pc = "reporting"
    /\ toReport = {}
    /\ pc' = "idle"
    /\ queued' = (queued \/ errs \/ 0 \in result)
    /\ timer' = LET due == {now + d : d \in result}
                IN  IF \/ errs \/ 0 \in result \/ result = {}
                       \/ \E t \in timer, d \in due : t <= d
                      THEN timer ELSE due
    /\ pending' = {}
    /\ result' = {}
    /\ errs' = FALSE
    /\ UNCHANGED <<apiVars, view, life, lapsed, toClean, toReport, latest,
                   diskVars, procs, now, faults>>

-----------------------------------------------------------------------------
(* sshd and the forced-command processes.                                   *)

\* sshd reads the manifest, accepts the key and starts its forced command.
Authenticate(g) ==
    /\ life = "serving"
    /\ Cardinality(procs) < MaxSessions
    /\ SSHDAccepts(g.expiresAt, now)
    /\ \E s \in manifest :
        /\ g \in s
        /\ procs' = procs \cup {[stage |-> "exec", snap |-> s, grant |-> g]}
    /\ UNCHANGED <<apiVars, view, queued, timer, life, pc, lapsed, passVars,
                   diskVars, now, faults>>

Advance(p, stage) ==
    /\ procs' = (procs \ {p}) \cup {[p EXCEPT !.stage = stage]}
    /\ UNCHANGED <<apiVars, view, queued, timer, life, pc, lapsed, passVars,
                   diskVars, now, faults>>

\* Mutant: a snapshot that is merely present on disk counts as active.
RequirePresentSnapshot(p) == p.snap \in complete

\* requireActiveSnapshot, linearised at its read of the manifest.
RequireActiveSnapshot(p) == p.snap \in manifest

\* Admit, first requireActiveSnapshot.
CheckActive(p) ==
    /\ p.stage = "exec"
    /\ RequireActiveSnapshot(p)
    /\ Advance(p, "checked")

\* Admit: the generation's grant set and the grant's lease are validated and
\* the command is parsed against the policy.
LoadPolicy(p) ==
    /\ p.stage = "checked"
    /\ p.snap \in complete
    /\ LeaseValid(p.grant.expiresAt, now)
    /\ Advance(p, "loaded")

\* Admit, second requireActiveSnapshot: the admission instant.
Recheck(p) ==
    /\ p.stage = "loaded"
    /\ RequireActiveSnapshot(p)
    /\ Advance(p, "admitted")

\* A check fails, the command is not allowed, or an admitted command ends.
EndProcess(p) ==
    /\ procs' = procs \ {p}
    /\ UNCHANGED <<apiVars, view, queued, timer, life, pc, lapsed, passVars,
                   diskVars, now, faults>>

-----------------------------------------------------------------------------
Environment ==
    \E u \in Tasks :
        \/ \E e \in ExpiryTimes : CreateTask(u, e) \/ RenewTask(u, e)
        \/ \E outcome \in Terminal : FinishTask(u, outcome)
        \/ DeleteTask(u)

Reconcile ==
    \/ BeginReplace
    \/ ActivateUnchanged
    \/ MaterializeGeneration
    \/ RejectDamagedGeneration
    \/ CommitManifest
    \/ \E s \in toClean : RemoveGeneration(s)
    \/ FinishReplace
    \/ \E u \in toReport : ReadLatest(u)
    \/ PatchStatus
    \/ FinishReconcile

Startup == Reset \/ StartInitial \/ StartSSHD

Fault ==
    \/ Exit
    \/ PublicationFails
    \/ \E s \in toClean : RemovalFails(s)
    \/ \E u \in toReport : ReportFails(u)

Session ==
    \/ \E s \in manifest : \E g \in s : Authenticate(g)
    \/ \E p \in procs : CheckActive(p) \/ LoadPolicy(p) \/ Recheck(p)
                        \/ EndProcess(p)

Next ==
    \/ Environment
    \/ Tick
    \/ \E u \in Tasks : SyncView(u)
    \/ Wake
    \/ Startup
    \/ Reconcile
    \/ Fault
    \/ Session

Spec == Init /\ [][Next]_vars

\* Kubernetes restarts the container, the watch delivers, the queue hands out
\* its request, the single worker runs, and time passes.
Fairness ==
    /\ WF_vars(Startup)
    /\ WF_vars(Reconcile)
    /\ WF_vars(Wake)
    /\ WF_vars(Tick)
    /\ \A u \in Tasks : WF_vars(SyncView(u))

FairSpec == Spec /\ Fairness

-----------------------------------------------------------------------------
(* Properties.                                                              *)

PublishedGrants == UNION manifest

\* Whatever the daemon, a crash in the middle of Reset or of an activation, or
\* the cleanup of retired generations does, the generation the manifest names
\* is on disk with all its files: forced commands never resolve a reference
\* from authorized_keys to a missing or damaged policy.
ManifestComplete == manifest \subseteq complete

\* Once this process has recorded the lapse of a UID, every grant for it that is
\* published, about to be published, or held by a forced command is past its
\* own deadline, so neither sshd nor Admit accepts it again, even if the lease
\* is moved forward later (leaseState.lapsed, removeLapsedGrants).
LapsedUnusable ==
    \A g \in PublishedGrants \cup pending \cup {p.grant : p \in procs} :
        g.uid \in lapsed => g.expiresAt <= now

\* sshd runs, or is about to be started, only while this process has an active
\* snapshot: an empty manifest left by Reset is never served.
ServingHasAuthority == life \in {"activated", "serving"} => manifest # {}

\* A key in the manifest selects one grant: no two published grants share a
\* canonical public key, whichever tasks came, went or lapsed meanwhile.
KeySelectsOneGrant ==
    \A g, h \in PublishedGrants : KeyOf[g.uid] = KeyOf[h.uid] => g = h

\* A session opens and a policy is loaded strictly before the deadline of its
\* grant: rounding the OpenSSH expiry never extends the lease.
AuthorityWithinLease ==
    [][\A p \in procs' \ procs :
         p.stage \in {"exec", "loaded"} => now < p.grant.expiresAt]_vars

\* A command is admitted only under a grant that is active at that instant,
\* however long the process took since it was authenticated and whatever was
\* revoked, retired or cleaned up in between.
RevocationIsImmediate ==
    [][\A p \in procs' \ procs :
         p.stage = "admitted" => p.grant \in PublishedGrants]_vars

\* A task becomes Ready only while a grant for its UID is active, so a sender
\* that is started on Ready finds its key in the manifest.
ReadyIsActive ==
    [][\A u \in Tasks :
         phase[u] # "Ready" /\ phase'[u] = "Ready" =>
             \E g \in PublishedGrants : g.uid = u]_vars

\* A terminal task is never reopened by a late report of the receiver that was
\* computed while the task was still live; it can only be deleted.
TerminalIsFinal ==
    [][\A u \in Tasks :
         phase[u] \in Terminal => phase'[u] \in Terminal \cup {"Gone"}]_vars

\* The grant of a task that is finished or deleted is eventually withdrawn,
\* through restarts, failed publications and failed reports.
RevocationWithdrawn ==
    \A u \in Tasks :
        phase[u] \in Terminal \cup {"Gone"} ~>
            \A g \in PublishedGrants : g.uid # u

\* A task whose lease runs out is eventually reported Failed, unless it is
\* renewed, finished or deleted first: the deadline requeue is never lost.
LapseReported ==
    \A u \in Tasks :
        (phase[u] \in Live /\ expiresAt[u] <= now) ~>
            (phase[u] \notin Live \/ expiresAt[u] > now)

\* A Replace that meets no I/O failure of its own leaves only grants of the
\* view it compiled active: a failed cleanup of a retired generation does not
\* keep a revoked grant published.
CleanupPreservesNoAuthority ==
    [][pc = "activating" /\ pc' = "idle" /\ faults' = faults =>
         PublishedGrants' \subseteq pending]_vars
=============================================================================
