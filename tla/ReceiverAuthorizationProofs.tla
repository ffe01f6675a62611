--------------------- MODULE ReceiverAuthorizationProofs ---------------------
(***************************************************************************)
(* What the receiver daemon guarantees for every set of tasks, every lease *)
(* horizon and clock resolution, and any number of faults and sessions.    *)
(***************************************************************************)
EXTENDS ReceiverAuthorization, TLAPS

HeldGrants == PublishedGrants \cup pending \cup {p.grant : p \in procs}

\* Where the publication protocol stands: what a pass has already put on disk
\* when it is about to rename the manifest, clean up or report, and what the
\* startup sequence has established before sshd may run.
PublicationInv ==
    /\ manifest \subseteq complete
    /\ pc = "committing" => pending \in complete
    /\ pc \in {"cleaning", "reporting"} => manifest = {pending}
    /\ pc = "cleaning" => pending \notin toClean
    /\ life \in {"stopped", "resetting"} => pc = "idle"
    /\ life = "resetting" => manifest = {}
    /\ life \in {"activated", "serving"} => manifest # {}

\* No copy of a lease is ahead of what it was copied from: the cache trails the
\* API server, and a grant trails both.
LeaseInv ==
    /\ \A u \in Tasks : phase[u] = "absent" => expiresAt[u] = 0
    /\ \A u \in Tasks : view[u] <= expiresAt[u]
    /\ \A g \in HeldGrants : g.expiresAt <= expiresAt[g.uid]
    /\ \A g \in HeldGrants : view[g.uid] # 0 => g.expiresAt <= view[g.uid]
    /\ \A g \in HeldGrants : g.uid \in lapsed => g.expiresAt <= now

\* The snapshot of the pass and every published snapshot are free of shared
\* keys, and at most one snapshot is published.
KeyInv ==
    /\ \A s \in manifest \cup {pending} : \A g, h \in s :
          KeyOf[g.uid] = KeyOf[h.uid] => g = h
    /\ \A s, t \in manifest : s = t

\* A forced command's grant belongs to the snapshot its command line names.
ProcInv == \A p \in procs : p.grant \in p.snap

-----------------------------------------------------------------------------
(* Typing.                                                                  *)

LEMMA TruthType ==
  ASSUME phase \in [Tasks -> Phases], expiresAt \in [Tasks -> Nat]
  PROVE  Truth \in [Tasks -> Nat]
BY DEF Truth

LEMMA CompiledType ==
  ASSUME NEW v \in [Tasks -> Nat], NEW t \in Nat, NEW uids
  PROVE  RemoveLapsedGrants(CompileCandidates(v, t), uids) \in Snapshots
BY DEF RemoveLapsedGrants, CompileCandidates, Listed, Snapshots, Grants

LEMMA DeadlineType ==
  ASSUME NEW grants \in Snapshots, NEW t \in Nat
  PROVE  DeadlineResult(grants, t) \subseteq Nat
BY DEF DeadlineResult, Snapshots, Grants

LEMMA ChargeType ==
  ASSUME NEW kind \in FaultKinds, faults \in [FaultKinds -> Nat], Charge(kind)
  PROVE  faults' \in [FaultKinds -> Nat]
BY DEF Charge

LEMMA EndType ==
  ASSUME ProcessEnds
  PROVE  /\ life' = "stopped"  /\ pc' = "idle"
         /\ view' \in [Tasks -> Nat]
         /\ queued' \in BOOLEAN  /\ errs' \in BOOLEAN
         /\ timer' \subseteq Nat  /\ result' \subseteq Nat
         /\ lapsed' \subseteq Tasks  /\ toReport' \subseteq Tasks
         /\ pending' \in Snapshots  /\ toClean' \subseteq Snapshots
         /\ latest' \subseteq Reads
         /\ procs' \subseteq Procs
BY DEF ProcessEnds, Snapshots

\* Every value the daemon keeps stays in its type; in particular the requeue
\* delay that deadlineResult computes is never negative.
THEOREM TypeCorrect == Spec => []TypeOK
<1>1. Init => TypeOK
  <2> SUFFICES ASSUME Init PROVE TypeOK
    OBVIOUS
  <2>1. phase \in [Tasks -> Phases]
    BY DEF Init, Phases
  <2>2. /\ expiresAt \in [Tasks -> Nat]  /\ view \in [Tasks -> Nat]
        /\ faults \in [FaultKinds -> Nat]
    BY DEF Init
  <2>3. queued \in BOOLEAN /\ errs \in BOOLEAN
    BY DEF Init
  <2> QED
    BY <2>1, <2>2, <2>3 DEF Init, TypeOK, Snapshots
<1>2. TypeOK /\ [Next]_vars => TypeOK'
  <2> SUFFICES ASSUME TypeOK, [Next]_vars PROVE TypeOK'
    OBVIOUS
  <2> USE ConstantsAssumption DEF TypeOK, apiVars, passVars, diskVars
  <2>1. ASSUME NEW u \in Tasks, NEW e \in ExpiryTimes, CreateTask(u, e)
        PROVE  TypeOK'
    BY <2>1 DEF CreateTask, Phases, Live
  <2>2. ASSUME NEW u \in Tasks, NEW e \in ExpiryTimes, RenewTask(u, e)
        PROVE  TypeOK'
    BY <2>2 DEF RenewTask
  <2>3. ASSUME NEW u \in Tasks, NEW o \in Terminal, FinishTask(u, o)
        PROVE  TypeOK'
    BY <2>3 DEF FinishTask, Phases
  <2>4. ASSUME NEW u \in Tasks, DeleteTask(u) PROVE TypeOK'
    BY <2>4 DEF DeleteTask, Phases
  <2>5. CASE Tick
    BY <2>5 DEF Tick
  <2>6. ASSUME NEW u \in Tasks, SyncView(u) PROVE TypeOK'
    BY <2>6, TruthType DEF SyncView
  <2>7. CASE Wake
    BY <2>7 DEF Wake
  <2>8. CASE Reset
    BY <2>8 DEF Reset
  <2>9. CASE StartInitial
    BY <2>9, TruthType DEF StartInitial
  <2>10. CASE StartSSHD
    BY <2>10 DEF StartSSHD
  <2>11. CASE BeginReplace
    BY <2>11, CompiledType DEF BeginReplace, ObservedLapses, Listed
  <2>12. CASE ActivateUnchanged
    BY <2>12 DEF ActivateUnchanged, BeginCleanup
  <2>13. CASE MaterializeGeneration
    BY <2>13 DEF MaterializeGeneration
  <2>14. CASE RejectDamagedGeneration
    BY <2>14, EndType
    DEF RejectDamagedGeneration, HandlePublicationFailure, Snapshots
  <2>15. CASE CommitManifest
    BY <2>15 DEF CommitManifest, BeginCleanup
  <2>16. ASSUME NEW s \in toClean, RemoveGeneration(s) PROVE TypeOK'
    BY <2>16 DEF RemoveGeneration
  <2>17. CASE FinishReplace
    BY <2>17, DeadlineType DEF FinishReplace
  <2>18. ASSUME NEW u \in toReport, ReadLatest(u) PROVE TypeOK'
    <3>1. errs' \in BOOLEAN
      BY <2>18, Zenon DEF ReadLatest
    <3>2. \/ latest' = latest
          \/ /\ phase[u] \in Live
             /\ latest' = {[uid |-> u, phase |-> phase[u],
                            expiresAt |-> expiresAt[u]]}
      BY <2>18, Zenon DEF ReadLatest
    <3>3. latest' \subseteq Reads
      BY <3>2 DEF Reads
    <3> QED
      BY <2>18, <3>1, <3>3 DEF ReadLatest
  <2>19. CASE PatchStatus
    BY <2>19 DEF PatchStatus, Reported, Reads, Phases, Live, Terminal
  <2>20. CASE FinishReconcile
    <3>1. queued' \in BOOLEAN
      BY <2>20, Zenon DEF FinishReconcile
    <3>2. timer' \in {timer, {now + d : d \in result}}
      BY <2>20, Zenon DEF FinishReconcile
    <3>3. timer' \subseteq Nat
      BY <3>2
    <3> QED
      BY <2>20, <3>1, <3>3 DEF FinishReconcile, Snapshots
  <2>21. CASE Exit
    BY <2>21, EndType, ChargeType DEF Exit, FaultKinds
  <2>22. CASE PublicationFails
    BY <2>22, EndType, ChargeType
    DEF PublicationFails, HandlePublicationFailure, Snapshots, FaultKinds
  <2>23. ASSUME NEW s \in toClean, RemovalFails(s) PROVE TypeOK'
    BY <2>23, ChargeType DEF RemovalFails, FaultKinds
  <2>24. ASSUME NEW u \in toReport, ReportFails(u) PROVE TypeOK'
    BY <2>24, ChargeType DEF ReportFails, FaultKinds
  <2>25. ASSUME NEW s \in manifest, NEW g \in s, Authenticate(g) PROVE TypeOK'
    BY <2>25 DEF Authenticate, Procs, Stages, Snapshots
  <2>26. ASSUME NEW p \in procs, CheckActive(p) PROVE TypeOK'
    BY <2>26 DEF CheckActive, Advance, Procs, Stages
  <2>27. ASSUME NEW p \in procs, LoadPolicy(p) PROVE TypeOK'
    BY <2>27 DEF LoadPolicy, Advance, Procs, Stages
  <2>28. ASSUME NEW p \in procs, Recheck(p) PROVE TypeOK'
    BY <2>28 DEF Recheck, Advance, Procs, Stages
  <2>29. ASSUME NEW p \in procs, EndProcess(p) PROVE TypeOK'
    BY <2>29 DEF EndProcess
  <2>30. CASE UNCHANGED vars
    BY <2>30 DEF vars
  <2> QED
    BY <2>1, <2>2, <2>3, <2>4, <2>5, <2>6, <2>7, <2>8, <2>9, <2>10, <2>11,
       <2>12, <2>13, <2>14, <2>15, <2>16, <2>17, <2>18, <2>19, <2>20, <2>21,
       <2>22, <2>23, <2>24, <2>25, <2>26, <2>27, <2>28, <2>29, <2>30
    DEF Next, Environment, Startup, Reconcile, Fault, Session
<1> QED
  BY <1>1, <1>2, PTL DEF Spec

-----------------------------------------------------------------------------
(* Publication: what is on disk and active at each stage of a pass.         *)

\* The steps that leave the publication protocol alone.
LEMMA PublicationUntouched ==
  ASSUME \/ Environment \/ Tick \/ Wake \/ Session
         \/ \E u \in Tasks : SyncView(u)
         \/ \E u \in toReport : ReadLatest(u) \/ ReportFails(u)
         \/ PatchStatus
  PROVE  UNCHANGED <<life, pc, pending, toClean, diskVars>>
BY DEF Environment, CreateTask, RenewTask, FinishTask, DeleteTask, Tick, Wake,
       SyncView, Session, Authenticate, CheckActive, LoadPolicy, Recheck,
       EndProcess, Advance, ReadLatest, ReportFails, PatchStatus, passVars

\* The publication protocol is inductive: it survives a crash at any stage and
\* the failure of any publication, cleanup or report.
THEOREM PublicationProtocol == Spec => []PublicationInv
<1>1. Init => PublicationInv
  BY DEF Init, PublicationInv
<1>2. PublicationInv /\ [Next]_vars => PublicationInv'
  <2> SUFFICES ASSUME PublicationInv, [Next]_vars PROVE PublicationInv'
    OBVIOUS
  <2> USE DEF PublicationInv, passVars, diskVars
  <2>1. CASE UNCHANGED <<life, pc, pending, toClean, diskVars>>
    BY <2>1
  <2>2. CASE Reset
    BY <2>2 DEF Reset
  <2>3. CASE StartInitial
    BY <2>3 DEF StartInitial
  <2>4. CASE StartSSHD
    BY <2>4 DEF StartSSHD
  <2>5. CASE Exit
    BY <2>5 DEF Exit, ProcessEnds
  <2>6. CASE BeginReplace
    BY <2>6 DEF BeginReplace
  <2>7. CASE ActivateUnchanged
    BY <2>7 DEF ActivateUnchanged, BeginCleanup
  <2>8. CASE MaterializeGeneration
    BY <2>8 DEF MaterializeGeneration
  <2>9. CASE RejectDamagedGeneration
    BY <2>9 DEF RejectDamagedGeneration, HandlePublicationFailure,
                ProcessEnds, ActiveUsable
  <2>10. CASE PublicationFails
    BY <2>10 DEF PublicationFails, HandlePublicationFailure, ProcessEnds,
                 ActiveUsable
  <2>11. CASE CommitManifest
    BY <2>11 DEF CommitManifest, BeginCleanup
  <2>12. ASSUME NEW s \in toClean, RemoveGeneration(s)
         PROVE  PublicationInv'
    BY <2>12 DEF RemoveGeneration
  <2>13. ASSUME NEW s \in toClean, RemovalFails(s)
         PROVE  PublicationInv'
    BY <2>13 DEF RemovalFails
  <2>14. CASE FinishReplace
    BY <2>14 DEF FinishReplace
  <2>15. CASE FinishReconcile
    BY <2>15 DEF FinishReconcile
  <2>16. CASE UNCHANGED vars
    BY <2>16, <2>1 DEF vars
  <2> QED
    BY <2>1, <2>2, <2>3, <2>4, <2>5, <2>6, <2>7, <2>8, <2>9, <2>10, <2>11,
       <2>12, <2>13, <2>14, <2>15, <2>16, PublicationUntouched
    DEF Next, Startup, Reconcile, Fault
<1> QED
  BY <1>1, <1>2, PTL DEF Spec

\* ManifestComplete: the active generation is never missing or damaged,
\* whatever cleanup, crash or failed publication came before.
THEOREM ActiveGenerationComplete == Spec => []ManifestComplete
<1>1. PublicationInv => ManifestComplete
  BY DEF PublicationInv, ManifestComplete
<1> QED
  BY <1>1, PublicationProtocol, PTL

\* ServingHasAuthority: sshd never runs on the empty manifest Reset leaves.
THEOREM SSHDHasSnapshot == Spec => []ServingHasAuthority
<1>1. PublicationInv => ServingHasAuthority
  BY DEF PublicationInv, ServingHasAuthority
<1> QED
  BY <1>1, PublicationProtocol, PTL

\* ReadyIsActive: whatever happened between compiling and reporting, the grant
\* of a task that patchTaskReady marks Ready is active at that step.
THEOREM ReadyAfterActivation == Spec => ReadyIsActive
<1>1. ASSUME TypeOK, PublicationInv, [Next]_vars
      PROVE  [\A u \in Tasks :
                phase[u] # "Ready" /\ phase'[u] = "Ready" =>
                    \E g \in PublishedGrants : g.uid = u]_vars
  <2> SUFFICES ASSUME NEW u \in Tasks, phase[u] # "Ready", phase'[u] = "Ready"
               PROVE  \E g \in PublishedGrants : g.uid = u
    OBVIOUS
  <2>1. PatchStatus
    BY <1>1 DEF TypeOK, Next, vars, apiVars, Environment, CreateTask,
       RenewTask, FinishTask, DeleteTask, Terminal, Tick, Wake, SyncView,
       Startup, Reset, StartInitial, StartSSHD, Reconcile, BeginReplace,
       ActivateUnchanged, MaterializeGeneration, RejectDamagedGeneration,
       CommitManifest, RemoveGeneration, FinishReplace, ReadLatest,
       FinishReconcile, Fault, Exit, PublicationFails, RemovalFails,
       ReportFails, Session, Authenticate, CheckActive, LoadPolicy, Recheck,
       EndProcess, Advance
  <2>2. Accepted(u)
    BY <1>1, <2>1 DEF PatchStatus, Reported, TypeOK
  <2>3. manifest = {pending}
    BY <1>1, <2>1 DEF PatchStatus, PublicationInv
  <2> QED
    BY <2>2, <2>3 DEF Accepted, PublishedGrants
<1> QED
  BY <1>1, TypeCorrect, PublicationProtocol, PTL DEF Spec, ReadyIsActive

-----------------------------------------------------------------------------
(* Leases: a UID seen to lapse keeps no usable grant.                       *)

\* The steps that leave leases, copies of leases and the clock alone.
LEMMA LeaseUntouched ==
  ASSUME \/ Wake \/ StartSSHD \/ ActivateUnchanged \/ MaterializeGeneration
         \/ FinishReplace
         \/ \E s \in toClean : RemoveGeneration(s) \/ RemovalFails(s)
         \/ \E u \in toReport : ReadLatest(u) \/ ReportFails(u)
  PROVE  UNCHANGED <<apiVars, view, lapsed, pending, manifest, procs, now>>
BY DEF Wake, StartSSHD, ActivateUnchanged, MaterializeGeneration,
       FinishReplace, RemoveGeneration, RemovalFails, ReadLatest, ReportFails,
       passVars, diskVars

\* A step of a session changes no lease and holds only grants held before.
LEMMA SessionHolds ==
  ASSUME Session
  PROVE  /\ UNCHANGED <<apiVars, view, lapsed, pending, manifest, now>>
         /\ HeldGrants' \subseteq HeldGrants
<1>1. ASSUME NEW s \in manifest, NEW g \in s, Authenticate(g)
      PROVE  /\ UNCHANGED <<apiVars, view, lapsed, pending, manifest, now>>
             /\ HeldGrants' \subseteq HeldGrants
  BY <1>1 DEF Authenticate, HeldGrants, PublishedGrants, passVars, diskVars
<1>2. ASSUME NEW p \in procs, NEW stage, Advance(p, stage)
      PROVE  /\ UNCHANGED <<apiVars, view, lapsed, pending, manifest, now>>
             /\ HeldGrants' \subseteq HeldGrants
  <2>1. [p EXCEPT !.stage = stage].grant = p.grant
    OBVIOUS
  <2> QED
    BY <1>2, <2>1
    DEF Advance, HeldGrants, PublishedGrants, passVars, diskVars
<1>3. ASSUME NEW p \in procs, EndProcess(p)
      PROVE  /\ UNCHANGED <<apiVars, view, lapsed, pending, manifest, now>>
             /\ HeldGrants' \subseteq HeldGrants
  BY <1>3 DEF EndProcess, HeldGrants, PublishedGrants, passVars, diskVars
<1> QED
  BY <1>1, <1>2, <1>3 DEF Session, CheckActive, LoadPolicy, Recheck

\* A process that ends holds only what the files it leaves behind hold.
LEMMA EndHolds ==
  ASSUME TypeOK, LeaseInv, ProcessEnds, UNCHANGED <<apiVars, diskVars, now>>
  PROVE  LeaseInv'
<1>1. HeldGrants' \subseteq HeldGrants
  BY DEF ProcessEnds, HeldGrants, PublishedGrants, diskVars
<1>2. HeldGrants \subseteq Grants
  BY DEF TypeOK, HeldGrants, PublishedGrants, Snapshots, Procs
<1> QED
  BY <1>1, <1>2 DEF TypeOK, LeaseInv, ProcessEnds, apiVars, Grants

\* Copies of a lease only trail what they were copied from, and every grant of
\* a UID in leaseState.lapsed is past its own deadline.
THEOREM LeaseCopiesTrail == Spec => []LeaseInv
<1>1. Init => LeaseInv
  BY DEF Init, LeaseInv, HeldGrants, PublishedGrants
<1>2. TypeOK /\ LeaseInv /\ [Next]_vars => LeaseInv'
  <2> SUFFICES ASSUME TypeOK, LeaseInv, [Next]_vars PROVE LeaseInv'
    OBVIOUS
  <2>t. HeldGrants \subseteq Grants
    BY DEF TypeOK, HeldGrants, PublishedGrants, Snapshots, Procs
  <2> USE ConstantsAssumption, <2>t DEF LeaseInv, TypeOK, Grants
  <2>1. CASE UNCHANGED <<apiVars, view, lapsed, pending, manifest, procs, now>>
    BY <2>1 DEF apiVars, HeldGrants, PublishedGrants
  <2>2. CASE Session
    BY <2>2, SessionHolds DEF apiVars
  <2>3. ASSUME NEW u \in Tasks, NEW e \in ExpiryTimes,
               CreateTask(u, e) \/ RenewTask(u, e)
        PROVE  LeaseInv'
    <3>1. HeldGrants' = HeldGrants
      BY <2>3 DEF CreateTask, RenewTask, HeldGrants, PublishedGrants,
                  passVars, diskVars
    <3>2. /\ expiresAt' = [expiresAt EXCEPT ![u] = e]
          /\ e >= expiresAt[u] /\ e \in Nat
          /\ UNCHANGED <<view, lapsed, now>>
          /\ phase'[u] # "absent"
          /\ \A w \in Tasks \ {u} : phase'[w] = phase[w]
      BY <2>3 DEF CreateTask, RenewTask, Live
    <3> QED
      BY <3>1, <3>2
  <2>4. ASSUME NEW u \in Tasks,
               DeleteTask(u) \/ \E o \in Terminal : FinishTask(u, o)
        PROVE  LeaseInv'
    BY <2>4 DEF DeleteTask, FinishTask, Terminal, Live, HeldGrants,
                PublishedGrants, passVars, diskVars
  <2>5. CASE Tick
    BY <2>5 DEF Tick, apiVars, HeldGrants, PublishedGrants, passVars, diskVars
  <2>6. ASSUME NEW u \in Tasks, SyncView(u) PROVE LeaseInv'
    <3>1. HeldGrants' = HeldGrants
      BY <2>6 DEF SyncView, HeldGrants, PublishedGrants, passVars, diskVars
    <3> QED
      BY <2>6, <3>1 DEF SyncView, Truth, apiVars
  <2>7. CASE Reset
    BY <2>7 DEF Reset, apiVars, HeldGrants, PublishedGrants, passVars
  <2>8. CASE StartInitial
    <3>1. HeldGrants' = HeldGrants
      BY <2>8 DEF StartInitial, HeldGrants, PublishedGrants, passVars
    <3> QED
      BY <2>8, <3>1 DEF StartInitial, Truth, apiVars
  <2>9. CASE BeginReplace
    <3>1. UNCHANGED <<apiVars, view, manifest, procs, now>>
      BY <2>9 DEF BeginReplace, diskVars
    <3>2. \A g \in pending' : /\ g \in Grants
                              /\ g.expiresAt = view[g.uid]
                              /\ g.expiresAt > now
                              /\ g.uid \notin lapsed
      BY <2>9 DEF BeginReplace, RemoveLapsedGrants, CompileCandidates,
                  CompileCandidate, LeaseValid, Listed
    <3>3. \A w \in lapsed' : w \in lapsed \/ (view[w] # 0 /\ view[w] <= now)
      BY <2>9 DEF BeginReplace, ObservedLapses, Listed
    <3>4. \A g \in HeldGrants' : g \in HeldGrants \/ g \in pending'
      BY <3>1 DEF HeldGrants, PublishedGrants
    <3> QED
      BY <3>1, <3>2, <3>3, <3>4 DEF apiVars
  <2>10. CASE CommitManifest
    <3>1. HeldGrants' \subseteq HeldGrants
      BY <2>10 DEF CommitManifest, HeldGrants, PublishedGrants
    <3> QED
      BY <2>10, <3>1 DEF CommitManifest, apiVars
  <2>11. CASE RejectDamagedGeneration \/ PublicationFails
    <3>1. CASE ProcessEnds
      BY <2>11, <3>1, EndHolds DEF RejectDamagedGeneration, PublicationFails
    <3>2. CASE ~ProcessEnds
      <4>1. HeldGrants' \subseteq HeldGrants
        BY <2>11, <3>2 DEF RejectDamagedGeneration, PublicationFails,
           HandlePublicationFailure, HeldGrants, PublishedGrants, diskVars
      <4> QED
        BY <2>11, <3>2, <4>1 DEF RejectDamagedGeneration, PublicationFails,
           HandlePublicationFailure, apiVars
    <3> QED
      BY <3>1, <3>2
  <2>12. CASE PatchStatus
    <3>1. HeldGrants' = HeldGrants
      BY <2>12 DEF PatchStatus, HeldGrants, PublishedGrants, diskVars
    <3>2. \A w \in Tasks : phase'[w] = "absent" => phase[w] = "absent"
      BY <2>12 DEF PatchStatus, Reported, Reads
    <3> QED
      BY <2>12, <3>1, <3>2 DEF PatchStatus
  <2>13. CASE FinishReconcile
    <3>1. HeldGrants' \subseteq HeldGrants
      BY <2>13 DEF FinishReconcile, HeldGrants, PublishedGrants, diskVars
    <3> QED
      BY <2>13, <3>1 DEF FinishReconcile, apiVars
  <2>14. CASE Exit
    BY <2>14, EndHolds DEF Exit
  <2>15. CASE UNCHANGED vars
    BY <2>15, <2>1 DEF vars, passVars, diskVars
  <2> QED
    BY <2>1, <2>2, <2>3, <2>4, <2>5, <2>6, <2>7, <2>8, <2>9, <2>10, <2>11,
       <2>12, <2>13, <2>14, <2>15, LeaseUntouched
    DEF Next, Environment, Startup, Reconcile, Fault
<1> QED
  BY <1>1, <1>2, TypeCorrect, PTL DEF Spec

\* LapsedUnusable: a UID the process has seen lapse has no usable grant in the
\* manifest, in the pass in progress or in a forced command, even if its lease
\* is moved forward afterwards.
THEOREM NoGrantAfterLapse == Spec => []LapsedUnusable
<1>1. LeaseInv => LapsedUnusable
  BY DEF LeaseInv, LapsedUnusable, HeldGrants
<1> QED
  BY <1>1, LeaseCopiesTrail, PTL

-----------------------------------------------------------------------------
(* Keys: one canonical public key selects one grant.                        *)

\* The steps that compile nothing and publish nothing.
LEMMA KeysUntouched ==
  ASSUME \/ Environment \/ Tick \/ Wake \/ Session \/ StartInitial \/ StartSSHD
         \/ \E u \in Tasks : SyncView(u)
         \/ ActivateUnchanged \/ MaterializeGeneration \/ FinishReplace
         \/ \E s \in toClean : RemoveGeneration(s) \/ RemovalFails(s)
         \/ \E u \in toReport : ReadLatest(u) \/ ReportFails(u)
         \/ PatchStatus
  PROVE  UNCHANGED <<pending, manifest>>
BY DEF Environment, CreateTask, RenewTask, FinishTask, DeleteTask, Tick, Wake,
       SyncView, Session, Authenticate, CheckActive, LoadPolicy, Recheck,
       EndProcess, Advance, StartInitial, StartSSHD, ActivateUnchanged,
       MaterializeGeneration, FinishReplace, RemoveGeneration, RemovalFails,
       ReadLatest, ReportFails, PatchStatus, passVars, diskVars

\* Every snapshot that is compiled or published is free of shared keys.
THEOREM KeysUnambiguous == Spec => []KeyInv
<1>1. Init => KeyInv
  BY DEF Init, KeyInv
<1>2. KeyInv /\ [Next]_vars => KeyInv'
  <2> SUFFICES ASSUME KeyInv, [Next]_vars PROVE KeyInv'
    OBVIOUS
  <2>1. CASE UNCHANGED <<pending, manifest>>
    BY <2>1 DEF KeyInv
  <2>2. CASE BeginReplace
    <3>1. \A g \in pending' :
             /\ g.uid \in Listed(view)
             /\ g = [uid |-> g.uid, expiresAt |-> view[g.uid]]
             /\ ~AmbiguousKey(view, g.uid)
      BY <2>2 DEF BeginReplace, RemoveLapsedGrants, CompileCandidates
    <3>2. \A g, h \in pending' : KeyOf[g.uid] = KeyOf[h.uid] => g = h
      BY <3>1 DEF AmbiguousKey
    <3> QED
      BY <2>2, <3>2 DEF BeginReplace, diskVars, KeyInv
  <2>3. CASE CommitManifest
    BY <2>3 DEF CommitManifest, KeyInv
  <2>4. CASE Reset
    BY <2>4 DEF Reset, passVars, KeyInv
  <2>5. CASE Exit \/ RejectDamagedGeneration \/ PublicationFails
    <3>1. manifest' = manifest /\ (pending' = pending \/ pending' = {})
      BY <2>5 DEF Exit, RejectDamagedGeneration, PublicationFails,
         HandlePublicationFailure, ProcessEnds, diskVars
    <3> QED
      BY <3>1 DEF KeyInv
  <2>6. CASE FinishReconcile
    BY <2>6 DEF FinishReconcile, diskVars, KeyInv
  <2>7. CASE UNCHANGED vars
    BY <2>7, <2>1 DEF vars, passVars, diskVars
  <2> QED
    BY <2>1, <2>2, <2>3, <2>4, <2>5, <2>6, <2>7, KeysUntouched
    DEF Next, Startup, Reconcile, Fault
<1> QED
  BY <1>1, <1>2, PTL DEF Spec

\* KeySelectsOneGrant: no two published grants share a canonical public key.
THEOREM OneGrantPerKey == Spec => []KeySelectsOneGrant
<1>1. KeyInv => KeySelectsOneGrant
  BY DEF KeyInv, KeySelectsOneGrant, PublishedGrants
<1> QED
  BY <1>1, KeysUnambiguous, PTL

-----------------------------------------------------------------------------
(* Forced commands: when a session opens and when a command is admitted.    *)

\* The processes after any step: the old ones, one that was just
\* authenticated, or one that passed its next check.
LEMMA ProcessSteps ==
  ASSUME TypeOK, [Next]_vars, NEW p \in procs', p \notin procs
  PROVE  \/ /\ p.stage = "exec" /\ p.grant \in p.snap
            /\ p.grant \in Grants /\ SSHDAccepts(p.grant.expiresAt, now)
         \/ \E q \in procs :
               /\ p.snap = q.snap /\ p.grant = q.grant
               /\ \/ p.stage = "checked"
                  \/ p.stage = "loaded" /\ LeaseValid(q.grant.expiresAt, now)
                  \/ p.stage = "admitted" /\ RequireActiveSnapshot(q)
<1>1. Session
  BY DEF Next, vars, apiVars, Environment, CreateTask,
     RenewTask, FinishTask, DeleteTask, Tick, Wake, SyncView,
     Startup, Reset, StartInitial, StartSSHD, Reconcile, BeginReplace,
     ActivateUnchanged, MaterializeGeneration, RejectDamagedGeneration,
     HandlePublicationFailure, ProcessEnds, CommitManifest, RemoveGeneration,
     FinishReplace, ReadLatest, PatchStatus, FinishReconcile, Fault, Exit,
     PublicationFails, RemovalFails, ReportFails
<1>2. CASE \E s \in manifest : \E g \in s : Authenticate(g)
  BY <1>2 DEF Authenticate, TypeOK, Snapshots
<1>3. ASSUME NEW q \in procs, CheckActive(q) \/ LoadPolicy(q) \/ Recheck(q)
      PROVE  /\ p.snap = q.snap /\ p.grant = q.grant
             /\ \/ p.stage = "checked"
                \/ p.stage = "loaded" /\ LeaseValid(q.grant.expiresAt, now)
                \/ p.stage = "admitted" /\ RequireActiveSnapshot(q)
  <2>1. q \in Procs
    BY DEF TypeOK
  <2>2. PICK stage \in Stages :
           /\ p = [q EXCEPT !.stage = stage]
           /\ \/ stage = "checked"
              \/ stage = "loaded" /\ LeaseValid(q.grant.expiresAt, now)
              \/ stage = "admitted" /\ RequireActiveSnapshot(q)
    BY <1>3 DEF CheckActive, LoadPolicy, Recheck, Advance, Stages
  <2>3. p.snap = q.snap /\ p.grant = q.grant /\ p.stage = stage
    BY <2>1, <2>2 DEF Procs
  <2> QED
    BY <2>2, <2>3
<1>4. ASSUME NEW q \in procs, EndProcess(q) PROVE FALSE
  BY <1>4 DEF EndProcess
<1> QED
  BY <1>1, <1>2, <1>3, <1>4 DEF Session

\* A process never holds a grant that its snapshot does not have.
THEOREM GrantOfSnapshot == Spec => []ProcInv
<1>1. Init => ProcInv
  BY DEF Init, ProcInv
<1>2. TypeOK /\ ProcInv /\ [Next]_vars => ProcInv'
  BY ProcessSteps DEF ProcInv
<1> QED
  BY <1>1, <1>2, TypeCorrect, PTL DEF Spec

\* RevocationIsImmediate: however long a forced command took, the second
\* requireActiveSnapshot admits it only under a grant that is active then.
THEOREM AdmissionIsActive == Spec => RevocationIsImmediate
<1>1. ASSUME TypeOK, ProcInv, [Next]_vars
      PROVE  \A p \in procs' \ procs :
                p.stage = "admitted" => p.grant \in PublishedGrants
  BY <1>1, ProcessSteps DEF ProcInv, RequireActiveSnapshot, PublishedGrants
<1> QED
  BY <1>1, TypeCorrect, GrantOfSnapshot, PTL DEF Spec, RevocationIsImmediate

\* openSSHExpiryTime: truncating to a second and stepping one back never
\* accepts a key at or after its deadline, at any clock resolution.
LEMMA ExpiryWithinLease ==
  ASSUME NEW deadline \in Nat, NEW t \in Nat, SSHDAccepts(deadline, t)
  PROVE  t < deadline
<1>1. TicksPerSecond \in Nat /\ TicksPerSecond > 0
  BY ConstantsAssumption
<1>2. t \div TicksPerSecond <= deadline \div TicksPerSecond - 1
  BY DEF SSHDAccepts, OpenSSHExpirySecond
<1> QED
  BY <1>1, <1>2

\* AuthorityWithinLease: sessions open and policies load only before the
\* deadline of their grant.
THEOREM SessionsWithinLease == Spec => AuthorityWithinLease
<1>1. ASSUME TypeOK, [Next]_vars
      PROVE  \A p \in procs' \ procs :
                p.stage \in {"exec", "loaded"} => now < p.grant.expiresAt
  <2> SUFFICES ASSUME NEW p \in procs', p \notin procs,
                      p.stage \in {"exec", "loaded"}
               PROVE  now < p.grant.expiresAt
    OBVIOUS
  <2>1. CASE p.stage = "exec"
    BY <1>1, <2>1, ProcessSteps, ExpiryWithinLease DEF TypeOK, Grants
  <2>2. CASE p.stage = "loaded"
    BY <1>1, <2>2, ProcessSteps DEF LeaseValid, TypeOK, Grants, Procs
  <2> QED
    BY <2>1, <2>2
<1> QED
  BY <1>1, TypeCorrect, PTL DEF Spec, AuthorityWithinLease

-----------------------------------------------------------------------------
(* Status reports.                                                          *)

\* TerminalIsFinal: the optimistic lock of patchTaskReady and patchTaskFailed
\* keeps a late report from reopening a terminal task.
THEOREM ReportsReopenNothing == Spec => TerminalIsFinal
<1>1. ASSUME TypeOK, [Next]_vars
      PROVE  \A u \in Tasks :
                phase[u] \in Terminal => phase'[u] \in Terminal \cup {"Gone"}
  <2> SUFFICES ASSUME NEW u \in Tasks, phase[u] \in Terminal
               PROVE  phase'[u] \in Terminal \cup {"Gone"}
    OBVIOUS
  <2>1. CASE PatchStatus
    BY <2>1, <1>1 DEF PatchStatus, SameVersion, TypeOK, Reads, Live, Terminal
  <2>2. CASE Environment
    BY <2>2, <1>1 DEF Environment, CreateTask, RenewTask, FinishTask,
       DeleteTask, TypeOK, Live, Terminal
  <2>3. CASE ~PatchStatus /\ ~Environment
    BY <1>1, <2>3 DEF Next, vars, apiVars, Tick, Wake, SyncView,
       Startup, Reset, StartInitial, StartSSHD, Reconcile, BeginReplace,
       ActivateUnchanged, MaterializeGeneration, RejectDamagedGeneration,
       CommitManifest, RemoveGeneration, FinishReplace, ReadLatest,
       FinishReconcile, Fault, Exit, PublicationFails, RemovalFails,
       ReportFails, Session, Authenticate, CheckActive, LoadPolicy, Recheck,
       EndProcess, Advance
  <2> QED
    BY <2>1, <2>2, <2>3
<1> QED
  BY <1>1, TypeCorrect, PTL DEF Spec, TerminalIsFinal
=============================================================================
