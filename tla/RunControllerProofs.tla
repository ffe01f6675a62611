------------------------- MODULE RunControllerProofs -------------------------
(***************************************************************************)
(* What one run's controller guarantees for any number of Jobs, keys,      *)
(* tasks, Pods and faults, and however far the caches lag.                 *)
(*                                                                         *)
(* Some theorems hold of every behaviour.  The ones about the binding need *)
(* that a status read whose error the code swallows and a deleted child    *)
(* do not come together: with both, a run whose Job is gone is taken for   *)
(* one that never had a Job, and a second sender is created and bound.     *)
(***************************************************************************)
EXTENDS RunController, TLAPS

\* No status read was replaced by the cached status, or no child was deleted.
FreshOrKept == used["read"] = 0 \/ used["delete"] = 0

\* What a reconciliation keeps in memory fits the step it is at.
LocalsInv ==
    /\ pc \in {"bind", "finish", "running"} => sender # None
    /\ pc \in {"children", "wait", "ready", "hosts", "patchReady", "eligible",
              "createJob"} => sender = None
    /\ sender # None => sender.own
    /\ pc \in {"hosts", "patchReady", "eligible", "createJob"} => seen # None
    /\ pc = "renew" => seen # None /\ seen.own /\ seen.phase \notin TaskTerminal

\* A Job that anybody sees as succeeded has succeeded.
HonestJobs ==
    \A j \in {job, cached.job, sender} :
      j # None /\ j.state = "succeeded" => j.uid \in succeeded

\* A Job that anybody takes for the run's own was created by the controller.
OwnJobs ==
    \A j \in {job, cached.job, sender} :
      j # None /\ j.own => j.uid \in 1..used["job"]

\* The steps of a reconciliation that found no sender Job.
Starting == {"lease", "renew", "children", "wait", "ready", "hosts", "patchReady",
             "eligible", "createJob"}

\* While every status read is fresh, a reconciliation that found no binding is
\* right about it until it writes one itself.
FreshInv ==
    used["read"] = 0 =>
      /\ pc = "bind" => run.jobUID = None
      /\ pc \in Starting /\ sender = None => run.jobUID = None

\* While no child is deleted, a child that anybody knows of is still there.
KeptInv ==
    used["delete"] = 0 =>
      /\ cached.job # None =>
           job # None /\ job.uid = cached.job.uid /\ job.own = cached.job.own
      /\ sender # None => job # None /\ job.uid = sender.uid
      /\ run.jobUID # None => job # None /\ job.uid = run.jobUID
      /\ cached.task # None => task # None /\ task.own = cached.task.own

\* Copies of the run hold its binding or none, and the Job that decides the
\* outcome is the bound one.
BindingInv ==
    FreshOrKept =>
      /\ cached.run.jobUID \in {None, run.jobUID}
      /\ base.jobUID \in {None, run.jobUID}
      /\ pc = "bind" => run.jobUID \in {None, sender.uid}
      /\ pc = "finish" => run.jobUID = sender.uid

ControllerInv ==
    /\ TypeOK
    /\ LocalsInv
    /\ HonestJobs
    /\ OwnJobs
    /\ FreshInv
    /\ KeptInv
    /\ BindingInv
    /\ FreshOrKept => SuccessIsEarned

-----------------------------------------------------------------------------
(* Lemmas on the operators.                                                 *)

LEMMA MergePatchWrites ==
    ASSUME run \in Runs, base \in Runs, NEW new \in Runs, MergePatch(new)
    PROVE  /\ run' \in Runs
           /\ run'.phase = IF new.phase # base.phase THEN new.phase ELSE run.phase
           /\ run'.jobUID =
                IF new.jobUID # base.jobUID THEN new.jobUID ELSE run.jobUID
  <1>1. DOMAIN run = {"phase", "jobUID", "pod"}
    BY DEF Runs
  <1>2. run' = [phase  |-> IF new.phase # base.phase THEN new.phase ELSE run.phase,
                jobUID |-> IF new.jobUID # base.jobUID THEN new.jobUID
                           ELSE run.jobUID,
                pod    |-> IF new.pod # base.pod THEN new.pod ELSE run.pod]
    BY <1>1 DEF MergePatch
  <1> QED
    BY <1>2 DEF Runs

\* The patches that set the phase leave the binding alone.
LEMMA PhasePatch ==
    ASSUME run \in Runs, base \in Runs, NEW p \in RunPhases,
           MergePatch([base EXCEPT !.phase = p])
    PROVE  run' \in Runs /\ run'.phase \in {run.phase, p} /\ run'.jobUID = run.jobUID
  <1> DEFINE new == [base EXCEPT !.phase = p]
  <1>1. new \in Runs /\ new.phase = p /\ new.jobUID = base.jobUID
    BY DEF Runs
  <1> HIDE DEF new
  <1>2. MergePatch(new)
    BY DEF new
  <1> QED
    BY <1>1, <1>2, MergePatchWrites

LEMMA ReadyPatch ==
    ASSUME run \in Runs, base \in Runs, seen \in ReceiveTasks,
           MergePatch([base EXCEPT !.phase = "ReceiverReady", !.pod = seen.pod])
    PROVE  /\ run' \in Runs /\ run'.jobUID = run.jobUID
           /\ run'.phase \in {run.phase, "ReceiverReady"}
  <1> DEFINE new == [base EXCEPT !.phase = "ReceiverReady", !.pod = seen.pod]
  <1>1. new \in Runs /\ new.phase = "ReceiverReady" /\ new.jobUID = base.jobUID
    BY DEF Runs, RunPhases, ReceiveTasks
  <1> HIDE DEF new
  <1>2. MergePatch(new)
    BY DEF new
  <1> QED
    BY <1>1, <1>2, MergePatchWrites

\* bindSenderJobIdentity writes the binding unless its copy of the run has one.
LEMMA BindWrites ==
    ASSUME TypeOK, LocalsInv, BindSenderJobIdentity
    PROVE  /\ sender \in Jobs /\ sender.uid # None
           /\ run'.jobUID = IF base.jobUID = None THEN sender.uid ELSE run.jobUID
           /\ run'.phase = run.phase
           /\ base'.jobUID = sender.uid
  <1> DEFINE bound == [base EXCEPT !.jobUID = IF @ = None THEN sender.uid ELSE @]
  <1> USE DEF TypeOK
  <1>1. sender \in Jobs /\ sender.uid \in UIDs /\ sender.uid # None
    BY ConstantsAssumption DEF BindSenderJobIdentity, LocalsInv, Jobs, UIDs
  <1>2. /\ bound \in Runs /\ bound.phase = base.phase
        /\ bound.jobUID = IF base.jobUID = None THEN sender.uid ELSE base.jobUID
    BY <1>1 DEF Runs
  <1>3. MergePatch(bound)
    BY DEF BindSenderJobIdentity
  <1>4. base'.jobUID = sender.uid
    BY DEF BindSenderJobIdentity, Runs
  <1> HIDE DEF bound
  <1>5. /\ run'.phase = run.phase
        /\ run'.jobUID = IF base.jobUID = None THEN sender.uid ELSE run.jobUID
    BY <1>1, <1>2, <1>3, MergePatchWrites
  <1> QED
    BY <1>1, <1>4, <1>5

LEMMA CountSteps ==
    ASSUME used \in [Counted -> Nat], NEW what \in Counted, Count(what)
    PROVE  /\ used' \in [Counted -> Nat]
           /\ used'[what] = used[what] + 1
           /\ \A c \in Counted \ {what} : used'[c] = used[c]
  BY DEF Count

LEMMA NewRunTyped == NewRun \in Runs /\ NewRun.jobUID = None
  BY DEF NewRun, Runs, RunPhases, UIDs

-----------------------------------------------------------------------------
(* Types.                                                                   *)

LEMMA TypeInit == Init => TypeOK /\ LocalsInv
  <1> SUFFICES ASSUME Init PROVE TypeOK /\ LocalsInv
    OBVIOUS
  <1>1. used \in [Counted -> Nat]
    BY DEF Init
  <1> QED
    BY <1>1, NewRunTyped, ConstantsAssumption
       DEF Init, TypeOK, LocalsInv, Steps, TaskTerminal

\* Reconcile's locals after it returned.
LEMMA ReturnTypes ==
    ASSUME queued \in BOOLEAN, NEW again \in BOOLEAN, Return(again)
    PROVE  /\ pc' \in Steps /\ base' \in Runs /\ sender' = None /\ seen' = None
           /\ outcome' \in TaskTerminal /\ queued' \in BOOLEAN
  <1>1. queued' \in BOOLEAN
    BY DEF Return
  <1> QED
    BY <1>1, NewRunTyped DEF Return, Steps, TaskTerminal

LEMMA CreatedTaskTyped ==
    ASSUME TypeOK, CreateReceiveTask, task = None
    PROVE  used' \in [Counted -> Nat] /\ task' \in ReceiveTasks /\ task' # None
  <1> USE DEF TypeOK
  <1>1. used' \in [Counted -> Nat] /\ used'["task"] \in Nat
    BY CountSteps DEF CreateReceiveTask, Counted
  <1>2. cached.secret.key \in Nat
    BY DEF CreateReceiveTask, Secrets
  <1>3. task' = [own |-> TRUE, uid |-> used'["task"], key |-> cached.secret.key,
                 pod |-> None, phase |-> "Pending"]
    BY DEF CreateReceiveTask
  <1>4. task' \in ReceiveTasks
    BY <1>1, <1>2, <1>3 DEF ReceiveTasks, UIDs
  <1> QED
    BY <1>1, <1>4, NoneAssumption

LEMMA ReconcileTypes ==
    ASSUME TypeOK, LocalsInv, Reconcile
    PROVE  TypeOK'
  <1> USE NewRunTyped DEF TypeOK, Goto, api, mem, ctx, env
  <1>1. CASE ReconcileTerminalRun
    BY <1>1 DEF ReconcileTerminalRun, CleanUp, TaskPhaseOf, TaskTerminal, Steps
  <1>2. CASE FailRunValidation
    <2>1. run' = [run EXCEPT !.phase = "Failed"]
      BY <1>2 DEF FailRunValidation, Runs
    <2>2. run' \in Runs
      BY <2>1 DEF Runs, RunPhases, RunTerminal
    <2> QED
      BY <1>2, <2>2 DEF FailRunValidation
  <1>3. CASE WaitForDestination
    <2>1. run' \in Runs
      BY <1>3 DEF WaitForDestination, Runs, RunPhases
    <2> QED
      BY <1>3, <2>1 DEF WaitForDestination
  <1>4. CASE ObserveSenderFresh
    BY <1>4 DEF ObserveSenderFresh, ObserveSender, Steps
  <1>5. CASE BindSenderJobIdentity
    <2> DEFINE bound == [base EXCEPT !.jobUID = IF @ = None THEN sender.uid ELSE @]
    <2>1. sender \in Jobs /\ sender.uid \in UIDs
      BY <1>5 DEF BindSenderJobIdentity, LocalsInv, Jobs, UIDs
    <2>2. bound \in Runs
      BY <2>1 DEF Runs
    <2>3. MergePatch(bound)
      BY <1>5 DEF BindSenderJobIdentity
    <2>4. run' \in Runs
      BY <2>2, <2>3, MergePatchWrites
    <2>5. base' \in Runs
      BY <1>5, <2>1 DEF BindSenderJobIdentity, Runs
    <2> QED
      BY <1>5, <2>4, <2>5 DEF BindSenderJobIdentity, Steps
  <1>6. CASE FinishFromSenderJob
    <2>1. MergePatch([base EXCEPT !.phase = "Succeeded"]) => run' \in Runs
      BY PhasePatch DEF RunPhases, RunTerminal
    <2> QED
      BY <1>6, <2>1 DEF FinishFromSenderJob, CleanUp, TaskTerminal, Steps
  <1>7. CASE ReconcileReceiveTaskLease
    BY <1>7 DEF ReconcileReceiveTaskLease, AfterLease, Steps
  <1>8. CASE RenewLease
    <2>1. CASE SameTaskVersion
      BY <1>8, <2>1 DEF RenewLease, AfterLease, Steps
    <2>2. CASE ~SameTaskVersion
      BY <1>8, <2>2, ReturnTypes DEF RenewLease
    <2> QED
      BY <2>1, <2>2
  <1>9. CASE PatchRunning
    <2>1. run' \in Runs
      BY <1>9, PhasePatch DEF PatchRunning, RunPhases
    <2> QED
      BY <1>9, <2>1, ReturnTypes DEF PatchRunning
  <1>10. CASE CreateSecret
    <2>1. CASE secret = None
      <3>1. used' \in [Counted -> Nat] /\ used'["key"] \in Nat
        BY <1>10, <2>1, CountSteps DEF CreateSecret, Counted
      <3>2. secret' = [own |-> TRUE, key |-> used'["key"], hosts |-> None]
        BY <1>10, <2>1 DEF CreateSecret
      <3>3. secret' \in Secrets
        BY <3>1, <3>2 DEF Secrets, UIDs
      <3> QED
        BY <1>10, <3>1, <3>3 DEF CreateSecret, Steps
    <2>2. CASE secret # None
      BY <1>10, <2>2 DEF CreateSecret, Steps
    <2> QED
      BY <2>1, <2>2
  <1>11. CASE CreateReceiveTask
    <2>1. CASE task = None
      <3>1. used' \in [Counted -> Nat] /\ task' \in ReceiveTasks
        BY <1>11, <2>1, CreatedTaskTyped
      <3> QED
        BY <1>11, <2>1, <3>1 DEF CreateReceiveTask, Steps
    <2>2. CASE task # None
      BY <1>11, <2>2 DEF CreateReceiveTask, Steps
    <2> QED
      BY <2>1, <2>2
  <1>12. CASE CheckChildren
    BY <1>12 DEF CheckChildren, Steps
  <1>13. CASE WaitForReplicationReceiver
    <2>1. run' \in Runs
      BY <1>13, PhasePatch DEF WaitForReplicationReceiver, RunPhases
    <2> QED
      BY <1>13, <2>1, ReturnTypes DEF WaitForReplicationReceiver
  <1>14. CASE ReadyReceiveTask
    <2>1. CASE cached.task = None
      BY <1>14, <2>1, ReturnTypes DEF ReadyReceiveTask
    <2>2. CASE cached.task # None
      BY <1>14, <2>2 DEF ReadyReceiveTask, Steps
    <2> QED
      BY <2>1, <2>2
  <1>15. CASE EnsureKnownHosts
    <2>1. seen.pod \in UIDs
      BY <1>15 DEF EnsureKnownHosts, LocalsInv, ReceiveTasks
    <2>2. SameSecretVersion => [secret EXCEPT !.hosts = seen.pod] \in Secrets
      BY <2>1 DEF SameSecretVersion, Secrets
    <2>3. CASE Return(TRUE) /\ UNCHANGED secret
      BY <1>15, <2>3, ReturnTypes DEF EnsureKnownHosts
    <2>4. CASE pc' \in {"fail", "patchReady"} /\ UNCHANGED <<secret, mem, queued>>
      BY <1>15, <2>4 DEF EnsureKnownHosts, Steps
    <2>5. CASE /\ SameSecretVersion /\ secret' = [secret EXCEPT !.hosts = seen.pod]
               /\ pc' = "patchReady" /\ UNCHANGED <<mem, queued>>
      BY <1>15, <2>2, <2>5 DEF EnsureKnownHosts, Steps
    <2> QED
      BY <1>15, <2>3, <2>4, <2>5 DEF EnsureKnownHosts
  <1>16. CASE PatchReceiverReady
    <2>1. run' \in Runs
      BY <1>16, ReadyPatch DEF PatchReceiverReady, LocalsInv
    <2> QED
      BY <1>16, <2>1 DEF PatchReceiverReady, Steps
  <1>17. CASE ReceiveTaskEligible
    BY <1>17 DEF ReceiveTaskEligible, Steps
  <1>18. CASE EnsureRunJob
    <2>1. CASE cached.job = None /\ job = None
      <3>1. used' \in [Counted -> Nat] /\ used'["job"] \in Nat
        BY <1>18, <2>1, CountSteps DEF EnsureRunJob, Counted
      <3>2. seen.pod \in UIDs
        BY <1>18 DEF EnsureRunJob, LocalsInv, ReceiveTasks
      <3>3. job' = [own |-> TRUE, uid |-> used'["job"], pod |-> seen.pod,
                    state |-> "active"]
        BY <1>18, <2>1 DEF EnsureRunJob
      <3>4. job' \in Jobs
        BY <3>1, <3>2, <3>3 DEF Jobs
      <3> QED
        BY <1>18, <3>1, <3>4, ReturnTypes DEF EnsureRunJob
    <2>2. CASE ~(cached.job = None /\ job = None)
      BY <1>18, <2>2, ReturnTypes DEF EnsureRunJob
    <2> QED
      BY <2>1, <2>2
  <1>19. CASE FailRunObject
    <2>1. run' \in Runs
      BY <1>19, PhasePatch DEF FailRunObject, RunPhases, RunTerminal
    <2> QED
      BY <1>19, <2>1 DEF FailRunObject, CleanUp, TaskTerminal, Steps
  <1>20. CASE MarkReceiveTaskTerminal
    <2>1. task # None => [task EXCEPT !.phase = outcome] \in ReceiveTasks
      BY DEF ReceiveTasks
    <2> QED
      BY <1>20, <2>1 DEF MarkReceiveTaskTerminal, Steps
  <1>21. CASE DeleteRunSSHSecret
    BY <1>21, ReturnTypes DEF DeleteRunSSHSecret
  <1> QED
    BY <1>1, <1>2, <1>3, <1>4, <1>5, <1>6, <1>7, <1>8, <1>9, <1>10, <1>11, <1>12,
       <1>13, <1>14, <1>15, <1>16, <1>17, <1>18, <1>19, <1>20, <1>21 DEF Reconcile

LEMMA FaultTypes ==
    ASSUME TypeOK, Fault
    PROVE  TypeOK'
  <1> USE NewRunTyped DEF TypeOK, Goto, api, mem, ctx, env
  <1>1. CASE ObserveSenderFallback
    <2>1. used' \in [Counted -> Nat]
      BY <1>1, CountSteps DEF ObserveSenderFallback, Counted
    <2> QED
      BY <1>1, <2>1 DEF ObserveSenderFallback, ObserveSender, Steps
  <1>2. CASE Abort
    <2>1. used' \in [Counted -> Nat]
      BY <1>2, CountSteps DEF Abort, Counted
    <2> QED
      BY <1>2, <2>1, ReturnTypes DEF Abort
  <1>3. CASE MarkReceiveTaskFails
    <2>1. used' \in [Counted -> Nat]
      BY <1>3, CountSteps DEF MarkReceiveTaskFails, Counted
    <2> QED
      BY <1>3, <2>1 DEF MarkReceiveTaskFails, Steps
  <1> QED
    BY <1>1, <1>2, <1>3 DEF Fault

LEMMA DeliverTypes ==
    ASSUME TypeOK, Deliver
    PROVE  TypeOK'
  <1> USE DEF TypeOK, Sync, api, mem, ctx, env
  <1>1. CASE Sync("run", run)
    BY <1>1
  <1>2. CASE Sync("secret", secret)
    BY <1>2
  <1>3. CASE Sync("task", task)
    BY <1>3
  <1>4. CASE Sync("job", job)
    BY <1>4
  <1> QED
    BY <1>1, <1>2, <1>3, <1>4 DEF Deliver

LEMMA ClusterTypes ==
    ASSUME TypeOK, Cluster
    PROVE  TypeOK'
  <1> USE DEF TypeOK, api, mem, ctx, env
  <1>1. CASE ReceiverReportsReady
    <2>1. task' \in ReceiveTasks
      BY <1>1 DEF ReceiverReportsReady, ReceiveTasks, UIDs
    <2> QED
      BY <1>1, <2>1 DEF ReceiverReportsReady
  <1>2. CASE ReceiverReportsFailed
    <2>1. task' \in ReceiveTasks
      BY <1>2 DEF ReceiverReportsFailed, ReceiveTasks, TaskTerminal
    <2> QED
      BY <1>2, <2>1 DEF ReceiverReportsFailed
  <1>3. CASE LeaseRunsOn
    <2>1. used' \in [Counted -> Nat]
      BY <1>3, CountSteps DEF LeaseRunsOn, Counted
    <2> QED
      BY <1>3, <2>1 DEF LeaseRunsOn
  <1>4. CASE \E state \in {"succeeded", "failed"} : JobEnds(state)
    <2>1. PICK state \in {"succeeded", "failed"} : JobEnds(state)
      BY <1>4
    <2>2. job' \in Jobs /\ job.uid \in Nat
      BY <2>1 DEF JobEnds, Jobs
    <2>3. succeeded' \subseteq Nat
      BY <2>1, <2>2 DEF JobEnds
    <2> QED
      BY <2>1, <2>2, <2>3 DEF JobEnds
  <1>5. CASE DeleteChild
    <2>1. used' \in [Counted -> Nat]
      BY <1>5, CountSteps DEF DeleteChild, Counted
    <2> QED
      BY <1>5, <2>1 DEF DeleteChild
  <1>6. CASE PlaceForeignChild
    <2>1. used' \in [Counted -> Nat]
      BY <1>6, CountSteps DEF PlaceForeignChild, Counted
    <2>2. [own |-> FALSE, key |-> 0, hosts |-> None] \in Secrets
      BY DEF Secrets, UIDs
    <2>3. [own |-> FALSE, uid |-> 0, key |-> 0, pod |-> None,
           phase |-> "Pending"] \in ReceiveTasks
      BY DEF ReceiveTasks, UIDs
    <2>4. [own |-> FALSE, uid |-> 0, pod |-> None, state |-> "active"] \in Jobs
      BY DEF Jobs, UIDs
    <2> QED
      BY <1>6, <2>1, <2>2, <2>3, <2>4 DEF PlaceForeignChild
  <1>7. CASE ReplacePod
    BY <1>7 DEF ReplacePod
  <1>8. CASE TakeDestination
    <2>1. used' \in [Counted -> Nat]
      BY <1>8, CountSteps DEF TakeDestination, Counted
    <2> QED
      BY <1>8, <2>1 DEF TakeDestination
  <1>9. CASE FreeDestination
    BY <1>9 DEF FreeDestination
  <1> QED
    BY <1>1, <1>2, <1>3, <1>4, <1>5, <1>6, <1>7, <1>8, <1>9 DEF Cluster

LEMMA TypeNext ==
    ASSUME TypeOK, LocalsInv, [Next]_vars
    PROVE  TypeOK'
  <1>1. CASE UNCHANGED vars
    BY <1>1 DEF vars, TypeOK, api, mem, ctx, env
  <1> QED
    BY <1>1, ReconcileTypes, FaultTypes, DeliverTypes, ClusterTypes DEF Next

LEMMA LocalsNext ==
    ASSUME TypeOK, LocalsInv, [Next]_vars
    PROVE  LocalsInv'
  <1> USE DEF LocalsInv, Goto, mem
  <1>1. CASE UNCHANGED <<pc, mem>>
    BY <1>1
  <1>2. ASSUME NEW again \in BOOLEAN, Return(again)
        PROVE  LocalsInv'
    BY <1>2 DEF Return
  <1>3. ASSUME NEW phase, CleanUp(phase)
        PROVE  LocalsInv'
    BY <1>3 DEF CleanUp
  <1>4. ASSUME NEW status, ObserveSender(status)
        PROVE  LocalsInv'
    BY <1>4 DEF ObserveSender, Refused
  <1>5. CASE BindSenderJobIdentity
    BY <1>5 DEF BindSenderJobIdentity
  <1>6. CASE FinishFromSenderJob
    BY <1>3, <1>6 DEF FinishFromSenderJob
  <1>7. CASE ReconcileReceiveTaskLease
    BY <1>7 DEF ReconcileReceiveTaskLease, AfterLease, Refused, LeaseRefused
  <1>8. CASE RenewLease
    BY <1>2, <1>8 DEF RenewLease, AfterLease
  <1>9. CASE ReadyReceiveTask
    BY <1>2, <1>9 DEF ReadyReceiveTask
  <1>10. CASE EnsureKnownHosts
    BY <1>2, <1>10 DEF EnsureKnownHosts
  <1>11. CASE \/ CreateSecret \/ CreateReceiveTask \/ CheckChildren
              \/ PatchReceiverReady \/ ReceiveTaskEligible
              \/ MarkReceiveTaskTerminal \/ MarkReceiveTaskFails
    BY <1>11 DEF CreateSecret, CreateReceiveTask, CheckChildren,
                 PatchReceiverReady, ReceiveTaskEligible,
                 MarkReceiveTaskTerminal, MarkReceiveTaskFails
  <1> QED
    BY <1>1, <1>2, <1>3, <1>4, <1>5, <1>6, <1>7, <1>8, <1>9, <1>10, <1>11
       DEF vars, Next, Reconcile, Fault, Deliver, Cluster, Sync,
           ReconcileTerminalRun, FailRunValidation, WaitForDestination,
           ObserveSenderFresh, ObserveSenderFallback, PatchRunning,
           WaitForReplicationReceiver, EnsureRunJob, FailRunObject,
           DeleteRunSSHSecret, Abort, ReceiverReportsReady, ReceiverReportsFailed,
           LeaseRunsOn, JobEnds, DeleteChild, PlaceForeignChild, ReplacePod,
           TakeDestination, FreeDestination

\* Every type of the controller's state, for any bounds.
THEOREM ControllerTypeCorrect == Spec => []TypeOK
  <1>1. Init => TypeOK /\ LocalsInv
    BY TypeInit
  <1>2. TypeOK /\ LocalsInv /\ [Next]_vars => (TypeOK /\ LocalsInv)'
    BY TypeNext, LocalsNext
  <1> QED
    BY <1>1, <1>2, PTL DEF Spec

-----------------------------------------------------------------------------
(* Who writes what.                                                         *)

\* What has happened is not undone.
LEMMA FaultsStay ==
    ASSUME TypeOK, [Next]_vars
    PROVE  /\ used'["read"] = 0 => used["read"] = 0
           /\ used'["delete"] = 0 => used["delete"] = 0
           /\ FreshOrKept' => FreshOrKept
           /\ succeeded \subseteq succeeded'
  <1>1. ASSUME NEW what \in Counted, Count(what)
        PROVE  /\ used'["read"] = 0 => used["read"] = 0
               /\ used'["delete"] = 0 => used["delete"] = 0
    BY <1>1, CountSteps DEF TypeOK, Counted
  <1>2. /\ used'["read"] = 0 => used["read"] = 0
        /\ used'["delete"] = 0 => used["delete"] = 0
    BY <1>1
       DEF vars, Next, Reconcile, Fault, Deliver, Cluster, Sync, Counted,
           ReconcileTerminalRun, FailRunValidation, WaitForDestination,
           ObserveSenderFresh, ObserveSenderFallback, ObserveSender,
           BindSenderJobIdentity, FinishFromSenderJob, ReconcileReceiveTaskLease,
           RenewLease, PatchRunning, CreateSecret, CreateReceiveTask,
           CheckChildren, WaitForReplicationReceiver, ReadyReceiveTask,
           EnsureKnownHosts, PatchReceiverReady, ReceiveTaskEligible,
           EnsureRunJob, FailRunObject, MarkReceiveTaskTerminal,
           DeleteRunSSHSecret, Abort, MarkReceiveTaskFails, ReceiverReportsReady,
           ReceiverReportsFailed, LeaseRunsOn, JobEnds, DeleteChild,
           PlaceForeignChild, ReplacePod, TakeDestination, FreeDestination
  <1>3. succeeded \subseteq succeeded'
    BY DEF vars, Next, Reconcile, Fault, Deliver, Cluster, Sync,
           ReconcileTerminalRun, FailRunValidation, WaitForDestination,
           ObserveSenderFresh, ObserveSenderFallback, ObserveSender,
           BindSenderJobIdentity, FinishFromSenderJob, ReconcileReceiveTaskLease,
           RenewLease, PatchRunning, CreateSecret, CreateReceiveTask,
           CheckChildren, WaitForReplicationReceiver, ReadyReceiveTask,
           EnsureKnownHosts, PatchReceiverReady, ReceiveTaskEligible,
           EnsureRunJob, FailRunObject, MarkReceiveTaskTerminal,
           DeleteRunSSHSecret, Abort, MarkReceiveTaskFails, ReceiverReportsReady,
           ReceiverReportsFailed, LeaseRunsOn, JobEnds, DeleteChild,
           PlaceForeignChild, ReplacePod, TakeDestination, FreeDestination
  <1> QED
    BY <1>2, <1>3 DEF FreshOrKept

\* The binding is written by bindSenderJobIdentity only.
LEMMA BindingWriters ==
    ASSUME TypeOK, LocalsInv, [Next]_vars, run'.jobUID # run.jobUID
    PROVE  BindSenderJobIdentity
  <1> SUFFICES ASSUME ~BindSenderJobIdentity PROVE FALSE
    OBVIOUS
  <1> USE DEF TypeOK, RunPhases, RunTerminal
  <1>1. CASE FailRunValidation
    BY <1>1 DEF FailRunValidation, Runs
  <1>2. CASE WaitForDestination
    BY <1>2 DEF WaitForDestination, Runs
  <1>3. CASE FinishFromSenderJob
    BY <1>3, PhasePatch DEF FinishFromSenderJob
  <1>4. CASE PatchRunning
    BY <1>4, PhasePatch DEF PatchRunning
  <1>5. CASE WaitForReplicationReceiver
    BY <1>5, PhasePatch DEF WaitForReplicationReceiver
  <1>6. CASE PatchReceiverReady
    BY <1>6, ReadyPatch DEF PatchReceiverReady, LocalsInv
  <1>7. CASE FailRunObject
    BY <1>7, PhasePatch DEF FailRunObject
  <1> QED
    BY <1>1, <1>2, <1>3, <1>4, <1>5, <1>6, <1>7
       DEF vars, api, Next, Reconcile, Fault, Deliver, Cluster, Sync,
           ReconcileTerminalRun, ObserveSenderFresh, ObserveSenderFallback,
           ObserveSender, ReconcileReceiveTaskLease, RenewLease, CreateSecret,
           CreateReceiveTask, CheckChildren, ReadyReceiveTask, EnsureKnownHosts,
           ReceiveTaskEligible, EnsureRunJob, MarkReceiveTaskTerminal,
           DeleteRunSSHSecret, Abort, MarkReceiveTaskFails, ReceiverReportsReady,
           ReceiverReportsFailed, LeaseRunsOn, JobEnds, DeleteChild,
           PlaceForeignChild, ReplacePod, TakeDestination, FreeDestination

LEMMA JobWriters ==
    ASSUME [Next]_vars, job' # job
    PROVE  \/ EnsureRunJob
           \/ \E state \in {"succeeded", "failed"} : JobEnds(state)
           \/ DeleteChild
           \/ PlaceForeignChild
  BY DEF vars, api, Next, Reconcile, Fault, Deliver, Cluster, Sync,
         ReconcileTerminalRun, FailRunValidation, WaitForDestination,
         ObserveSenderFresh, ObserveSenderFallback, ObserveSender,
         BindSenderJobIdentity, FinishFromSenderJob, ReconcileReceiveTaskLease,
         RenewLease, PatchRunning, CreateSecret, CreateReceiveTask,
         CheckChildren, WaitForReplicationReceiver, ReadyReceiveTask,
         EnsureKnownHosts, PatchReceiverReady, ReceiveTaskEligible,
         FailRunObject, MarkReceiveTaskTerminal, DeleteRunSSHSecret, Abort,
         MarkReceiveTaskFails, ReceiverReportsReady, ReceiverReportsFailed,
         LeaseRunsOn, ReplacePod, TakeDestination, FreeDestination

\* The counter of created Jobs counts the creations.
LEMMA JobCreators ==
    ASSUME TypeOK, [Next]_vars, JobCreated
    PROVE  EnsureRunJob /\ cached.job = None /\ job = None
  <1> SUFFICES ASSUME ~EnsureRunJob \/ cached.job # None \/ job # None
               PROVE  FALSE
    OBVIOUS
  <1> USE DEF JobCreated
  <1>1. ASSUME NEW what \in Counted \ {"job"}, Count(what)
        PROVE  FALSE
    BY <1>1, CountSteps DEF TypeOK, Counted
  <1>2. used' # used
    OBVIOUS
  <1>3. CASE EnsureRunJob
    BY <1>2, <1>3 DEF EnsureRunJob
  <1> QED
    BY <1>1, <1>2, <1>3
       DEF vars, Next, Reconcile, Fault, Deliver, Cluster, Sync, Counted,
           ReconcileTerminalRun, FailRunValidation, WaitForDestination,
           ObserveSenderFresh, ObserveSenderFallback, ObserveSender,
           BindSenderJobIdentity, FinishFromSenderJob, ReconcileReceiveTaskLease,
           RenewLease, PatchRunning, CreateSecret, CreateReceiveTask,
           CheckChildren, WaitForReplicationReceiver, ReadyReceiveTask,
           EnsureKnownHosts, PatchReceiverReady, ReceiveTaskEligible,
           FailRunObject, MarkReceiveTaskTerminal, DeleteRunSSHSecret, Abort,
           MarkReceiveTaskFails, ReceiverReportsReady, ReceiverReportsFailed,
           LeaseRunsOn, JobEnds, DeleteChild, PlaceForeignChild, ReplacePod,
           TakeDestination, FreeDestination

LEMMA TaskWriters ==
    ASSUME [Next]_vars, task' # task
    PROVE  \/ CreateReceiveTask
           \/ MarkReceiveTaskTerminal
           \/ ReceiverReportsReady
           \/ ReceiverReportsFailed
           \/ DeleteChild
           \/ PlaceForeignChild
  BY DEF vars, api, Next, Reconcile, Fault, Deliver, Cluster, Sync,
         ReconcileTerminalRun, FailRunValidation, WaitForDestination,
         ObserveSenderFresh, ObserveSenderFallback, ObserveSender,
         BindSenderJobIdentity, FinishFromSenderJob, ReconcileReceiveTaskLease,
         RenewLease, PatchRunning, CreateSecret, CheckChildren,
         WaitForReplicationReceiver, ReadyReceiveTask, EnsureKnownHosts,
         PatchReceiverReady, ReceiveTaskEligible, EnsureRunJob, FailRunObject,
         DeleteRunSSHSecret, Abort, MarkReceiveTaskFails, LeaseRunsOn, JobEnds,
         ReplacePod, TakeDestination, FreeDestination

LEMMA SecretWriters ==
    ASSUME [Next]_vars, secret' # secret
    PROVE  \/ CreateSecret /\ secret = None
           \/ EnsureKnownHosts
           \/ DeleteRunSSHSecret
           \/ DeleteChild
           \/ PlaceForeignChild
  BY DEF vars, api, Next, Reconcile, Fault, Deliver, Cluster, Sync,
         ReconcileTerminalRun, FailRunValidation, WaitForDestination,
         ObserveSenderFresh, ObserveSenderFallback, ObserveSender,
         BindSenderJobIdentity, FinishFromSenderJob, ReconcileReceiveTaskLease,
         RenewLease, PatchRunning, CreateSecret, CreateReceiveTask,
         CheckChildren, WaitForReplicationReceiver, ReadyReceiveTask,
         PatchReceiverReady, ReceiveTaskEligible,
         EnsureRunJob, FailRunObject, MarkReceiveTaskTerminal,
         Abort, MarkReceiveTaskFails, ReceiverReportsReady,
         ReceiverReportsFailed, LeaseRunsOn, JobEnds, ReplacePod, TakeDestination, FreeDestination

LEMMA CacheWriters ==
    ASSUME [Next]_vars, cached' # cached
    PROVE  Deliver
  BY DEF vars, api, Next, Reconcile, Fault, Cluster,
         ReconcileTerminalRun, FailRunValidation, WaitForDestination,
         ObserveSenderFresh, ObserveSenderFallback, ObserveSender,
         BindSenderJobIdentity, FinishFromSenderJob, ReconcileReceiveTaskLease,
         RenewLease, PatchRunning, CreateSecret, CreateReceiveTask,
         CheckChildren, WaitForReplicationReceiver, ReadyReceiveTask,
         EnsureKnownHosts, PatchReceiverReady, ReceiveTaskEligible, EnsureRunJob,
         FailRunObject, MarkReceiveTaskTerminal, DeleteRunSSHSecret, Abort,
         MarkReceiveTaskFails, ReceiverReportsReady, ReceiverReportsFailed,
         LeaseRunsOn, JobEnds, DeleteChild, PlaceForeignChild, ReplacePod,
         TakeDestination, FreeDestination

LEMMA LeaseWriters ==
    ASSUME TypeOK, [Next]_vars, lease # "long", lease' = "long", task' = task
    PROVE  RenewLease /\ SameTaskVersion
  <1>1. CASE CreateReceiveTask
    BY <1>1, CreatedTaskTyped DEF CreateReceiveTask
  <1>2. CASE PlaceForeignChild
    <2>1. [own |-> FALSE, uid |-> 0, key |-> 0, pod |-> None, phase |-> "Pending"]
             \in ReceiveTasks
      BY DEF ReceiveTasks, UIDs
    <2> QED
      BY <1>2, <2>1, NoneAssumption DEF PlaceForeignChild
  <1> QED
    BY <1>1, <1>2
       DEF vars, api, ctx, env, Next, Reconcile, Fault, Deliver, Cluster, Sync,
           ReconcileTerminalRun, FailRunValidation, WaitForDestination,
           ObserveSenderFresh, ObserveSenderFallback, ObserveSender,
           BindSenderJobIdentity, FinishFromSenderJob, ReconcileReceiveTaskLease,
           RenewLease, PatchRunning, CreateSecret,
           CheckChildren, WaitForReplicationReceiver, ReadyReceiveTask,
           EnsureKnownHosts, PatchReceiverReady, ReceiveTaskEligible, EnsureRunJob,
           FailRunObject, MarkReceiveTaskTerminal, DeleteRunSSHSecret, Abort,
           MarkReceiveTaskFails, ReceiverReportsReady, ReceiverReportsFailed,
           LeaseRunsOn, JobEnds, DeleteChild, ReplacePod,
           TakeDestination, FreeDestination

\* The Job a reconciliation works with comes from the cache and is kept until
\* it ends.
LEMMA SenderWriters ==
    ASSUME [Next]_vars, sender' # sender
    PROVE  sender' = None \/ (sender' = cached.job /\ pc = "idle")
  BY DEF vars, mem, Next, Reconcile, Fault, Deliver, Cluster, Sync, Return, CleanUp,
         ReconcileTerminalRun, FailRunValidation, WaitForDestination,
         ObserveSenderFresh, ObserveSenderFallback, ObserveSender,
         BindSenderJobIdentity, FinishFromSenderJob, ReconcileReceiveTaskLease,
         RenewLease, PatchRunning, CreateSecret, CreateReceiveTask,
         CheckChildren, WaitForReplicationReceiver, ReadyReceiveTask,
         EnsureKnownHosts, PatchReceiverReady, ReceiveTaskEligible, EnsureRunJob,
         FailRunObject, MarkReceiveTaskTerminal, DeleteRunSSHSecret, Abort,
         MarkReceiveTaskFails, ReceiverReportsReady, ReceiverReportsFailed,
         LeaseRunsOn, JobEnds, DeleteChild, PlaceForeignChild, ReplacePod,
         TakeDestination, FreeDestination

\* Likewise the run.
LEMMA BaseWriters ==
    ASSUME [Next]_vars, base' # base
    PROVE  \/ base' = NewRun
           \/ base' = cached.run
           \/ BindSenderJobIdentity
  BY DEF vars, mem, Next, Reconcile, Fault, Deliver, Cluster, Sync, Return, CleanUp,
         ReconcileTerminalRun, FailRunValidation, WaitForDestination,
         ObserveSenderFresh, ObserveSenderFallback, ObserveSender,
         FinishFromSenderJob, ReconcileReceiveTaskLease,
         RenewLease, PatchRunning, CreateSecret, CreateReceiveTask,
         CheckChildren, WaitForReplicationReceiver, ReadyReceiveTask,
         EnsureKnownHosts, PatchReceiverReady, ReceiveTaskEligible, EnsureRunJob,
         FailRunObject, MarkReceiveTaskTerminal, DeleteRunSSHSecret, Abort,
         MarkReceiveTaskFails, ReceiverReportsReady, ReceiverReportsFailed,
         LeaseRunsOn, JobEnds, DeleteChild, PlaceForeignChild, ReplacePod,
         TakeDestination, FreeDestination

\* A phase of Succeeded is written by finishFromSenderJob only.
LEMMA SuccessWriters ==
    ASSUME TypeOK, LocalsInv, [Next]_vars,
           run'.phase = "Succeeded", run.phase # "Succeeded"
    PROVE  FinishFromSenderJob /\ SenderSucceeded
  <1> SUFFICES ASSUME ~(FinishFromSenderJob /\ SenderSucceeded) PROVE FALSE
    OBVIOUS
  <1> USE DEF TypeOK, RunPhases, RunTerminal
  <1>1. CASE FailRunValidation
    BY <1>1 DEF FailRunValidation, Runs
  <1>2. CASE WaitForDestination
    BY <1>2 DEF WaitForDestination, Runs
  <1>3. CASE FinishFromSenderJob
    BY <1>3 DEF FinishFromSenderJob
  <1>4. CASE PatchRunning
    BY <1>4, PhasePatch DEF PatchRunning
  <1>5. CASE WaitForReplicationReceiver
    BY <1>5, PhasePatch DEF WaitForReplicationReceiver
  <1>6. CASE PatchReceiverReady
    BY <1>6, ReadyPatch DEF PatchReceiverReady, LocalsInv
  <1>7. CASE FailRunObject
    BY <1>7, PhasePatch DEF FailRunObject
  <1>8. CASE BindSenderJobIdentity
    BY <1>8, BindWrites
  <1> QED
    BY <1>1, <1>2, <1>3, <1>4, <1>5, <1>6, <1>7, <1>8
       DEF vars, api, Next, Reconcile, Fault, Deliver, Cluster, Sync,
           ReconcileTerminalRun, ObserveSenderFresh, ObserveSenderFallback,
           ObserveSender, ReconcileReceiveTaskLease, RenewLease, CreateSecret,
           CreateReceiveTask, CheckChildren, ReadyReceiveTask, EnsureKnownHosts,
           ReceiveTaskEligible, EnsureRunJob, MarkReceiveTaskTerminal,
           DeleteRunSSHSecret, Abort, MarkReceiveTaskFails, ReceiverReportsReady,
           ReceiverReportsFailed, LeaseRunsOn, JobEnds, DeleteChild,
           PlaceForeignChild, ReplacePod, TakeDestination, FreeDestination

\* A delivery brings the object as it is, and changes nothing else.
LEMMA CacheReads ==
    ASSUME TypeOK, [Next]_vars
    PROVE  /\ cached'.run \in {cached.run, run}
           /\ cached'.task \in {cached.task, task}
           /\ cached'.job \in {cached.job, job}
           /\ cached' # cached => UNCHANGED <<run, task, job, succeeded>>
  <1>1. CASE Deliver
    BY <1>1 DEF Deliver, Sync, TypeOK, api
  <1> QED
    BY <1>1, CacheWriters

\* A reconciliation comes to bind from its look at the cached Job only.
LEMMA BindSteps ==
    ASSUME [Next]_vars, pc' = "bind"
    PROVE  \/ pc = "bind" /\ UNCHANGED <<run, sender>>
           \/ ObserveSenderFresh /\ run.jobUID = None
           \/ ObserveSenderFallback
  BY DEF Goto, AfterLease, Return, CleanUp, api, mem, vars, Next, Reconcile, Fault,
         Deliver, Cluster, Sync,
           ReconcileTerminalRun, FailRunValidation, WaitForDestination,
           ObserveSenderFresh, ObserveSenderFallback, ObserveSender,
           BindSenderJobIdentity, FinishFromSenderJob, ReconcileReceiveTaskLease,
           RenewLease, PatchRunning, CreateSecret, CreateReceiveTask,
           CheckChildren, WaitForReplicationReceiver, ReadyReceiveTask,
           EnsureKnownHosts, PatchReceiverReady, ReceiveTaskEligible,
           EnsureRunJob, FailRunObject, MarkReceiveTaskTerminal,
           DeleteRunSSHSecret, Abort, MarkReceiveTaskFails, ReceiverReportsReady,
           ReceiverReportsFailed, LeaseRunsOn, JobEnds, DeleteChild,
           PlaceForeignChild, ReplacePod, TakeDestination, FreeDestination

\* It decides about the outcome after that look, or after the binding.
LEMMA FinishSteps ==
    ASSUME [Next]_vars, pc' = "finish"
    PROVE  \/ pc = "finish" /\ UNCHANGED <<run, sender>>
           \/ BindSenderJobIdentity
           \/ ObserveSenderFresh /\ sender' # None /\ run.jobUID = sender'.uid
           \/ ObserveSenderFallback /\ sender' # None /\ cached.run.jobUID = sender'.uid
  BY DEF Goto, AfterLease, Return, CleanUp, api, mem, vars, Next, Reconcile, Fault,
         Deliver, Cluster, Sync, Refused,
           ReconcileTerminalRun, FailRunValidation, WaitForDestination,
           ObserveSenderFresh, ObserveSenderFallback, ObserveSender,
           BindSenderJobIdentity, FinishFromSenderJob, ReconcileReceiveTaskLease,
           RenewLease, PatchRunning, CreateSecret, CreateReceiveTask,
           CheckChildren, WaitForReplicationReceiver, ReadyReceiveTask,
           EnsureKnownHosts, PatchReceiverReady, ReceiveTaskEligible,
           EnsureRunJob, FailRunObject, MarkReceiveTaskTerminal,
           DeleteRunSSHSecret, Abort, MarkReceiveTaskFails, ReceiverReportsReady,
           ReceiverReportsFailed, LeaseRunsOn, JobEnds, DeleteChild,
           PlaceForeignChild, ReplacePod, TakeDestination, FreeDestination

\* It goes on to create children and a sender only if it has found none.
LEMMA StartSteps ==
    ASSUME LocalsInv, [Next]_vars, pc' \in Starting, sender' = None
    PROVE  \/ pc \in Starting /\ sender = None
           \/ ObserveSenderFresh /\ run.jobUID = None
           \/ ObserveSenderFallback
  BY DEF Goto, AfterLease, Return, CleanUp, api, mem, vars, Next, Reconcile, Fault,
         Deliver, Cluster, Sync, Refused, Starting, LocalsInv,
           ReconcileTerminalRun, FailRunValidation, WaitForDestination,
           ObserveSenderFresh, ObserveSenderFallback, ObserveSender,
           BindSenderJobIdentity, FinishFromSenderJob, ReconcileReceiveTaskLease,
           RenewLease, PatchRunning, CreateSecret, CreateReceiveTask,
           CheckChildren, WaitForReplicationReceiver, ReadyReceiveTask,
           EnsureKnownHosts, PatchReceiverReady, ReceiveTaskEligible,
           EnsureRunJob, FailRunObject, MarkReceiveTaskTerminal,
           DeleteRunSSHSecret, Abort, MarkReceiveTaskFails, ReceiverReportsReady,
           ReceiverReportsFailed, LeaseRunsOn, JobEnds, DeleteChild,
           PlaceForeignChild, ReplacePod, TakeDestination, FreeDestination

\* The writers of a task that is there leave it there.
LEMMA TaskStays ==
    ASSUME TypeOK, task # None,
           \/ MarkReceiveTaskTerminal
           \/ ReceiverReportsReady
           \/ ReceiverReportsFailed
    PROVE  /\ task' # None /\ task'.own = task.own /\ task'.key = task.key
           /\ task.phase \in TaskTerminal => task'.phase \in TaskTerminal
  <1> USE DEF TypeOK
  <1>1. ASSUME NEW p \in TaskTerminal
        PROVE  /\ [task EXCEPT !.phase = p] \in ReceiveTasks
               /\ [task EXCEPT !.phase = p].own = task.own
               /\ [task EXCEPT !.phase = p].key = task.key
               /\ [task EXCEPT !.phase = p].phase \in TaskTerminal
    BY DEF ReceiveTasks
  <1>2. CASE MarkReceiveTaskTerminal
    <2>1. task' \in {task, [task EXCEPT !.phase = outcome]}
      BY <1>2 DEF MarkReceiveTaskTerminal
    <2> QED
      BY <1>1, <2>1, NoneAssumption
  <1>3. CASE ReceiverReportsReady
    <2>1. /\ task' = [task EXCEPT !.phase = "Ready", !.pod = pod] /\ pod \in UIDs
          /\ task.phase \notin TaskTerminal
      BY <1>3 DEF ReceiverReportsReady, UIDs
    <2>2. task' \in ReceiveTasks /\ task'.own = task.own /\ task'.key = task.key
      BY <2>1 DEF ReceiveTasks
    <2> QED
      BY <2>1, <2>2, NoneAssumption
  <1>4. CASE ReceiverReportsFailed
    <2>1. task' = [task EXCEPT !.phase = "Failed"] /\ "Failed" \in TaskTerminal
      BY <1>4 DEF ReceiverReportsFailed, TaskTerminal
    <2> QED
      BY <1>1, <2>1, NoneAssumption
  <1> QED
    BY <1>2, <1>3, <1>4

LEMMA NoDeletion ==
    ASSUME TypeOK, used'["delete"] = 0
    PROVE  ~DeleteChild
  <1> SUFFICES ASSUME DeleteChild PROVE FALSE
    OBVIOUS
  <1>1. used'["delete"] = used["delete"] + 1 /\ used["delete"] \in Nat
    BY CountSteps DEF DeleteChild, TypeOK, Counted
  <1> QED
    BY <1>1

\* As long as nobody deletes children, what exists keeps existing.
LEMMA ChildrenStay ==
    ASSUME TypeOK, [Next]_vars, used'["delete"] = 0
    PROVE  /\ job # None => job' # None /\ job'.uid = job.uid /\ job'.own = job.own
           /\ task # None =>
                /\ task' # None /\ task'.own = task.own /\ task'.key = task.key
                /\ task.phase \in TaskTerminal => task'.phase \in TaskTerminal
  <1>1. ~DeleteChild
    BY NoDeletion
  <1>2. ASSUME job # None, job' # job
        PROVE  job' # None /\ job'.uid = job.uid /\ job'.own = job.own
    <2>1. PICK state \in {"succeeded", "failed"} : JobEnds(state)
      BY <1>1, <1>2, JobWriters DEF EnsureRunJob, PlaceForeignChild
    <2>2. job \in Jobs /\ job' = [job EXCEPT !.state = state]
      BY <2>1 DEF JobEnds, TypeOK
    <2>3. job' \in Jobs /\ job'.uid = job.uid /\ job'.own = job.own
      BY <2>2 DEF Jobs
    <2> QED
      BY <2>3, NoneAssumption
  <1>3. ASSUME task # None, task' # task
        PROVE  /\ task' # None /\ task'.own = task.own /\ task'.key = task.key
               /\ task.phase \in TaskTerminal => task'.phase \in TaskTerminal
    BY <1>1, <1>3, TaskWriters, TaskStays DEF CreateReceiveTask, PlaceForeignChild
  <1> QED
    BY <1>2, <1>3

-----------------------------------------------------------------------------
(* The invariant is kept.                                                   *)

LEMMA HonestNext ==
    ASSUME TypeOK, HonestJobs, [Next]_vars
    PROVE  HonestJobs'
  <1> USE DEF HonestJobs
  <1>1. succeeded \subseteq succeeded'
    BY FaultsStay
  <1>2. job' # None /\ job'.state = "succeeded" => job'.uid \in succeeded'
    <2>1. CASE job' = job
      BY <1>1, <2>1
    <2>2. CASE EnsureRunJob
      BY <1>1, <2>2 DEF EnsureRunJob
    <2>3. CASE \E state \in {"succeeded", "failed"} : JobEnds(state)
      BY <2>3 DEF JobEnds, Jobs, TypeOK
    <2>4. CASE DeleteChild
      BY <1>1, <2>4 DEF DeleteChild
    <2>5. CASE PlaceForeignChild
      BY <1>1, <2>5 DEF PlaceForeignChild
    <2> QED
      BY <2>1, <2>2, <2>3, <2>4, <2>5, JobWriters
  <1>3. cached'.job # None /\ cached'.job.state = "succeeded" =>
          cached'.job.uid \in succeeded'
    BY <1>1, CacheReads
  <1>4. sender' # None /\ sender'.state = "succeeded" => sender'.uid \in succeeded'
    BY <1>1, SenderWriters
  <1> QED
    BY <1>2, <1>3, <1>4

LEMMA JobsAreCounted ==
    ASSUME TypeOK, [Next]_vars
    PROVE  1..used["job"] \subseteq 1..used'["job"]
  <1>1. ASSUME NEW what \in Counted, Count(what)
        PROVE  1..used["job"] \subseteq 1..used'["job"]
    BY <1>1, CountSteps DEF TypeOK, Counted
  <1> QED
    BY <1>1
       DEF vars, Next, Reconcile, Fault, Deliver, Cluster, Sync, Counted,
           ReconcileTerminalRun, FailRunValidation, WaitForDestination,
           ObserveSenderFresh, ObserveSenderFallback, ObserveSender,
           BindSenderJobIdentity, FinishFromSenderJob, ReconcileReceiveTaskLease,
           RenewLease, PatchRunning, CreateSecret, CreateReceiveTask,
           CheckChildren, WaitForReplicationReceiver, ReadyReceiveTask,
           EnsureKnownHosts, PatchReceiverReady, ReceiveTaskEligible,
           EnsureRunJob, FailRunObject, MarkReceiveTaskTerminal,
           DeleteRunSSHSecret, Abort, MarkReceiveTaskFails, ReceiverReportsReady,
           ReceiverReportsFailed, LeaseRunsOn, JobEnds, DeleteChild,
           PlaceForeignChild, ReplacePod, TakeDestination, FreeDestination

LEMMA OwnJobsNext ==
    ASSUME TypeOK, OwnJobs, [Next]_vars
    PROVE  OwnJobs'
  <1> USE DEF OwnJobs
  <1>1. 1..used["job"] \subseteq 1..used'["job"]
    BY JobsAreCounted
  <1>2. job' # None /\ job'.own => job'.uid \in 1..used'["job"]
    <2>1. CASE job' = job
      BY <1>1, <2>1
    <2>2. CASE EnsureRunJob /\ job' # job
      <3>1. Count("job") /\ job'.uid = used'["job"]
        BY <2>2 DEF EnsureRunJob
      <3>2. used'["job"] = used["job"] + 1 /\ used["job"] \in Nat
        BY <3>1, CountSteps DEF TypeOK, Counted
      <3> QED
        BY <3>1, <3>2
    <2>3. CASE \E state \in {"succeeded", "failed"} : JobEnds(state)
      <3>1. job \in Jobs /\ job # None /\ \E state : job' = [job EXCEPT !.state = state]
        BY <2>3 DEF JobEnds, TypeOK
      <3>2. job'.own = job.own /\ job'.uid = job.uid
        BY <3>1 DEF Jobs
      <3> QED
        BY <1>1, <3>1, <3>2
    <2>4. CASE DeleteChild
      BY <1>1, <2>4 DEF DeleteChild
    <2>5. CASE PlaceForeignChild
      BY <1>1, <2>5 DEF PlaceForeignChild
    <2> QED
      BY <2>1, <2>2, <2>3, <2>4, <2>5, JobWriters
  <1>3. cached'.job # None /\ cached'.job.own => cached'.job.uid \in 1..used'["job"]
    BY <1>1, CacheReads
  <1>4. sender' # None /\ sender'.own => sender'.uid \in 1..used'["job"]
    BY <1>1, SenderWriters
  <1> QED
    BY <1>2, <1>3, <1>4

LEMMA FreshNext ==
    ASSUME TypeOK, LocalsInv, FreshInv, [Next]_vars
    PROVE  FreshInv'
  <1> SUFFICES ASSUME used'["read"] = 0
               PROVE  /\ pc' = "bind" => run'.jobUID = None
                      /\ pc' \in Starting /\ sender' = None => run'.jobUID = None
    BY DEF FreshInv
  <1>1. used["read"] = 0
    BY FaultsStay
  <1>2. ~ObserveSenderFallback
    <2> SUFFICES ASSUME ObserveSenderFallback PROVE FALSE
      OBVIOUS
    <2>1. used'["read"] = used["read"] + 1
      BY CountSteps DEF ObserveSenderFallback, TypeOK, Counted
    <2> QED
      BY <1>1, <2>1
  <1>3. ObserveSenderFresh => run' = run
    BY DEF ObserveSenderFresh, ObserveSender, api
  <1>4. pc' = "bind" => run'.jobUID = None
    BY <1>1, <1>2, <1>3, BindSteps DEF FreshInv
  <1>5. ASSUME pc' \in Starting, sender' = None
        PROVE  run'.jobUID = None
    BY <1>1, <1>2, <1>3, <1>5, StartSteps, BindingWriters
       DEF FreshInv, BindSenderJobIdentity, Starting
  <1> QED
    BY <1>4, <1>5

LEMMA KeptNext ==
    ASSUME TypeOK, LocalsInv, KeptInv, [Next]_vars
    PROVE  KeptInv'
  <1> SUFFICES ASSUME used'["delete"] = 0
               PROVE  /\ cached'.job # None =>
                            /\ job' # None /\ job'.uid = cached'.job.uid
                            /\ job'.own = cached'.job.own
                      /\ sender' # None => job' # None /\ job'.uid = sender'.uid
                      /\ run'.jobUID # None => job' # None /\ job'.uid = run'.jobUID
                      /\ cached'.task # None =>
                            task' # None /\ task'.own = cached'.task.own
    BY DEF KeptInv
  <1>1. used["delete"] = 0
    BY FaultsStay
  <1> USE <1>1 DEF KeptInv
  <1>2. cached'.job # None => /\ job' # None /\ job'.uid = cached'.job.uid
                              /\ job'.own = cached'.job.own
    BY CacheReads, ChildrenStay
  <1>3. cached'.task # None => task' # None /\ task'.own = cached'.task.own
    BY CacheReads, ChildrenStay
  <1>4. sender' # None => job' # None /\ job'.uid = sender'.uid
    BY SenderWriters, ChildrenStay
  <1>5. run'.jobUID # None => job' # None /\ job'.uid = run'.jobUID
    BY BindingWriters, BindWrites, ChildrenStay DEF LocalsInv, BindSenderJobIdentity
  <1> QED
    BY <1>2, <1>3, <1>4, <1>5

LEMMA BindingNext ==
    ASSUME TypeOK, LocalsInv, FreshInv, KeptInv, BindingInv, [Next]_vars
    PROVE  BindingInv'
  <1> SUFFICES ASSUME FreshOrKept'
               PROVE  /\ cached'.run.jobUID \in {None, run'.jobUID}
                      /\ base'.jobUID \in {None, run'.jobUID}
                      /\ pc' = "bind" => run'.jobUID \in {None, sender'.uid}
                      /\ pc' = "finish" => run'.jobUID = sender'.uid
    BY DEF BindingInv
  <1>1. FreshOrKept
    BY FaultsStay
  <1>2. CASE BindSenderJobIdentity
    <2>1. pc = "bind" /\ pc' = "finish" /\ cached' = cached /\ sender' = sender
      BY <1>2 DEF BindSenderJobIdentity, Goto
    <2>2. run.jobUID \in {None, sender.uid} /\ base.jobUID \in {None, run.jobUID}
      BY <1>1, <2>1 DEF BindingInv
    <2>3. run'.jobUID = sender.uid /\ base'.jobUID = sender.uid
      BY <1>2, <2>2, BindWrites
    <2> QED
      BY <1>1, <2>1, <2>2, <2>3 DEF BindingInv
  <1>3. CASE ~BindSenderJobIdentity
    <2>1. run'.jobUID = run.jobUID
      BY <1>3, BindingWriters
    <2>2. cached'.run.jobUID \in {None, run'.jobUID}
      BY <1>1, <2>1, CacheReads DEF BindingInv
    <2>3. base'.jobUID \in {None, run'.jobUID}
      BY <1>1, <1>3, <2>1, BaseWriters, NewRunTyped DEF BindingInv
    <2>4. ASSUME ObserveSenderFallback
          PROVE  used["delete"] = 0
      <3>1. used'["read"] = used["read"] + 1 /\ used["read"] \in Nat
        BY <2>4, CountSteps DEF ObserveSenderFallback, TypeOK, Counted
      <3> QED
        BY <3>1, FaultsStay DEF FreshOrKept
    <2>5. ASSUME pc' = "bind"
          PROVE  run'.jobUID \in {None, sender'.uid}
      <3>1. CASE ObserveSenderFallback
        <4>1. sender' = cached.job /\ cached.job # None
          BY <2>5, <3>1 DEF ObserveSenderFallback, ObserveSender, Goto, Refused
        <4> QED
          BY <2>1, <2>4, <3>1, <4>1 DEF KeptInv
      <3> QED
        BY <1>1, <2>1, <2>5, <3>1, BindSteps DEF BindingInv
    <2>6. ASSUME pc' = "finish"
          PROVE  run'.jobUID = sender'.uid
      <3>1. CASE ObserveSenderFallback
        <4>1. sender' = cached.job /\ sender' # None /\ cached.run.jobUID = sender'.uid
          BY <2>6, <3>1 DEF ObserveSenderFallback, ObserveSender, Goto, Refused
        <4>2. sender'.uid # None
          BY <4>1, ConstantsAssumption DEF TypeOK, Jobs
        <4> QED
          BY <1>1, <2>1, <4>1, <4>2 DEF BindingInv
      <3> QED
        BY <1>1, <1>3, <2>1, <2>6, <3>1, FinishSteps DEF BindingInv
    <2> QED
      BY <2>2, <2>3, <2>5, <2>6
  <1> QED
    BY <1>2, <1>3

LEMMA SuccessNext ==
    ASSUME ControllerInv, [Next]_vars, FreshOrKept'
    PROVE  SuccessIsEarned'
  <1> SUFFICES ASSUME run'.phase = "Succeeded"
               PROVE  run'.jobUID \in succeeded'
    BY DEF SuccessIsEarned
  <1> USE DEF ControllerInv
  <1>1. FreshOrKept /\ succeeded \subseteq succeeded'
    BY FaultsStay
  <1>2. CASE run.phase = "Succeeded"
    <2>1. run.jobUID \in succeeded /\ run.jobUID # None
      BY <1>1, <1>2, ConstantsAssumption DEF SuccessIsEarned, TypeOK
    <2>2. CASE BindSenderJobIdentity
      BY <1>1, <2>1, <2>2, BindWrites DEF BindingInv, BindSenderJobIdentity
    <2> QED
      BY <1>1, <2>1, <2>2, BindingWriters
  <1>3. CASE run.phase # "Succeeded"
    <2>1. FinishFromSenderJob /\ SenderSucceeded
      BY <1>3, SuccessWriters
    <2>2. run.jobUID = sender.uid /\ sender.uid \in succeeded
      BY <1>1, <2>1
         DEF BindingInv, HonestJobs, LocalsInv, FinishFromSenderJob, SenderSucceeded
    <2> QED
      BY <1>1, <2>1, <2>2, BindingWriters DEF FinishFromSenderJob, BindSenderJobIdentity
  <1> QED
    BY <1>2, <1>3

LEMMA ControllerInit == Init => ControllerInv
  <1> SUFFICES ASSUME Init PROVE ControllerInv
    OBVIOUS
  <1>1. TypeOK /\ LocalsInv
    BY TypeInit
  <1>2. /\ run = NewRun /\ base = NewRun /\ cached.run = NewRun /\ pc = "idle"
        /\ job = None /\ sender = None /\ cached.job = None /\ cached.task = None
    BY DEF Init
  <1>3. run.jobUID = None /\ run.phase = ""
    BY <1>2 DEF NewRun
  <1> QED
    BY <1>1, <1>2, <1>3, NewRunTyped
       DEF ControllerInv, HonestJobs, OwnJobs, FreshInv, KeptInv, BindingInv,
           SuccessIsEarned, Starting

LEMMA ControllerNext == ControllerInv /\ [Next]_vars => ControllerInv'
  BY TypeNext, LocalsNext, HonestNext, OwnJobsNext, FreshNext, KeptNext, BindingNext,
     SuccessNext DEF ControllerInv

-----------------------------------------------------------------------------
(* The theorems.                                                            *)

\* The inductive invariant: copies of a run know its binding or none, and the
\* Job on which a reconciliation decides is the one that the run is bound to.
THEOREM ControllerInvariant == Spec => []ControllerInv
  BY ControllerInit, ControllerNext, PTL DEF Spec

\* finishFromSenderJob: a run reports Succeeded only when the exact Job that its
\* status is bound to completed, however far every cache lags, until a swallowed
\* status read and a deleted child come together.
THEOREM SuccessOnlyIfEarned ==
    Spec => [](FreshOrKept => SuccessIsEarned)
  <1>1. ControllerInv => (FreshOrKept => SuccessIsEarned)
    BY DEF ControllerInv
  <1> QED
    BY <1>1, ControllerInvariant, PTL

\* bindSenderJobIdentity: under the same condition the Job UID in the status is
\* bound once, however old the run is that a reconciliation works on.
THEOREM BindingIsFinal ==
    Spec /\ []FreshOrKept => BoundOnce
  <1>1. ASSUME ControllerInv, FreshOrKept, [Next]_vars
        PROVE  [run.jobUID # None => run'.jobUID = run.jobUID]_vars
    <2> SUFFICES ASSUME run.jobUID # None, run'.jobUID # run.jobUID
                 PROVE  FALSE
      BY DEF vars
    <2> USE DEF ControllerInv
    <2>1. BindSenderJobIdentity
      BY <1>1, BindingWriters
    <2>2. run.jobUID = sender.uid
      BY <1>1, <2>1 DEF BindingInv, BindSenderJobIdentity
    <2> QED
      BY <1>1, <2>1, <2>2, BindWrites
  <1> QED
    BY <1>1, ControllerInvariant, PTL DEF Spec, BoundOnce

\* ensureRunJob: under the same condition no second sender Job is created for a
\* run that is bound, whatever the cached run and the cached Job show.
THEOREM OneSenderOnly ==
    Spec /\ []FreshOrKept => SenderNeverRecreated
  <1>1. ASSUME ControllerInv, FreshOrKept, [Next]_vars
        PROVE  [run.jobUID # None => ~JobCreated]_vars
    <2> SUFFICES ASSUME run.jobUID # None, JobCreated
                 PROVE  FALSE
      BY DEF vars, JobCreated
    <2> USE DEF ControllerInv
    <2>1. /\ pc = "createJob" /\ cached.job = None /\ job = None
      BY <1>1, JobCreators DEF EnsureRunJob
    <2>2. used["delete"] # 0
      BY <2>1, <1>1 DEF KeptInv
    <2> QED
      BY <1>1, <2>1, <2>2 DEF FreshOrKept, FreshInv, Starting, LocalsInv
  <1> QED
    BY <1>1, ControllerInvariant, PTL DEF Spec, SenderNeverRecreated

\* reconcileRunReceiveTaskLease: a renewal never moves the lease of a task that
\* the receiver has ended meanwhile, because the Update carries the version of the
\* task that was found alive.
THEOREM RenewalNeverRevives == Spec => RenewalSparesTerminal
  <1>1. ASSUME ControllerInv, [Next]_vars
        PROVE  [lease # "long" /\ lease' = "long" /\ task' = task =>
                  task.phase \notin TaskTerminal]_vars
    <2> SUFFICES ASSUME lease # "long", lease' = "long", task' = task
                 PROVE  task.phase \notin TaskTerminal
      BY DEF vars, env
    <2>1. RenewLease
      BY <1>1, LeaseWriters DEF ControllerInv
    <2> QED
      BY <1>1, <2>1 DEF RenewLease, SameTaskVersion, ControllerInv, LocalsInv
  <1> QED
    BY <1>1, ControllerInvariant, PTL DEF Spec, RenewalSparesTerminal

\* Whoever deletes children and takes their names, at whatever moment: no lease of a
\* foreign task is renewed and no host key written into a foreign Secret, because
\* both Updates carry the version of an object found to be the run's own, and the
\* run is bound only to a Job that the controller created
\* (reconcileRunReceiveTaskLease, ensureRunKnownHosts, bindSenderJobIdentity).
THEOREM ForeignChildrenSafe == Spec => ForeignNotTakenOver
  <1> DEFINE NoLease  == lease # "long" /\ lease' = "long" /\ task' = task => task.own
             NoHosts  == secret # None /\ ~secret.own /\ secret' # None =>
                           secret' = secret
             OwnBound == run'.jobUID # run.jobUID => run'.jobUID \in 1..used["job"]
  <1>1. ASSUME ControllerInv, [Next]_vars
        PROVE  NoLease /\ NoHosts /\ OwnBound
    <2> USE DEF ControllerInv
    <2>1. NoLease
      <3> SUFFICES ASSUME lease # "long", lease' = "long", task' = task
                   PROVE  task.own
        OBVIOUS
      <3>1. RenewLease /\ SameTaskVersion
        BY <1>1, LeaseWriters
      <3> QED
        BY <1>1, <3>1 DEF RenewLease, SameTaskVersion, LocalsInv
    <2>2. NoHosts
      <3> SUFFICES ASSUME secret # None, ~secret.own, secret' # None, secret' # secret
                   PROVE  FALSE
        OBVIOUS
      <3>1. EnsureKnownHosts
        BY <1>1, SecretWriters
           DEF DeleteRunSSHSecret, DeleteChild, PlaceForeignChild
      <3> QED
        BY <3>1 DEF EnsureKnownHosts, SameSecretVersion, Refused
    <2>3. OwnBound
      <3> SUFFICES ASSUME run'.jobUID # run.jobUID
                   PROVE  run'.jobUID \in 1..used["job"]
        OBVIOUS
      <3>1. BindSenderJobIdentity
        BY <1>1, BindingWriters
      <3>2. sender # None /\ sender.own
        BY <1>1, <3>1 DEF BindSenderJobIdentity, LocalsInv
      <3> QED
        BY <1>1, <3>1, <3>2, BindWrites DEF OwnJobs
    <2> QED
      BY <2>1, <2>2, <2>3
  <1>2. ControllerInv /\ [Next]_vars => [NoLease /\ NoHosts /\ OwnBound]_vars
    BY <1>1
  <1> QED
    BY <1>2, ControllerInvariant, PTL DEF Spec, ForeignNotTakenOver
=============================================================================
