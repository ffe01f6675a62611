------------------------- MODULE SenderConnectProofs -------------------------
(***************************************************************************)
(* SenderCanConnect, for any number of Jobs, keys, tasks, Pods, foreign    *)
(* objects and faults, as long as nobody else deletes a child.             *)
(*                                                                         *)
(* The controller deletes the Secret when a run ends, and may go on from   *)
(* stale caches afterwards.  What keeps it from starting a sender without  *)
(* the Secret is that each cause of the end (Doomed) is permanent and is   *)
(* found by a later read of the API server; and a run that is not doomed   *)
(* has never lost its Secret.                                              *)
(***************************************************************************)
EXTENDS RunControllerProofs

\* A run that will not get a sender any more.
Doomed ==
    \/ ~valid
    \/ job # None
    \/ task # None /\ \/ ~task.own
                      \/ task.phase \in TaskTerminal
                      \/ lease = "lapsed" /\ pc # "renew"
    \/ /\ secret # None /\ ~secret.own
       /\ cached.secret # None => ~cached.secret.own
       /\ task = None

\* The cached Secret is the one that is there, or an older version of it.
SecretLags ==
    cached.secret # None =>
      /\ secret # None /\ secret.own = cached.secret.own
      /\ secret.key = cached.secret.key
      /\ cached.secret.hosts # None =>
           secret.hosts # None /\ cached.secret.hosts <= secret.hosts

\* The run has its Secret, which belongs to its task.
ChildrenMatch ==
    /\ task # None /\ task.own
    /\ secret # None /\ secret.own
    /\ secret.key = task.key

Connecting == {"hosts", "patchReady", "eligible", "createJob"}

\* No run has ended whose sender could still be created.
TailInv ==
    \/ pc \in {"fail", "markTask", "deleteSecret"}
    \/ run.phase \in RunTerminal
    \/ cached.run.phase \in RunTerminal
    => Doomed

HealthyInv ==
    ~Doomed => /\ SecretLags
               /\ task # None => ChildrenMatch /\ cached.secret # None

\* The Pod and the host keys: what is known is not newer than the Pod.
HostsInv ==
    /\ secret # None /\ secret.hosts # None => secret.hosts <= pod
    /\ pc \in Connecting => seen.pod \in Nat /\ seen.pod <= pod

\* From the fresh look at the task to the creation of the Job.
ConnectingInv ==
    pc \in Connecting /\ job = None =>
      /\ ChildrenMatch
      /\ pc = "hosts" => /\ SecretLags
                         /\ secret.hosts # None => secret.hosts <= seen.pod
      /\ pc # "hosts" => secret.hosts = seen.pod

ConnectInv ==
    used["delete"] = 0 =>
      /\ pc \notin {"idle", "markTask", "deleteSecret"} => valid
      /\ cached.task # None => task.key = cached.task.key
      /\ TailInv
      /\ HealthyInv
      /\ HostsInv
      /\ ConnectingInv

-----------------------------------------------------------------------------
(* Who writes what.                                                         *)

LEMMA ContextStays ==
    ASSUME TypeOK, [Next]_vars
    PROVE  valid' = valid /\ pod' \in Nat /\ pod <= pod'
  <1>1. CASE ReplacePod
    BY <1>1 DEF ReplacePod, TypeOK
  <1>2. CASE ~ReplacePod
    <2>1. valid' = valid /\ pod' = pod
      BY <1>2
         DEF vars, ctx, env, Next, Reconcile, Fault, Deliver, Cluster, Sync,
             ReconcileTerminalRun, FailRunValidation, WaitForDestination,
             ObserveSenderFresh, ObserveSenderFallback, ObserveSender,
             BindSenderJobIdentity, FinishFromSenderJob, ReconcileReceiveTaskLease,
             RenewLease, PatchRunning, CreateSecret, CreateReceiveTask,
             CheckChildren, WaitForReplicationReceiver, ReadyReceiveTask,
             EnsureKnownHosts, PatchReceiverReady, ReceiveTaskEligible,
             EnsureRunJob, FailRunObject, MarkReceiveTaskTerminal,
             DeleteRunSSHSecret, Abort, MarkReceiveTaskFails, ReceiverReportsReady,
             ReceiverReportsFailed, LeaseRunsOn, JobEnds, DeleteChild,
             PlaceForeignChild, TakeDestination, FreeDestination
    <2> QED
      BY <2>1 DEF TypeOK
  <1> QED
    BY <1>1, <1>2

\* A run with an invalid spec gets no further than its validation.
LEMMA ValidSteps ==
    ASSUME [Next]_vars, pc' \notin {"idle", "markTask", "deleteSecret"},
           pc \in {"idle", "markTask", "deleteSecret"}
    PROVE  valid
  BY DEF Goto, AfterLease, Return, CleanUp, vars, Next, Reconcile, Fault, Deliver, Cluster, Sync,
         ReconcileTerminalRun, FailRunValidation, WaitForDestination,
         ObserveSenderFresh, ObserveSenderFallback, ObserveSender,
         BindSenderJobIdentity, FinishFromSenderJob, ReconcileReceiveTaskLease,
         RenewLease, PatchRunning, CreateSecret, CreateReceiveTask,
         CheckChildren, WaitForReplicationReceiver, ReadyReceiveTask,
         EnsureKnownHosts, PatchReceiverReady, ReceiveTaskEligible,
         EnsureRunJob, FailRunObject, MarkReceiveTaskTerminal,
         DeleteRunSSHSecret, Abort, MarkReceiveTaskFails, ReceiverReportsReady,
         ReceiverReportsFailed, LeaseRunsOn, JobEnds, DeleteChild,
         PlaceForeignChild, ReplacePod, TakeDestination, FreeDestination

\* A delivery leaves everything but the cache alone.
LEMMA DeliverOnly ==
    ASSUME TypeOK, [Next]_vars
    PROVE  /\ cached'.secret \in {cached.secret, secret}
           /\ cached' # cached => UNCHANGED <<secret, pc, seen, lease, pod>>
  <1>1. CASE Deliver
    BY <1>1 DEF Deliver, Sync, TypeOK, api, mem, ctx, env
  <1> QED
    BY <1>1, CacheWriters

\* reconcileRunReceiveTaskLease alone begins a renewal, of a lease that is due.
LEMMA RenewSteps ==
    ASSUME [Next]_vars, pc' = "renew"
    PROVE  pc = "renew" \/ lease = "due"
  BY DEF Goto, AfterLease, Return, CleanUp, vars, Next, Reconcile, Fault, Deliver, Cluster, Sync,
         ReconcileTerminalRun, FailRunValidation, WaitForDestination,
         ObserveSenderFresh, ObserveSenderFallback, ObserveSender,
         BindSenderJobIdentity, FinishFromSenderJob, ReconcileReceiveTaskLease,
         RenewLease, PatchRunning, CreateSecret, CreateReceiveTask,
         CheckChildren, WaitForReplicationReceiver, ReadyReceiveTask,
         EnsureKnownHosts, PatchReceiverReady, ReceiveTaskEligible,
         EnsureRunJob, FailRunObject, MarkReceiveTaskTerminal,
         DeleteRunSSHSecret, Abort, MarkReceiveTaskFails, ReceiverReportsReady,
         ReceiverReportsFailed, LeaseRunsOn, JobEnds, DeleteChild,
         PlaceForeignChild, ReplacePod, TakeDestination, FreeDestination

\* A lapsed lease comes back only by a renewal that was decided before.
LEMMA LapseStays ==
    ASSUME [Next]_vars, lease = "lapsed", lease' # "lapsed"
    PROVE  pc = "renew" \/ task = None
  BY DEF vars, ctx, env, Next, Reconcile, Fault, Deliver, Cluster, Sync,
         ReconcileTerminalRun, FailRunValidation, WaitForDestination,
         ObserveSenderFresh, ObserveSenderFallback, ObserveSender,
         BindSenderJobIdentity, FinishFromSenderJob, ReconcileReceiveTaskLease,
         RenewLease, PatchRunning, CreateSecret, CreateReceiveTask,
         CheckChildren, WaitForReplicationReceiver, ReadyReceiveTask,
         EnsureKnownHosts, PatchReceiverReady, ReceiveTaskEligible,
         EnsureRunJob, FailRunObject, MarkReceiveTaskTerminal,
         DeleteRunSSHSecret, Abort, MarkReceiveTaskFails, ReceiverReportsReady,
         ReceiverReportsFailed, LeaseRunsOn, JobEnds, DeleteChild,
         PlaceForeignChild, ReplacePod, TakeDestination, FreeDestination

\* The way to a sender begins with a fresh look at the task.
LEMMA ConnectSteps ==
    ASSUME [Next]_vars, pc' \in Connecting
    PROVE  \/ pc \in Connecting /\ seen' = seen /\ pc' = "hosts" /\ pc = "hosts"
           \/ pc \in Connecting /\ seen' = seen /\ pc' # "hosts" /\ pc # "hosts"
           \/ pc = "hosts" /\ EnsureKnownHosts /\ seen' = seen /\ pc' # "hosts"
           \/ /\ ReadyReceiveTask /\ pc' = "hosts" /\ seen' = task
              /\ task # None /\ ~Refused(task) /\ ~LeaseRefused(task)
              /\ task.pod = pod
  BY DEF Goto, AfterLease, Return, CleanUp, mem, vars, Connecting, Next, Reconcile, Fault, Deliver, Cluster, Sync,
         ReconcileTerminalRun, FailRunValidation, WaitForDestination,
         ObserveSenderFresh, ObserveSenderFallback, ObserveSender,
         BindSenderJobIdentity, FinishFromSenderJob, ReconcileReceiveTaskLease,
         RenewLease, PatchRunning, CreateSecret, CreateReceiveTask,
         CheckChildren, WaitForReplicationReceiver, ReadyReceiveTask,
         EnsureKnownHosts, PatchReceiverReady, ReceiveTaskEligible,
         EnsureRunJob, FailRunObject, MarkReceiveTaskTerminal,
         DeleteRunSSHSecret, Abort, MarkReceiveTaskFails, ReceiverReportsReady,
         ReceiverReportsFailed, LeaseRunsOn, JobEnds, DeleteChild,
         PlaceForeignChild, ReplacePod, TakeDestination, FreeDestination

\* The causes of the end of a run.
LEMMA TailSteps ==
    ASSUME [Next]_vars, pc' \in {"fail", "markTask", "deleteSecret"},
           pc \notin {"fail", "markTask", "deleteSecret"}
    PROVE  \/ cached.run.phase \in RunTerminal
           \/ cached.job # None
           \/ run.jobUID # None
           \/ cached.run.jobUID # None
           \/ pc = "finish"
           \/ /\ task # None /\ pc # "renew"
              /\ Refused(task) \/ LeaseRefused(task)
           \/ Refused(cached.task)
           \/ pc = "children" /\ ChildrenRefused
           \/ pc = "hosts" /\ Refused(cached.secret)
  BY DEF Goto, AfterLease, Return, CleanUp, vars, Refused, Next, Reconcile, Fault, Deliver, Cluster, Sync,
         ReconcileTerminalRun, FailRunValidation, WaitForDestination,
         ObserveSenderFresh, ObserveSenderFallback, ObserveSender,
         BindSenderJobIdentity, FinishFromSenderJob, ReconcileReceiveTaskLease,
         RenewLease, PatchRunning, CreateSecret, CreateReceiveTask,
         CheckChildren, WaitForReplicationReceiver, ReadyReceiveTask,
         EnsureKnownHosts, PatchReceiverReady, ReceiveTaskEligible,
         EnsureRunJob, FailRunObject, MarkReceiveTaskTerminal,
         DeleteRunSSHSecret, Abort, MarkReceiveTaskFails, ReceiverReportsReady,
         ReceiverReportsFailed, LeaseRunsOn, JobEnds, DeleteChild,
         PlaceForeignChild, ReplacePod, TakeDestination, FreeDestination

LEMMA TerminalWriters ==
    ASSUME TypeOK, LocalsInv, [Next]_vars,
           run'.phase \in RunTerminal, run.phase \notin RunTerminal
    PROVE  ~valid \/ pc = "finish" \/ pc = "fail"
  <1> SUFFICES ASSUME valid, pc # "finish", pc # "fail" PROVE FALSE
    OBVIOUS
  <1> USE DEF TypeOK, RunPhases, RunTerminal
  <1>1. CASE WaitForDestination
    BY <1>1 DEF WaitForDestination, Runs
  <1>2. CASE PatchRunning
    BY <1>2, PhasePatch DEF PatchRunning
  <1>3. CASE WaitForReplicationReceiver
    BY <1>3, PhasePatch DEF WaitForReplicationReceiver
  <1>4. CASE PatchReceiverReady
    BY <1>4, ReadyPatch DEF PatchReceiverReady, LocalsInv
  <1>5. CASE BindSenderJobIdentity
    BY <1>5, BindWrites
  <1> QED
    BY <1>1, <1>2, <1>3, <1>4, <1>5
       DEF vars, api, Next, Reconcile, Fault, Deliver, Cluster, Sync,
         ReconcileTerminalRun, FailRunValidation, ObserveSenderFresh, ObserveSenderFallback, ObserveSender,
         FinishFromSenderJob, ReconcileReceiveTaskLease,
         RenewLease, CreateSecret, CreateReceiveTask,
         CheckChildren, ReadyReceiveTask,
         EnsureKnownHosts, ReceiveTaskEligible,
         EnsureRunJob, FailRunObject, MarkReceiveTaskTerminal,
         DeleteRunSSHSecret, Abort, MarkReceiveTaskFails, ReceiverReportsReady,
         ReceiverReportsFailed, LeaseRunsOn, JobEnds, DeleteChild,
         PlaceForeignChild, ReplacePod, TakeDestination, FreeDestination

\* As long as nobody deletes children, the Secret goes by deleteRunSSHSecret only,
\* and ensureRunKnownHosts alone changes it.
LEMMA SecretStays ==
    ASSUME TypeOK, LocalsInv, [Next]_vars, used'["delete"] = 0,
           secret # None, pc # "deleteSecret"
    PROVE  /\ secret' # None /\ secret'.own = secret.own /\ secret'.key = secret.key
           /\ \/ secret' = secret
              \/ EnsureKnownHosts /\ cached.secret = secret /\ secret'.hosts = seen.pod
  <1>1. ~DeleteChild
    BY NoDeletion
  <1>2. CASE secret' = secret
    BY <1>2
  <1>3. CASE secret' # secret
    <2>1. EnsureKnownHosts
      BY <1>1, <1>3, SecretWriters DEF DeleteRunSSHSecret, PlaceForeignChild
    <2>2. /\ secret' = [secret EXCEPT !.hosts = seen.pod]
          /\ secret \in Secrets /\ cached.secret = secret
      BY <1>3, <2>1 DEF EnsureKnownHosts, SameSecretVersion, TypeOK
    <2>3. seen.pod \in UIDs
      BY <2>1 DEF EnsureKnownHosts, LocalsInv, TypeOK, ReceiveTasks
    <2>4. /\ secret' \in Secrets /\ secret'.own = secret.own
          /\ secret'.key = secret.key /\ secret'.hosts = seen.pod
      BY <2>2, <2>3 DEF Secrets
    <2> QED
      BY <2>1, <2>2, <2>4, NoneAssumption
  <1> QED
    BY <1>2, <1>3

\* A version of the Secret is not newer than itself.
LEMMA HostsReflexive ==
    ASSUME TypeOK, secret # None, secret.hosts # None
    PROVE  secret.hosts <= secret.hosts
  BY DEF TypeOK, Secrets, UIDs

-----------------------------------------------------------------------------
(* The invariant is kept.                                                   *)

LEMMA DoomedStays ==
    ASSUME TypeOK, LocalsInv, [Next]_vars, used'["delete"] = 0, Doomed
    PROVE  Doomed'
  <1>1. CASE ~valid
    BY <1>1, ContextStays DEF Doomed
  <1>2. CASE job # None
    BY <1>2, ChildrenStay DEF Doomed
  <1>3. CASE task # None /\ (~task.own \/ task.phase \in TaskTerminal)
    BY <1>3, ChildrenStay DEF Doomed
  <1>4. CASE task # None /\ lease = "lapsed" /\ pc # "renew"
    BY <1>4, ChildrenStay, LapseStays, RenewSteps DEF Doomed
  <1>5. CASE /\ secret # None /\ ~secret.own
             /\ cached.secret # None => ~cached.secret.own
             /\ task = None
    <2>1. secret' = secret
      BY <1>5, NoDeletion, SecretWriters
         DEF EnsureKnownHosts, SameSecretVersion, Refused, DeleteRunSSHSecret,
             PlaceForeignChild
    <2>2. cached'.secret # None => ~cached'.secret.own
      BY <1>5, DeliverOnly
    <2>3. CASE task' = None
      BY <1>5, <2>1, <2>2, <2>3 DEF Doomed
    <2>4. CASE task' # None
      <3>1. PlaceForeignChild
        BY <1>5, <2>4, NoDeletion, TaskWriters
           DEF CreateReceiveTask, Refused, MarkReceiveTaskTerminal,
               ReceiverReportsReady, ReceiverReportsFailed
      <3>2. ~task'.own
        BY <1>5, <2>4, <3>1 DEF PlaceForeignChild
      <3> QED
        BY <2>4, <3>2 DEF Doomed
    <2> QED
      BY <2>3, <2>4
  <1> QED
    BY <1>1, <1>2, <1>3, <1>4, <1>5 DEF Doomed

LEMMA TailNext ==
    ASSUME ControllerInv, ConnectInv, [Next]_vars, used'["delete"] = 0
    PROVE  TailInv'
  <1> USE DEF ControllerInv
  <1>1. used["delete"] = 0
    BY FaultsStay
  <1>2. TailInv /\ HealthyInv
    BY <1>1 DEF ConnectInv
  <1>3. Doomed => TailInv'
    BY DoomedStays DEF TailInv
  <1>4. ASSUME ~Doomed PROVE TailInv'
    <2>1. /\ pc \notin {"fail", "markTask", "deleteSecret"}
          /\ run.phase \notin RunTerminal
          /\ cached.run.phase \notin RunTerminal
      BY <1>2, <1>4 DEF TailInv
    <2>2. job = None /\ valid
      BY <1>4 DEF Doomed
    <2>3. /\ cached.job = None /\ run.jobUID = None /\ cached.run.jobUID = None
          /\ sender = None
      BY <1>1, <2>2 DEF KeptInv, BindingInv, FreshOrKept
    <2>4. pc # "finish"
      BY <2>3 DEF LocalsInv
    <2>5. ~Refused(cached.task) /\ ~ChildrenRefused /\ ~Refused(cached.secret)
      <3>1. cached.task # None => /\ task # None /\ task.own = cached.task.own
                                  /\ task.key = cached.task.key
        BY <1>1 DEF KeptInv, ConnectInv
      <3>2. SecretLags /\ (task # None => ChildrenMatch /\ cached.secret # None)
        BY <1>2, <1>4 DEF HealthyInv
      <3>3. ~Refused(cached.task)
        BY <1>4, <3>1 DEF Refused, Doomed
      <3>4. ~Refused(cached.secret)
        BY <1>4, <3>2 DEF Refused, Doomed, SecretLags, ChildrenMatch
      <3> QED
        BY <3>1, <3>2, <3>3, <3>4
           DEF ChildrenRefused, SecretLags, ChildrenMatch
    <2>6. ~(task # None /\ pc # "renew" /\ (Refused(task) \/ LeaseRefused(task)))
      BY <1>4 DEF Doomed, Refused, LeaseRefused
    <2>7. pc' \notin {"fail", "markTask", "deleteSecret"}
      BY <2>1, <2>3, <2>4, <2>5, <2>6, TailSteps
    <2>8. run'.phase \notin RunTerminal
      BY <2>1, <2>2, <2>4, TerminalWriters
    <2>9. cached'.run.phase \notin RunTerminal
      BY <2>1, CacheReads
    <2> QED
      BY <2>7, <2>8, <2>9 DEF TailInv
  <1> QED
    BY <1>3, <1>4

LEMMA HealthyNext ==
    ASSUME ControllerInv, ConnectInv, [Next]_vars, used'["delete"] = 0
    PROVE  HealthyInv'
  <1> SUFFICES ASSUME ~Doomed'
               PROVE  /\ SecretLags'
                      /\ task' # None => ChildrenMatch' /\ cached'.secret # None
    BY DEF HealthyInv
  <1> USE DEF ControllerInv
  <1>1. used["delete"] = 0
    BY FaultsStay
  <1>2. ~Doomed
    BY DoomedStays
  <1>3. /\ SecretLags /\ job = None
        /\ task # None => ChildrenMatch /\ cached.secret # None
    BY <1>1, <1>2 DEF ConnectInv, HealthyInv, Doomed
  <1>4. pc # "deleteSecret"
    BY <1>1, <1>2 DEF ConnectInv, TailInv
  <1>5. secret # None =>
          /\ secret' # None /\ secret'.own = secret.own /\ secret'.key = secret.key
    BY <1>4, SecretStays
  <1>6. SecretLags'
    <2>1. CASE cached' # cached
      BY <1>3, <2>1, DeliverOnly, HostsReflexive DEF SecretLags
    <2>2. CASE cached' = cached /\ secret' = secret
      BY <1>3, <2>2 DEF SecretLags
    <2>3. CASE cached' = cached /\ secret' # secret
      <3> SUFFICES ASSUME cached.secret # None
                   PROVE  SecretLags'
        BY <2>3 DEF SecretLags
      <3>1. /\ EnsureKnownHosts /\ cached.secret = secret /\ secret'.hosts = seen.pod
            /\ secret # None
        BY <1>3, <1>4, <2>3, SecretStays DEF SecretLags
      <3>2. /\ pc = "hosts" /\ seen.pod \in Nat
            /\ secret.hosts # None => secret.hosts <= seen.pod
        BY <1>1, <1>3, <3>1
           DEF EnsureKnownHosts, ConnectInv, HostsInv, ConnectingInv, Connecting
      <3> QED
        BY <1>5, <2>3, <3>1, <3>2, ConstantsAssumption DEF SecretLags
    <2> QED
      BY <2>1, <2>2, <2>3
  <1>7. ASSUME task' # None
        PROVE  ChildrenMatch' /\ cached'.secret # None
    <2>1. CASE task # None
      BY <1>3, <1>5, <2>1, ChildrenStay, DeliverOnly DEF ChildrenMatch
    <2>2. CASE task = None
      <3>1. CreateReceiveTask
        BY <1>7, <2>2, NoDeletion, TaskWriters
           DEF Doomed, PlaceForeignChild, MarkReceiveTaskTerminal,
               ReceiverReportsReady, ReceiverReportsFailed
      <3>2. /\ cached.secret # None /\ cached.secret.own /\ cached' = cached
            /\ task'.own /\ task'.key = cached.secret.key /\ secret' = secret
        BY <2>2, <3>1 DEF CreateReceiveTask, Refused
      <3> QED
        BY <1>3, <1>7, <3>2 DEF SecretLags, ChildrenMatch
    <2> QED
      BY <2>1, <2>2
  <1> QED
    BY <1>6, <1>7

LEMMA HostsNext ==
    ASSUME ControllerInv, HostsInv, [Next]_vars, used'["delete"] = 0
    PROVE  HostsInv'
  <1> USE DEF ControllerInv
  <1>1. pod \in Nat /\ pod' \in Nat /\ pod <= pod'
    BY ContextStays DEF TypeOK
  <1>2. ASSUME secret' # None, secret'.hosts # None
        PROVE  secret'.hosts <= pod'
    <2>1. CASE secret' = secret
      <3>1. secret.hosts \in Nat /\ secret.hosts <= pod
        BY <1>2, <2>1 DEF HostsInv, TypeOK, Secrets, UIDs
      <3> QED
        BY <1>1, <2>1, <3>1
    <2>2. CASE secret = None /\ secret' # secret
      <3>1. CreateSecret \/ PlaceForeignChild
        BY <1>2, <2>2, NoDeletion, SecretWriters
           DEF EnsureKnownHosts, SameSecretVersion, DeleteRunSSHSecret
      <3>2. secret'.hosts = None
        BY <2>2, <3>1 DEF CreateSecret, PlaceForeignChild
      <3> QED
        BY <1>2, <3>2
    <2>3. CASE secret # None /\ secret' # secret
      <3>1. EnsureKnownHosts /\ secret'.hosts = seen.pod
        <4>1. pc # "deleteSecret"
          BY <1>2, <2>3, NoDeletion, SecretWriters
             DEF CreateSecret, EnsureKnownHosts, DeleteRunSSHSecret,
                 PlaceForeignChild
        <4> QED
          BY <2>3, <4>1, SecretStays
      <3>2. seen.pod \in Nat /\ seen.pod <= pod
        BY <3>1 DEF EnsureKnownHosts, HostsInv, Connecting
      <3> QED
        BY <1>1, <3>1, <3>2
    <2> QED
      BY <2>1, <2>2, <2>3
  <1>3. ASSUME pc' \in Connecting
        PROVE  seen'.pod \in Nat /\ seen'.pod <= pod'
    <2>1. seen'.pod \in Nat /\ seen'.pod <= pod
      BY <1>1, <1>3, ConnectSteps DEF HostsInv, Connecting
    <2> QED
      BY <1>1, <2>1
  <1> QED
    BY <1>2, <1>3 DEF HostsInv

LEMMA ConnectingNext ==
    ASSUME ControllerInv, ConnectInv, [Next]_vars, used'["delete"] = 0
    PROVE  ConnectingInv'
  <1> SUFFICES ASSUME pc' \in Connecting, job' = None
               PROVE  /\ ChildrenMatch'
                      /\ pc' = "hosts" =>
                           /\ SecretLags'
                           /\ secret'.hosts # None => secret'.hosts <= seen'.pod
                      /\ pc' # "hosts" => secret'.hosts = seen'.pod
    BY DEF ConnectingInv
  <1> USE DEF ControllerInv
  <1>1. used["delete"] = 0 /\ job = None
    BY FaultsStay, ChildrenStay
  <1>2. HealthyInv /\ HostsInv /\ ConnectingInv /\ (pc = "ready" => valid)
    BY <1>1 DEF ConnectInv
  <1>3. ASSUME pc \in Connecting
        PROVE  /\ ChildrenMatch /\ ChildrenMatch'
               /\ \/ secret' = secret
                  \/ EnsureKnownHosts /\ secret'.hosts = seen.pod
    <2>1. ChildrenMatch
      BY <1>1, <1>2, <1>3 DEF ConnectingInv
    <2>2. pc # "deleteSecret"
      BY <1>3 DEF Connecting
    <2> QED
      BY <2>1, <2>2, ChildrenStay, SecretStays DEF ChildrenMatch
  <1>4. CASE pc = "hosts" /\ pc' = "hosts" /\ seen' = seen
    <2>1. pc \in Connecting
      BY <1>4 DEF Connecting
    <2>2. ~EnsureKnownHosts
      BY <1>4 DEF EnsureKnownHosts, Goto, Return
    <2>3. secret' = secret
      BY <1>3, <2>1, <2>2
    <2>4. SecretLags /\ (secret.hosts # None => secret.hosts <= seen.pod)
      BY <1>1, <1>2, <1>4, <2>1 DEF ConnectingInv
    <2>5. SecretLags'
      BY <2>3, <2>4, DeliverOnly, HostsReflexive DEF SecretLags
    <2> QED
      BY <1>3, <1>4, <2>1, <2>3, <2>4, <2>5
  <1>5. CASE pc \in Connecting /\ pc # "hosts" /\ pc' # "hosts" /\ seen' = seen
    <2>1. secret' = secret
      BY <1>3, <1>5 DEF EnsureKnownHosts
    <2> QED
      BY <1>1, <1>2, <1>3, <1>5, <2>1 DEF ConnectingInv
  <1>6. CASE pc = "hosts" /\ EnsureKnownHosts /\ seen' = seen /\ pc' # "hosts"
    <2>1. pc \in Connecting
      BY <1>6 DEF Connecting
    <2>2. /\ SecretLags /\ ChildrenMatch
          /\ secret.hosts # None => secret.hosts <= seen.pod
      BY <1>1, <1>2, <1>6, <2>1 DEF ConnectingInv
    <2>3. pc' = "patchReady"
      BY <1>6 DEF EnsureKnownHosts, Goto, Return, Connecting
    <2>4. CASE secret' # secret
      BY <1>3, <1>6, <2>1, <2>4
    <2>5. CASE secret' = secret
      <3>1. \/ HostsKnown
            \/ secret' = [secret EXCEPT !.hosts = seen.pod]
        BY <1>6, <2>3 DEF EnsureKnownHosts, Goto, Return
      <3>2. CASE HostsKnown
        <4>1. seen.pod \in Nat
          BY <1>2, <2>1 DEF HostsInv
        <4>2. /\ cached.secret # None /\ cached.secret.hosts = seen.pod
              /\ secret.hosts # None /\ seen.pod <= secret.hosts
          BY <2>2, <3>2, <4>1, ConstantsAssumption DEF HostsKnown, SecretLags
        <4>3. secret.hosts \in Nat
          BY <2>2, <4>2 DEF ChildrenMatch, TypeOK, Secrets, UIDs
        <4>4. secret.hosts = seen.pod
          BY <2>2, <4>1, <4>2, <4>3
        <4> QED
          BY <1>3, <1>6, <2>1, <2>5, <4>4
      <3>3. CASE secret' = [secret EXCEPT !.hosts = seen.pod]
        <4>1. secret'.hosts = seen.pod
          BY <2>2, <3>3 DEF ChildrenMatch, TypeOK, Secrets
        <4> QED
          BY <1>3, <1>6, <2>1, <4>1
      <3> QED
        BY <3>1, <3>2, <3>3
    <2> QED
      BY <2>4, <2>5
  <1>7. CASE /\ ReadyReceiveTask /\ pc' = "hosts" /\ seen' = task
             /\ task # None /\ ~Refused(task) /\ ~LeaseRefused(task)
             /\ task.pod = pod
    <2>1. /\ pc = "ready" /\ secret' = secret /\ task' = task /\ cached' = cached
      BY <1>7 DEF ReadyReceiveTask, api
    <2>2. ~Doomed
      BY <1>1, <1>2, <1>7, <2>1 DEF Doomed, Refused, LeaseRefused
    <2>3. SecretLags /\ ChildrenMatch
      BY <1>2, <1>7, <2>2 DEF HealthyInv
    <2>4. secret.hosts # None => secret.hosts <= pod
      BY <1>2, <2>3 DEF HostsInv, ChildrenMatch
    <2> QED
      BY <1>7, <2>1, <2>3, <2>4 DEF SecretLags, ChildrenMatch
  <1> QED
    BY <1>4, <1>5, <1>6, <1>7, ConnectSteps

LEMMA ConnectInit == Init => ConnectInv
  <1> SUFFICES ASSUME Init PROVE ConnectInv
    OBVIOUS
  <1>1. /\ pc = "idle" /\ secret = None /\ task = None
        /\ cached.secret = None /\ cached.task = None
    BY DEF Init
  <1>2. run = NewRun /\ cached.run = NewRun
    BY DEF Init
  <1>3. NewRun.phase = ""
    BY DEF NewRun
  <1> QED
    BY <1>1, <1>2, <1>3
       DEF ConnectInv, TailInv, HealthyInv, HostsInv, ConnectingInv, SecretLags,
           Connecting, RunTerminal

LEMMA ConnectNext ==
    ControllerInv /\ ConnectInv /\ [Next]_vars => ConnectInv'
  <1> SUFFICES ASSUME ControllerInv, ConnectInv, [Next]_vars, used'["delete"] = 0
               PROVE  /\ pc' \notin {"idle", "markTask", "deleteSecret"} => valid'
                      /\ cached'.task # None => task'.key = cached'.task.key
                      /\ TailInv' /\ HealthyInv' /\ HostsInv' /\ ConnectingInv'
    BY DEF ConnectInv
  <1> USE DEF ControllerInv
  <1>1. used["delete"] = 0
    BY FaultsStay
  <1>2. pc' \notin {"idle", "markTask", "deleteSecret"} => valid'
    BY <1>1, ValidSteps, ContextStays DEF ConnectInv
  <1>3. cached'.task # None => task'.key = cached'.task.key
    BY <1>1, CacheReads, ChildrenStay DEF KeptInv, ConnectInv
  <1>4. HostsInv'
    BY <1>1, HostsNext DEF ConnectInv
  <1> QED
    BY <1>2, <1>3, <1>4, TailNext, HealthyNext, ConnectingNext

-----------------------------------------------------------------------------
\* ensureRunKnownHosts to ensureRunJob: as long as nobody else deletes a child, the
\* sender Job is created only next to the run's own Secret, which holds the host
\* key of the Pod that the Job connects to and the key of the run's own task; for
\* any lag of the caches and any number of replaced Pods, foreign objects and
\* faults.
THEOREM SenderConnects ==
    Spec /\ [](used["delete"] = 0) => SenderCanConnect
  <1>1. Spec => [](ControllerInv /\ ConnectInv)
    BY ControllerInit, ControllerNext, ConnectInit, ConnectNext, PTL DEF Spec
  <1>2. ASSUME ControllerInv, ConnectInv, used["delete"] = 0, [Next]_vars
        PROVE  [JobCreated => /\ secret # None /\ secret.own
                              /\ task # None /\ task.own
                              /\ secret.hosts = job'.pod
                              /\ secret.key = task.key]_vars
    <2> SUFFICES ASSUME JobCreated
                 PROVE  /\ ChildrenMatch
                        /\ secret.hosts = job'.pod
      BY DEF ChildrenMatch
    <2> USE <1>2 DEF ControllerInv
    <2>1. EnsureRunJob /\ job = None /\ cached.job = None
      BY JobCreators
    <2>2. pc = "createJob" /\ job'.pod = seen.pod
      BY <2>1 DEF EnsureRunJob
    <2> QED
      BY <2>1, <2>2 DEF ConnectInv, ConnectingInv, Connecting
  <1> QED
    BY <1>1, <1>2, PTL DEF Spec, SenderCanConnect
=============================================================================
