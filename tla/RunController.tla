---------------------------- MODULE RunController ----------------------------
(***************************************************************************)
(* ZFSReplicationRunReconciler.Reconcile for one ZFSReplicationRun.        *)
(*                                                                         *)
(* Every kind of object exists twice: as the API server holds it (run,     *)
(* secret, task, job) and as the controller's informer cache holds it      *)
(* (cached.run, ...).  The caches lag and catch up independently.  r.Get   *)
(* reads the cache, r.APIReader.Get the API server.  Reconcile is cut into *)
(* steps of some reads and at most one write, so other writers, cache      *)
(* deliveries and failures come between any two writes.                    *)
(*                                                                         *)
(* A merge patch writes the fields that differ from the object Reconcile   *)
(* started from and carries no resource version; an Update carries one.    *)
(***************************************************************************)
EXTENDS Naturals, FiniteSets

CONSTANTS
    None,         \* no such object, no such value
    MaxJobs,      \* bound: sender Jobs ever created
    MaxKeys,      \* bound: SSH Secrets ever created
    MaxTasks,     \* bound: Receive Tasks ever created
    MaxPods,      \* bound: incarnations of the receiver Pod
    MaxAgings,    \* bound: times a lease comes closer to its deadline
    MaxLocks,     \* bound: times another run takes the destination
    MaxDeletes,   \* bound: children deleted by someone else
    MaxForeign,   \* bound: same-name objects created by someone else
    MaxErrors,    \* bound: API calls that fail and end a reconciliation
    MaxReadErrors \* bound: status reads whose error the code swallows

ASSUME ConstantsAssumption ==
    /\ {MaxJobs, MaxKeys, MaxTasks, MaxPods, MaxAgings, MaxLocks, MaxDeletes,
        MaxForeign, MaxErrors, MaxReadErrors} \subseteq Nat
    /\ None \notin Nat

VARIABLES
    run,     \* API server: status of the run
    secret,  \* API server: the SSH Secret under the run's name
    task,    \* API server: the Receive Task under the run's name
    job,     \* API server: the sender Job under the run's name
    lease,   \* how far the task's expiresAt is away
    cached,  \* informer cache: one entry per kind
    pc,      \* where Reconcile is
    base,    \* the run object this Reconcile works on
    sender,  \* the Job it found in the cache, or None
    seen,    \* the Receive Task it last read from the API server, or None
    outcome, \* the phase markReceiveTaskTerminal is to write
    queued,  \* the run's request is in the work queue
    valid,   \* validateRunSpec accepts the (immutable) spec
    locked,  \* destinationLocked finds an active run to wait for
    pod,     \* UID of the receiver Pod that is ready now
    used,    \* how often each bounded thing has happened
    succeeded \* UIDs of Jobs that completed successfully

api  == <<run, secret, task, job>>
mem  == <<base, sender, seen, outcome>>
ctx  == <<valid, locked, pod>>
env  == <<ctx, lease>>
vars == <<api, cached, pc, mem, queued, env, used, succeeded>>

-----------------------------------------------------------------------------
(* Types.                                                                   *)

RunTerminal  == {"Succeeded", "Failed"}
RunPhases    == {"", "Pending", "StartingReceiver", "ReceiverReady", "Running"}
                \cup RunTerminal
TaskTerminal == {"Completed", "Failed"}
UIDs == Nat \cup {None}

Runs    == [phase : RunPhases, jobUID : UIDs, pod : UIDs]
Secrets == [own : BOOLEAN, key : Nat, hosts : UIDs]
ReceiveTasks ==
    [own : BOOLEAN, uid : Nat, key : Nat, pod : UIDs,
     phase : {"Pending", "Ready"} \cup TaskTerminal]
Jobs == [own : BOOLEAN, uid : Nat, pod : UIDs,
         state : {"active", "succeeded", "failed"}]

ASSUME NoneAssumption == None \notin Secrets /\ None \notin ReceiveTasks /\ None \notin Jobs

Counted == {"job", "key", "task", "aging", "lock", "delete", "foreign", "error",
            "read"}
Steps == {"idle", "bind", "finish", "lease", "renew", "running", "children",
          "wait", "ready", "hosts", "patchReady", "eligible", "createJob",
          "fail", "markTask", "deleteSecret"}

TypeOK ==
    /\ run \in Runs
    /\ secret \in Secrets \cup {None}
    /\ task \in ReceiveTasks \cup {None}
    /\ job \in Jobs \cup {None}
    /\ lease \in {"long", "due", "lapsed"}
    /\ cached \in [run : Runs, secret : Secrets \cup {None},
                   task : ReceiveTasks \cup {None}, job : Jobs \cup {None}]
    /\ pc \in Steps
    /\ base \in Runs
    /\ sender \in Jobs \cup {None}
    /\ seen \in ReceiveTasks \cup {None}
    /\ outcome \in TaskTerminal
    /\ queued \in BOOLEAN
    /\ valid \in BOOLEAN
    /\ locked \in BOOLEAN
    /\ pod \in Nat
    /\ used \in [Counted -> Nat]
    /\ succeeded \subseteq Nat

-----------------------------------------------------------------------------
(* Helpers.                                                                 *)

\* The bounds of the model, by what they count.
Bound == [job |-> MaxJobs, key |-> MaxKeys, task |-> MaxTasks,
          aging |-> MaxAgings, lock |-> MaxLocks, delete |-> MaxDeletes, foreign |-> MaxForeign,
          error |-> MaxErrors, read |-> MaxReadErrors]

Count(what) ==
    /\ used[what] < Bound[what]
    /\ used' = [used EXCEPT ![what] = @ + 1]

\* Mutant: the whole status is written, not only what changed.
WholeStatusPatch(new) == run' = new

\* patchRunStatus: a merge patch from `base` to `new`, applied to the run as
\* the API server has it.
MergePatch(new) ==
    run' = [f \in DOMAIN run |-> IF new[f] # base[f] THEN new[f] ELSE run[f]]

\* runChildRefusal of an existing child: it has another controller owner.  A child
\* that is being deleted, which it refuses too, is not a state of its own here.
Refused(child) == child # None /\ ~child.own

\* receiveTaskLeaseRefusal.
LeaseRefused(t) == t.phase \in TaskTerminal \/ lease = "lapsed"

\* Mutant: the run's phase is used as it is.
TaskPhaseUnmapped(phase) == phase

\* ReceiveTaskTerminalPhase.
TaskPhaseOf(phase) == IF phase = "Succeeded" THEN "Completed" ELSE "Failed"

\* Reconcile goes on to another step.
Goto(step) == pc' = step

NewRun == [phase |-> "", jobUID |-> None, pod |-> None]

\* Reconcile returns and its locals go out of scope; `again` when it asks for
\* a requeue or returns an error.
Return(again) ==
    /\ pc' = "idle"
    /\ queued' = (queued \/ again)
    /\ base' = NewRun
    /\ sender' = None
    /\ seen' = None
    /\ outcome' = "Failed"

\* The common tail: end the task with this phase, then delete the Secret.
CleanUp(phase) ==
    /\ pc' = "markTask"
    /\ outcome' = phase
    /\ base' = NewRun
    /\ sender' = None
    /\ seen' = None

-----------------------------------------------------------------------------
Init ==
    /\ run = NewRun
    /\ secret = None
    /\ task = None
    /\ job = None
    /\ lease = "long"
    /\ cached = [run |-> run, secret |-> None, task |-> None, job |-> None]
    /\ pc = "idle"
    /\ base = NewRun
    /\ sender = None
    /\ seen = None
    /\ outcome = "Failed"
    /\ queued = TRUE
    /\ valid \in BOOLEAN
    /\ locked \in BOOLEAN
    /\ pod = 1
    /\ used = [c \in Counted |-> 0]
    /\ succeeded = {}

-----------------------------------------------------------------------------
(* Reconcile, from the cached run to the sender Job.                        *)

\* Mutant: a terminal run is left alone.
IgnoreTerminalRun ==
    /\ pc = "idle" /\ queued
    /\ cached.run.phase \in RunTerminal
    /\ queued' = FALSE
    /\ UNCHANGED <<api, cached, pc, mem, env, used, succeeded>>

\* reconcileTerminalRun.
ReconcileTerminalRun ==
    /\ pc = "idle" /\ queued
    /\ cached.run.phase \in RunTerminal
    /\ queued' = FALSE
    /\ CleanUp(TaskPhaseOf(cached.run.phase))
    /\ UNCHANGED <<api, cached, env, used, succeeded>>

\* failRunValidation: the patch is all it does; the terminal phase brings the
\* run back for cleanup.
FailRunValidation ==
    /\ pc = "idle" /\ queued
    /\ cached.run.phase \notin RunTerminal
    /\ ~valid
    /\ queued' = FALSE
    /\ run' = [f \in DOMAIN run |->
                 IF f = "phase" THEN "Failed" ELSE run[f]]
    /\ UNCHANGED <<secret, task, job, cached, pc, mem, env, used, succeeded>>

\* Mutant: no requeue while the destination is taken.
WaitForDestinationEvent ==
    /\ pc = "idle" /\ queued
    /\ cached.run.phase \notin RunTerminal
    /\ valid
    /\ locked
    /\ queued' = FALSE
    /\ run' = [run EXCEPT !.phase =
                 IF cached.run.phase # "Pending" THEN "Pending" ELSE @]
    /\ UNCHANGED <<secret, task, job, cached, pc, mem, env, used, succeeded>>

\* destinationLocked: back to Pending, whatever the run was doing, and a
\* requeue after five seconds.
WaitForDestination ==
    /\ pc = "idle" /\ queued
    /\ cached.run.phase \notin RunTerminal
    /\ valid
    /\ locked
    /\ run' = [run EXCEPT !.phase =
                 IF cached.run.phase # "Pending" THEN "Pending" ELSE @]
    /\ UNCHANGED <<secret, task, job, cached, pc, mem, queued, env, used,
                   succeeded>>

\* observedRunStatus and senderJobForRun: `status` is the status read from the
\* API server, or the cached one when that read fails.
ObserveSender(status) ==
    /\ pc = "idle" /\ queued
    /\ cached.run.phase \notin RunTerminal
    /\ valid
    /\ ~locked
    /\ queued' = FALSE
    /\ base' = cached.run
    /\ sender' = IF Refused(cached.job) THEN None ELSE cached.job
    /\ LET bound == status.jobUID
           found == cached.job
       IN  Goto(IF Refused(found) THEN "fail"
                ELSE IF found = None THEN IF bound # None THEN "fail" ELSE "lease"
                ELSE IF bound = None THEN "bind"
                ELSE IF bound # found.uid THEN "fail" ELSE "finish")
    /\ UNCHANGED <<api, cached, seen, outcome, env, succeeded>>

\* Mutant: the binding is taken from the cached run.
ObserveSenderCached == ObserveSender(cached.run) /\ UNCHANGED used

ObserveSenderFresh == ObserveSender(run) /\ UNCHANGED used

ObserveSenderFallback == ObserveSender(cached.run) /\ Count("read")

\* bindSenderJobIdentity, and the in-memory copy of the binding.
BindSenderJobIdentity ==
    /\ pc = "bind"
    /\ LET bound == [base EXCEPT !.jobUID =
                       IF @ = None THEN sender.uid ELSE @]
       IN  MergePatch(bound)
    /\ base' = [base EXCEPT !.jobUID = sender.uid]
    /\ Goto("finish")
    /\ UNCHANGED <<secret, task, job, cached, sender, seen, outcome, queued,
                   env, used, succeeded>>

\* Mutant: whatever has not failed has succeeded.
SenderNotFailed == sender.state # "failed"

SenderSucceeded == sender.state = "succeeded"

\* finishFromSenderJob.
FinishFromSenderJob ==
    /\ pc = "finish"
    /\ \/ /\ sender.state = "failed"
          /\ Goto("fail")
          /\ UNCHANGED <<run, mem>>
       \/ /\ SenderSucceeded
          /\ MergePatch([base EXCEPT !.phase = "Succeeded"])
          /\ CleanUp("Completed")
       \/ /\ sender.state # "failed" /\ ~SenderSucceeded
          /\ Goto("lease")
          /\ UNCHANGED <<run, mem>>
    /\ UNCHANGED <<secret, task, job, cached, queued, env, used, succeeded>>

AfterLease == IF sender # None THEN "running" ELSE "children"

\* reconcileRunReceiveTaskLease up to the decision: fresh run, fresh task.
ReconcileReceiveTaskLease ==
    /\ pc = "lease"
    /\ LET step == IF run.phase \in RunTerminal \/ task = None THEN AfterLease
                   ELSE IF Refused(task) \/ LeaseRefused(task) THEN "fail"
                   ELSE IF lease = "due" THEN "renew" ELSE AfterLease
       IN  Goto(step) /\ seen' = IF step = "renew" THEN task ELSE None
    /\ UNCHANGED <<api, cached, base, sender, outcome, queued, env, used,
                   succeeded>>

\* Mutant: the renewal carries no resource version.
AnyTaskVersion == task # None

\* The Update that moves expiresAt: refused if the task changed since it was
\* read (the lease running on is not a change of the object).
SameTaskVersion == task = seen

RenewLease ==
    /\ pc = "renew"
    /\ \/ /\ SameTaskVersion
          /\ lease' = "long"
          /\ Goto(AfterLease)
          /\ seen' = None
          /\ UNCHANGED <<base, sender, outcome, queued>>
       \/ /\ ~SameTaskVersion
          /\ Return(TRUE)
          /\ UNCHANGED lease
    /\ UNCHANGED <<run, secret, task, job, cached, ctx, used, succeeded>>

\* With a sender Job present: report Running and come back for the lease.
PatchRunning ==
    /\ pc = "running"
    /\ MergePatch([base EXCEPT !.phase = "Running"])
    /\ Return(TRUE)
    /\ UNCHANGED <<secret, task, job, cached, env, used, succeeded>>

\* ensurePreSenderChildren: one missing child is created per reconciliation,
\* from the cached view; AlreadyExists counts as created.
CreateSecret ==
    /\ pc = "children"
    /\ cached.secret = None
    /\ cached.task = None
    /\ IF secret = None
         THEN /\ Count("key")
              /\ secret' = [own |-> TRUE, key |-> used'["key"], hosts |-> None]
         ELSE UNCHANGED <<secret, used>>
    /\ Goto("wait")
    /\ UNCHANGED <<run, task, job, cached, mem, queued, env, succeeded>>

CreateReceiveTask ==
    /\ pc = "children"
    /\ cached.secret # None /\ ~Refused(cached.secret)
    /\ cached.task = None
    /\ IF task = None
         THEN /\ Count("task")
              /\ task' = [own |-> TRUE, uid |-> used'["task"],
                          key |-> cached.secret.key, pod |-> None,
                          phase |-> "Pending"]
              /\ lease' = "long"
         ELSE UNCHANGED <<task, lease, used>>
    /\ Goto("wait")
    /\ UNCHANGED <<run, secret, job, cached, mem, queued, ctx, succeeded>>

\* A foreign child, a task without its Secret, or a task with another key.
ChildrenRefused ==
    \/ Refused(cached.secret)
    \/ Refused(cached.task)
    \/ cached.task # None /\ cached.secret = None
    \/ /\ cached.task # None /\ cached.secret # None
       /\ cached.task.key # cached.secret.key

CheckChildren ==
    /\ pc = "children"
    /\ \/ ChildrenRefused /\ Goto("fail")
       \/ /\ ~ChildrenRefused /\ cached.task # None
          /\ Goto("ready")
    /\ UNCHANGED <<api, cached, mem, queued, env, used, succeeded>>

\* waitForReplicationReceiver.
WaitForReplicationReceiver ==
    /\ pc = "wait"
    /\ MergePatch([base EXCEPT !.phase = "StartingReceiver"])
    /\ Return(TRUE)
    /\ UNCHANGED <<secret, task, job, cached, env, used, succeeded>>

\* readyReceiveTask and exactReceiverPodReady: the cached task names the UID,
\* everything else is read from the API server.
ReadyReceiveTask ==
    /\ pc = "ready"
    /\ \/ /\ cached.task = None          \* the Get returns NotFound
          /\ Return(TRUE)
       \/ /\ cached.task # None
          /\ LET step ==
                   IF Refused(cached.task) THEN "fail"
                   ELSE IF task = None \/ task.uid # cached.task.uid THEN "wait"
                   ELSE IF Refused(task) \/ LeaseRefused(task) THEN "fail"
                   ELSE IF task.phase = "Ready" /\ task.pod = pod THEN "hosts"
                   ELSE "wait"
             IN  Goto(step) /\ seen' = IF step = "hosts" THEN task ELSE None
          /\ UNCHANGED <<base, sender, outcome, queued>>
    /\ UNCHANGED <<api, cached, env, used, succeeded>>

\* Mutant: any host key in the Secret will do.
SomeHostsKnown == cached.secret # None /\ cached.secret.hosts # None

\* ensureRunKnownHosts: the Update carries the version of the cached Secret.
HostsKnown == cached.secret # None /\ cached.secret.hosts = seen.pod

\* Mutant: the Update carries no resource version.
AnySecretVersion == secret # None

SameSecretVersion == secret # None /\ secret = cached.secret

EnsureKnownHosts ==
    /\ pc = "hosts"
    /\ \/ /\ Refused(cached.secret)
          /\ Goto("fail")
          /\ UNCHANGED <<secret, mem, queued>>
       \/ /\ ~Refused(cached.secret)
          /\ HostsKnown
          /\ Goto("patchReady")
          /\ UNCHANGED <<secret, mem, queued>>
       \/ /\ ~Refused(cached.secret)
          /\ ~HostsKnown /\ SameSecretVersion
          /\ secret' = [secret EXCEPT !.hosts = seen.pod]
          /\ Goto("patchReady")
          /\ UNCHANGED <<mem, queued>>
       \/ /\ ~Refused(cached.secret)
          /\ ~HostsKnown /\ ~SameSecretVersion   \* NotFound or a conflict
          /\ Return(TRUE)
          /\ UNCHANGED secret
    /\ UNCHANGED <<run, task, job, cached, env, used, succeeded>>

PatchReceiverReady ==
    /\ pc = "patchReady"
    /\ MergePatch([base EXCEPT !.phase = "ReceiverReady", !.pod = seen.pod])
    /\ Goto("eligible")
    /\ UNCHANGED <<secret, task, job, cached, mem, queued, env, used, succeeded>>

\* receiveTaskEligibleForSender: one more fresh look at the task.
ReceiveTaskEligible ==
    /\ pc = "eligible"
    /\ Goto(IF task = None \/ task.uid # seen.uid THEN "wait"
            ELSE IF LeaseRefused(task) THEN "fail" ELSE "createJob")
    /\ UNCHANGED <<api, cached, mem, queued, env, used, succeeded>>

\* ensureRunJob: a Job in the cache, or AlreadyExists, only asks for a recheck.
EnsureRunJob ==
    /\ pc = "createJob"
    /\ IF cached.job = None /\ job = None
         THEN /\ Count("job")
              /\ job' = [own |-> TRUE, uid |-> used'["job"], pod |-> seen.pod,
                         state |-> "active"]
         ELSE UNCHANGED <<job, used>>
    /\ Return(TRUE)
    /\ UNCHANGED <<run, secret, task, cached, env, succeeded>>

-----------------------------------------------------------------------------
(* The failure and cleanup tail of Reconcile.                               *)

\* failRunObject: the status patch.
FailRunObject ==
    /\ pc = "fail"
    /\ MergePatch([base EXCEPT !.phase = "Failed"])
    /\ CleanUp("Failed")
    /\ UNCHANGED <<secret, task, job, cached, queued, env, used, succeeded>>

\* markReceiveTaskTerminal decides on the cached task and patches by name; the
\* error of a task that is gone is joined with what deleteRunSSHSecret returns.
MarkReceiveTaskTerminal ==
    /\ pc = "markTask"
    /\ LET patches == /\ cached.task # None /\ ~Refused(cached.task)
                      /\ cached.task.phase # outcome
       IN  /\ task' = IF patches /\ task # None
                        THEN [task EXCEPT !.phase = outcome] ELSE task
           /\ queued' = (queued \/ (patches /\ task = None))
    /\ Goto("deleteSecret")
    /\ UNCHANGED <<run, secret, job, cached, mem, env, used, succeeded>>

\* deleteRunSSHSecret decides on the cached Secret and deletes by name.
DeleteRunSSHSecret ==
    /\ pc = "deleteSecret"
    /\ secret' = IF cached.secret # None /\ ~Refused(cached.secret)
                   THEN None ELSE secret
    /\ Return(FALSE)
    /\ UNCHANGED <<run, task, job, cached, env, used, succeeded>>

-----------------------------------------------------------------------------
(* Failures of the controller's API calls, and crashes.                     *)

\* An API call returns an error, or the manager restarts: this reconciliation
\* ends and the request comes back.
Abort ==
    /\ pc \notin {"idle", "markTask"}
    /\ Count("error")
    /\ Return(TRUE)
    /\ UNCHANGED <<api, cached, env, succeeded>>

\* The task patch fails; errors.Join still deletes the Secret.
MarkReceiveTaskFails ==
    /\ pc = "markTask"
    /\ Count("error")
    /\ queued' = TRUE
    /\ Goto("deleteSecret")
    /\ UNCHANGED <<api, cached, mem, env, succeeded>>

-----------------------------------------------------------------------------
(* The rest of the cluster.                                                 *)

\* A watch event reaches the cache and enqueues the run.
Sync(kind, object) ==
    /\ cached[kind] # object
    /\ cached' = [cached EXCEPT ![kind] = object]
    /\ queued' = TRUE
    /\ UNCHANGED <<api, pc, mem, env, used, succeeded>>

Deliver ==
    \/ Sync("run", run)
    \/ Sync("secret", secret)
    \/ Sync("task", task)
    \/ Sync("job", job)

\* The receiver of the ready Pod reports that the task's grant is active.
ReceiverReportsReady ==
    /\ task # None
    /\ task.phase \notin TaskTerminal
    /\ task.phase = "Pending" \/ task.pod # pod
    /\ lease # "lapsed"
    /\ task' = [task EXCEPT !.phase = "Ready", !.pod = pod]
    /\ UNCHANGED <<run, secret, job, cached, pc, mem, queued, env, used,
                   succeeded>>

\* The receiver rejects the task or reports that its lease lapsed.
ReceiverReportsFailed ==
    /\ task # None
    /\ task.phase \notin TaskTerminal
    /\ task' = [task EXCEPT !.phase = "Failed"]
    /\ UNCHANGED <<run, secret, job, cached, pc, mem, queued, env, used,
                   succeeded>>

LeaseRunsOn ==
    /\ task # None
    /\ lease # "lapsed"
    /\ Count("aging")
    /\ lease' = IF lease = "long" THEN "due" ELSE "lapsed"
    /\ UNCHANGED <<run, secret, task, job, cached, pc, mem, queued, ctx,
                   succeeded>>

\* The Job controller runs Syncoid once (backoffLimit 0).
JobEnds(state) ==
    /\ job # None /\ job.own
    /\ job.state = "active"
    /\ job' = [job EXCEPT !.state = state]
    /\ succeeded' = IF state = "succeeded" THEN succeeded \cup {job.uid}
                    ELSE succeeded
    /\ UNCHANGED <<run, secret, task, cached, pc, mem, queued, env, used>>

\* A user deletes a child, or TTL cleanup removes a finished Job.
DeleteChild ==
    /\ Count("delete")
    /\ \/ secret # None /\ secret' = None /\ UNCHANGED <<task, job>>
       \/ task # None /\ task' = None /\ UNCHANGED <<secret, job>>
       \/ job # None /\ job' = None /\ UNCHANGED <<secret, task>>
    /\ UNCHANGED <<run, cached, pc, mem, queued, env, succeeded>>

\* Someone else creates an object under a child's name.
PlaceForeignChild ==
    /\ Count("foreign")
    /\ \/ /\ secret = None
          /\ secret' = [own |-> FALSE, key |-> 0, hosts |-> None]
          /\ UNCHANGED <<task, job, lease>>
       \/ /\ task = None
          /\ task' = [own |-> FALSE, uid |-> 0, key |-> 0, pod |-> None,
                      phase |-> "Pending"]
          /\ lease' = "long"
          /\ UNCHANGED <<secret, job>>
       \/ /\ job = None
          /\ job' = [own |-> FALSE, uid |-> 0, pod |-> None, state |-> "active"]
          /\ UNCHANGED <<secret, task, lease>>
    /\ UNCHANGED <<run, cached, pc, mem, queued, ctx, succeeded>>

\* The receiver Pod is replaced; the new one has another UID and host key.
ReplacePod ==
    /\ pod < MaxPods
    /\ pod' = pod + 1
    /\ UNCHANGED <<api, cached, pc, mem, queued, valid, locked, lease, used,
                   succeeded>>

TakeDestination ==
    /\ ~locked
    /\ Count("lock")
    /\ locked' = TRUE
    /\ UNCHANGED <<api, cached, pc, mem, queued, valid, pod, lease, succeeded>>

FreeDestination ==
    /\ locked
    /\ locked' = FALSE
    /\ UNCHANGED <<api, cached, pc, mem, queued, valid, pod, lease, used,
                   succeeded>>

-----------------------------------------------------------------------------
Reconcile ==
    \/ ReconcileTerminalRun
    \/ FailRunValidation
    \/ WaitForDestination
    \/ ObserveSenderFresh
    \/ BindSenderJobIdentity
    \/ FinishFromSenderJob
    \/ ReconcileReceiveTaskLease
    \/ RenewLease
    \/ PatchRunning
    \/ CreateSecret
    \/ CreateReceiveTask
    \/ CheckChildren
    \/ WaitForReplicationReceiver
    \/ ReadyReceiveTask
    \/ EnsureKnownHosts
    \/ PatchReceiverReady
    \/ ReceiveTaskEligible
    \/ EnsureRunJob
    \/ FailRunObject
    \/ MarkReceiveTaskTerminal
    \/ DeleteRunSSHSecret

Fault == ObserveSenderFallback \/ Abort \/ MarkReceiveTaskFails

Cluster ==
    \/ ReceiverReportsReady
    \/ ReceiverReportsFailed
    \/ LeaseRunsOn
    \/ \E state \in {"succeeded", "failed"} : JobEnds(state)
    \/ DeleteChild
    \/ PlaceForeignChild
    \/ ReplacePod
    \/ TakeDestination
    \/ FreeDestination

Next == Reconcile \/ Fault \/ Deliver \/ Cluster

Spec == Init /\ [][Next]_vars

\* The worker, the watches and the Job controller keep going, the receiver
\* answers a task that waits, and the run that holds the destination ends.
Fairness ==
    /\ WF_vars(Reconcile)
    /\ WF_vars(Sync("run", run))
    /\ WF_vars(Sync("secret", secret))
    /\ WF_vars(Sync("task", task))
    /\ WF_vars(Sync("job", job))
    /\ WF_vars(ReceiverReportsReady)
    /\ WF_vars(\E state \in {"succeeded", "failed"} : JobEnds(state))
    /\ WF_vars(FreeDestination)

FairSpec == Spec /\ Fairness

-----------------------------------------------------------------------------
(* Properties.                                                              *)

\* A run reports Succeeded only when the exact Job its status is bound to
\* completed successfully, whatever the caches showed meanwhile.
SuccessIsEarned == run.phase = "Succeeded" => run.jobUID \in succeeded

\* The Job UID in the status is bound once and kept for the run's lifetime.
BoundOnce == [][run.jobUID # None => run'.jobUID = run.jobUID]_vars

JobCreated == used'["job"] # used["job"]

\* Once the status is bound to a Job no other sender Job is created, not even
\* when that Job is deleted while the cached run still shows no binding.
SenderNeverRecreated == [][run.jobUID # None => ~JobCreated]_vars

\* When the sender Job is created, the Secret it mounts is the run's own, holds
\* the host key of the receiver Pod the Job connects to and the private key of
\* the run's own Receive Task: stale caches, replaced Pods and foreign objects
\* under the children's names never start a sender that cannot connect.
SenderCanConnect ==
    [][JobCreated => /\ secret # None /\ secret.own
                     /\ task # None /\ task.own
                     /\ secret.hosts = job'.pod
                     /\ secret.key = task.key]_vars

\* A lease is never moved forward on a task that is already terminal: the
\* receiver's report wins over a renewal computed before it.
RenewalSparesTerminal ==
    [][lease # "long" /\ lease' = "long" /\ task' = task =>
         task.phase \notin TaskTerminal]_vars

\* A run recorded as Succeeded stays Succeeded, though reconciliations go on
\* from cached runs that are not there yet; in particular the later
\* disappearance of its Job does not turn it into a failure.
SuccessIsKept == [][run.phase = "Succeeded" => run'.phase = "Succeeded"]_vars

\* A lease refusal found after the bound Job completed successfully does not
\* fail the run: completed work needs no lease any more.
CompletedWorkStands ==
    [][pc = "lease" /\ pc' = "fail" => run.jobUID \notin succeeded]_vars

\* A child may be deleted and its name taken by someone else between the check of
\* the child and the write.  Still what the run does not own is not taken over: no
\* lease of a foreign task is renewed, no host key goes into a foreign Secret, and
\* the Job that the status is bound to is one that this controller created.
ForeignNotTakenOver ==
    [][/\ lease # "long" /\ lease' = "long" /\ task' = task => task.own
       /\ secret # None /\ ~secret.own /\ secret' # None => secret' = secret
       /\ run'.jobUID # run.jobUID => run'.jobUID \in 1..used["job"]]_vars

\* The cleanup leaves alone what the run does not own, too: a foreign Receive Task,
\* though markReceiveTaskTerminal patches the phase by name.
ForeignTaskUntouched ==
    [][pc' # pc /\ task # None /\ ~task.own => task' = task]_vars

\* And a foreign SSH Secret, though deleteRunSSHSecret deletes by name.
ForeignSecretUntouched ==
    [][pc' # pc /\ secret # None /\ ~secret.own => secret' = secret]_vars

\* When a run has ended, its task ends and its SSH Secret goes.
ChildrenCleanedUp ==
    run.phase \in RunTerminal ~>
        /\ task # None /\ task.own => task.phase \in TaskTerminal
        /\ secret # None => ~secret.own

\* Every run ends and stays ended, with Succeeded or Failed: no requeue, watch
\* event or retry is lost on the way, and a terminal phase that a reconciliation
\* with a stale cached run overwrites is restored.
RunSettles == <>[](run.phase \in RunTerminal)
=============================================================================
