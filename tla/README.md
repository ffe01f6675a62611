# A TLA+ model of the ZFS replication controller

The controller replicates ZFS datasets between the nodes of a Kubernetes
cluster. A `ZFSReplicationRun` asks for one replication. The run controller gives
it an SSH key (a Secret), a `ZFSReceiveTask` for the target node and, once the
receiver of that node reports the task Ready, a sender Job that runs Syncoid.
The receiver daemon turns all tasks of its node into one authorization snapshot
that sshd and the forced commands enforce. A `ZFSReplicationSchedule` creates
runs at the ticks of a cron expression.

This project models the parts in which order, staleness and failure decide
correctness: the receiver's authorization, the run controller, the lock between
runs, the schedule controller, the processes behind a forced command, and the
contract between Syncoid on one side and the receiver's command policy on the
other.

## Inventory

| Part | State | Operations | Interacts with |
|---|---|---|---|
| Receiver authorization (`internal/receiverauthorization/{grant,snapshot}.go`) | `authorized_keys` manifest, generation directories, UIDs seen to lapse | `Reset`, `Replace` (compile, activate, clean up) | called by the daemon; read by sshd and forced commands |
| Receiver daemon (`cmd/zfsrep-receiver`) | informer cache, one work-queue key, startup progress | `StartInitial`, `Reconcile`, start of sshd, exit | tasks in the API server; sshd |
| Forced-command admission (`authorization.go`, `forced_command.go`) | none but the process itself | `Admit`, `Execute` | manifest and generation on disk |
| Run controller (`internal/controller/zfsreplication_run_controller.go`) | run status; Secret, task and Job it owns | `Reconcile` | API server and caches; receiver through the task; Job controller |
| Destination lock (same file) | none: a list of runs | `destinationLocked` | all runs of the namespace |
| Schedule controller (`zfsreplication_schedule_controller.go`) | schedule status, scheduled runs | due time, `Forbid`, create, prune | creates and deletes runs |
| Command policy (`command_parse.go`, `command_authorize.go`), Syncoid contract (`internal/syncoid`) | none | parse and authorize a command; translate a spec | the grant carries the policy |
| Pipeline execution (`command_exec.go`) | child processes | start, cancel, wait | forced command |
| Sender runtime (`cmd/zfsrep-sender`, `internal/syncoidruntime`) | Syncoid process | run, exit code, message | the Job's outcome |

What is hard here:

* every decision mixes cached reads, fresh reads and writes without a lock, and
  other writers act in between;
* authority on the receiver changes while sessions are being admitted;
* leases expire by three clocks' worth of rounding (API deadline, OpenSSH's whole
  seconds, requeue timers) and are renewed by another process;
* the daemon and the manager crash and restart between any two steps, and
  publication, cleanup and status reports fail independently;
* runs exclude each other without a lock object, from lists that lag and creation
  times of one second's resolution;
* the processes of a pipeline start, fail and block in any order;
* what Syncoid sends depends on the target's state and on how its earlier
  commands ended, while the policy that admits it is fixed beforehand.

`PROJECT.json` lists these hazards one by one at the line where they bite.

What makes each part correct: the active generation is whole, a lapse is final,
authority ends with the lease or the revocation, a key selects one grant, Ready
means active, and withdrawals and lapses are eventually acted on (receiver); the
Job binding is kept, success belongs to the bound Job, one sender per run, a
sender that can connect, no foreign object taken over, every run ends and is cleaned up
(run controller); one receiver per overlapping destination, and nobody
waits for ever (lock); one run per tick at most and in order, `Forbid` respected,
history bounded, every tick handled (schedule); every failure reported, nothing
left running, always an answer (pipeline); whatever Syncoid sends for a run is
admitted, and nothing a client sends touches more than the run allows (contract
and policy).

## Modules

| Module | What it is |
|---|---|
| `ReceiverAuthorization` | the receiver daemon of one node, sshd and its forced commands |
| `MCReceiverAuthorization` | key assignments and fault budgets for TLC |
| `ReceiverAuthorizationProofs` | inductive invariants and theorems about `ReceiverAuthorization` |
| `RunController` | `Reconcile` for one run over lagging caches, and the cluster around it |
| `RunControllerProofs` | the binding of a run to its Job, success, renewals, foreign objects |
| `SenderConnectProofs` | what a sender Job finds when it is created |
| `DestinationLock`, `MCDestinationLock` | `destinationLocked`: several runs that decide about each other from one lagging list |
| `DestinationLockProofs` | whose turn it is and who keeps the destination, for any number of runs |
| `TickContract` | abstract: what a schedule promises about its ticks |
| `Schedule` | the schedule controller for one schedule; implements `TickContract` |
| `ScheduleProofs` | the record, the history, `Forbid`, and that `Schedule` implements `TickContract` |
| `ReceiverPipeline` | running an admitted command: processes, pipes, cancellation |
| `ReceiverPipelineProofs` | its inductive invariant and theorems |
| `SyncoidContract` | `Translate`: a run's settings made into Syncoid arguments and into the receiver's policy |
| `CommandPolicy` | `authorizeReceiverCommand` over parsed commands; extends `SyncoidContract` |
| `SyncoidSession`, `MCSyncoidSession` | Syncoid, or any client with the key, against the policy and the datasets of the receiver |
| `SyncoidSessionProofs` | what any client can at most do |
| `SyncoidServedProofs` | that the receiver refuses nothing that Syncoid sends |

The parts meet at narrow places. `RunController` sees the lock as a destination
that others take and free; `DestinationLock` has the runs and shortens what
happens between the lock and the sender. `ReceiverAuthorization` decides who may
send a command, `CommandPolicy` which commands, `ReceiverPipeline` what becomes of
an admitted one. `SyncoidSession` composes the contract, the policy and the
sender's program.

### ReceiverAuthorization

A snapshot is named by the SHA-256 of its canonical grants, so in the model it
*is* the set of its grants. A grant keeps the task UID and the deadline; the
other policy fields are immutable per UID. `manifest` is `{}` (no file) or `{s}`;
`complete` and `partial` are the generations on disk with all files and with some
files missing.

* `phase`, `expiresAt` are the API server's tasks, `view` is the informer cache:
  0 for a task the list would not return, else its cached deadline. `SyncView`
  delivers a watch event; it always jumps to the current object, which is what a
  coalescing informer may show, and queues the one request of
  `receiverAuthorizationRequests`.
* `life` follows `run` in `main.go`: `Reset` in two steps (remove the manifest,
  remove generations and wait for the caches), the initial activation, sshd.
  `Exit` is any end of the process; the files stay, memory and sessions go.
* `pc` follows one `Reconcile`: `BeginReplace` (list, compile, record lapses),
  `ActivateUnchanged` / `MaterializeGeneration` / `RejectDamagedGeneration`,
  `CommitManifest`, one `RemoveGeneration` or `RemovalFails` per retired
  generation, `FinishReplace`, one `ReadLatest` and `PatchStatus` (or
  `ReportFails`) per candidate, `FinishReconcile` with the requeue rules.
* A forced command advances `exec -> checked -> loaded -> admitted`;
  `requireActiveSnapshot` is linearised at its read of the manifest.
* Time is in ticks, `TicksPerSecond` to a second, because OpenSSH's expiry works in
  whole seconds. At `MaxTime` the clock stops and means "this late or later", so
  every timer may fire.
* Faults are bounded per kind by `MaxFaults`.

### RunController

Every object exists twice, in the API server and in the controller's cache, and
the caches of the four kinds catch up independently (`Sync`). `Reconcile` is cut
into steps with at most one write each, so other writers, deliveries, failed
calls (`Abort`, which also stands for a restart) and status reads whose error the
code swallows (`ObserveSenderFallback`) come between any two writes. `MergePatch`
writes only the fields that differ from the run the reconciliation started from,
without a resource version, as `patchRunStatus` does; the lease renewal and the
known-hosts update carry one. `own = FALSE` marks an object with another owner.
A deletion takes an object away at once: an own child that is being deleted, which
`runChildRefusal` refuses too, is not a state of its own. The lease is `long`, `due` (renewal time reached) or
`lapsed`. A child's `key` and `hosts`, and a Job's or task's `pod`, are identities:
which key pair, and the host key of which receiver Pod.

Requeue delays are not modelled: a request that is asked for may run at once or
after anything else.

### DestinationLock

The runs share one watch, so the cached list is always a past state of the list:
`log` holds the states from the cached one to the current one, at most `MaxLag`
of them. `created` is the creation second the API server stamps; two creations
may share it. One reconciliation of a run is one step (`WaitForDestination`,
`FailRun`, `StartReceiver`, `StartSender`, `ReportSender`), decided by
`DestinationLocked` on the cached list; a single worker reconciles all runs, so
two decisions never overlap. `refused` runs meet a lapsed lease or a foreign
child: they fail while their Job goes on.

An end is not final. `reconcileRunReceiveTaskLease` skips its checks when the run, as
the API server has it, has ended already (`LeaseAccepted`), and then a reconciliation
of a cached run that is still active goes on and writes `StartingReceiver` or
`Running` over `Failed`; `WaitForDestination` may write `Pending` over any end. The
properties are what the code keeps in spite of that, see `LockRevived.cfg` below.

The model has valid runs only (`failRunValidation` ends a run before it looks at the
lock or starts anything), and no user deletes a child in it.

### Schedule and TickContract

`Ticks` stands for the cron expression, `Minute` for the resolution of
`scheduledRunName`. A reconciliation is cut where it writes: create the run (or
decide not to), patch `lastScheduleTime`, delete surplus runs. The deletions of one
pass are one step, and a pass that stops at a failed deletion is the case of `Abort`
in which some of them are done. Calls fail and the manager stops at every cut; the
deterministic name makes a repeated creation a no-op. A run ends once (`EndRun`): that
the run controller may overwrite an end for a time is left to `RunController`. `seen` is the cached schedule, `log` the list
of runs as above, `wake` the delayed request for the next tick. Users edit,
suspend or break the schedule and create runs under a scheduled run's name.

`TickContract` says that a tick gets at most one run, that runs start in the order
of their ticks, and that the record never goes back. `KeepsContract` maps
`recorded` to the schedule's `lastScheduleTime`; the other two variables are history
variables of `Schedule`. The contract needs `Forbid`, history limits of at least
one, and watches that catch up within a tick period (`PromptWatch`). With a limit
of zero (`ScheduleNoHistory.cfg`), or with runs side by side that end out of order, a pruned run can be created again by a
reconciliation that starts from an old cached schedule. A tick that was recorded as
skipped may likewise still be run by such a reconciliation; the contract allows it.

### ReceiverPipeline

One goroutine per process, a channel of results, and a context that the first
error cancels. Pipes hold `Capacity` blocks; the program keeps the read ends
open, so a process whose reader has died blocks instead of being told. The model
assumes that a filter ends well only at the end of its input, as `mbuffer`, the
decompressors and `zfs receive` do. A batch plan is a sequence of pipelines.
`WaitError` is `commandExitError` of what `Wait` returns: the exit code or the signal
of a process that failed, and of one that exited with 0 nothing, the error of the
context if the kill was sent before it was reaped, or an error of the goroutines that
copy its output. The last counts as a failure of the pipeline (`broken`).

### SyncoidContract, CommandPolicy, SyncoidSession

A command is what the tokenizer and parser make of it: pipelines of steps with a
name, options, a dataset and snapshots. `Normalize`, `ReceiverPolicy` and
`SenderArguments` are the two sides of `Translate`; `Authorized` is
`authorizeReceiverCommand` but for the length limit and the form of snapshot names.
Syncoid is modelled from
`cmd/zfsrep-sender/testdata/syncoid-2.3.0`, the program the sender's tests hold
(the image's patch changes only how pipeline failures are noticed): its checks at
the start (`CheckCommands`), probing, full, incremental and resumed receives, reset,
overwrite, destroy and recreate, pruning in batches (`PruneBatch`, eleven in the
program), and deleting in batches what the source does not have (`MirrorBatch`, fifty).
`resume` is Syncoid's `$resume`: off with `--no-resume`, and off if the feature check of
either pool fails, so that a target with the state of an interrupted receive is met
by a Syncoid that does not resume also when the policy would let it.

`Receive`, `AbortReceive` and `Destroy` say what ZFS makes of a step and leave open how
it ends. The receiver does not see what a stream holds: a replication stream fills
datasets below the target and, with `-F`, destroys those that it lacks
(`StreamInto`). `zfs receive -A` fails if there is no state to give up; of a target
that only the interrupted receive has made it leaves nothing. The sender's host name is fixed, so the names of earlier runs' sync
snapshots match the relationship.

`Drift` names three situations in which the two sides of the contract disagree
(see Findings); `syncoid_served` leaves them out. `Client` is anyone with the
key of the grant.

## Runs

| Run | Constants | Shows |
|---|---|---|
| `receiver_lease` | 1 task, deadlines 2 and 6, clock to 4 at 2 ticks a second, 1 session; 1 failed publication, 1 failed report, 1 restart; fair | `LapsedUnusable`, `ServingHasAuthority`, `AuthorityWithinLease`, `ReadyIsActive`, `TerminalIsFinal`, `RevocationWithdrawn`, `LapseReported` |
| `receiver_revocation` | 2 tasks with one key, deadline 1, clock to 1, 1 session; 1 failed publication, 1 failed removal, 1 restart | `ManifestComplete`, `KeySelectsOneGrant`, `RevocationIsImmediate` |
| `run_binding` | 2 Jobs and Secrets, 1 task, 1 deleted child, 1 foreign object, 2 steps of the lease | `TypeOK`, `SuccessIsEarned`, `BoundOnce`, `SenderNeverRecreated`, `RenewalSparesTerminal`, `ForeignNotTakenOver` |
| `run_sender` | 2 receiver Pods, 1 foreign object, 1 failed call, 1 swallowed read error | `SenderCanConnect` |
| `run_settles` | 1 failed call, the destination taken once more; fair | `ChildrenCleanedUp`, `RunSettles` |
| `lock_turns` | 2 runs, a dataset and one below it; lists 2 states behind, 1 refusal, 1 deletion; fair | `ExclusiveReceivers`, `HolderKeepsDestination`, `EveryRunEnds` |
| `lock_tie` | 2 runs of one second | finding, see below |
| `schedule_ticks` | 3 ticks a minute apart, `Forbid`, limits 1, watches that keep up; 1 failed call or restart, 1 edit | `TypeOK`, `KeepsContract`, `ForbidHolds`, `TickHasItsRun` |
| `schedule_stale` | 2 ticks, `Allow`, limits 1, lists 3 states behind; 1 failed call or restart, 1 edit, 1 manual run; fair | `TicksAreHandled`, `HistoryShrinks`, `RecordAdvances`, `HistoryKept` |
| `pipeline` | 3 pipelines of 3 processes, 3 blocks of input, pipes of 1; fair | `FailureReported`, `OwnFailureReported`, `NothingAfterFailure`, `NothingLeftRunning`, `AlwaysReturns` |
| `syncoid_served` | every setting, every state of the target over 5 snapshots, 2 compressors of the image | `TypeOK`, `NothingRefused` |
| `receiver_any_command` | every setting; any receive with any stream, any destroy, batches of two, for the target, its parent and its child | `OtherDatasetsUntouched`, `ForeignSnapshotsKept`, `MountAndDestroyAsked` |

Why the bounds are enough. The receiver's interesting orders need one task that
is renewed after it lapsed (two deadlines), a second one to change the snapshot
while the first is in use or to share its key, and one fault of each kind at an
arbitrary step. The run controller's need a second Job and Secret for the
"created twice" cases, one deletion and one foreign object that takes the free name,
both at an arbitrary step, and two lease steps for due and lapsed, or due, renewed and due again. Exclusion is
between two runs, and a list two states behind shows a run before its last two
changes. Two ticks let a reconciliation for the first meet the second, and fill a
history of limit one; a run created by hand under a pruned run's name meets the
deletion of the latter only in a list that is three states behind. Three processes give a stage with a neighbour on either
side, and three blocks overfill a pipe. Five snapshots are one of each kind that
the policy and Syncoid tell apart (own older, common, newest, a user's, one with a
source snapshot's name); a pruning command takes two of them, a mirroring one one, so
that both need a second command. The theorems
below remove the bounds for the safety properties of every module.

Deadlock is checked for the pipeline and for the Syncoid session, where the end
of the work is a stuttering step of its own. Elsewhere the system may stop: with
the clock at its bound and every task finished or deleted an idle daemon has
nothing to do, and a run that has ended and been cleaned up has no further step.

`SenderCanConnect` is checked without deletions by others: a user who deletes
the Secret between the controller's last look and the Job's creation breaks it,
and the code does not claim otherwise. `ForeignNotTakenOver` is checked with them:
after a deletion a foreign object can take the name of a child that the caches still
show as the run's own.

`ExclusiveReceivers` and `HolderKeepsDestination` state what the lock keeps at any lag.
While a run that met no refusal receives, no younger run for an overlapping dataset has
ever had a sender. And as long as no two runs share a creation second and none has
met a refusal, the run that receives is not set back to `Pending`.

`FailureReported` has two halves. Every process that failed, was killed or did not
start, and every loss of output, makes the program return an error. An error is
returned without one of them only after a signal.

`MountAndDestroyAsked` allows a destroy without `forceDelete` in the two cases that ZFS
has: the reset of an interrupted first receive takes the target, which has no snapshot
yet, and a receive with `-F` takes datasets below the target that a replication stream
does not have.

### Fairness

Receiver: weak fairness of startup (Kubernetes restarts the container), of the
single worker, of the delaying queue, of the clock and of the watch for each
task. No fairness of faults, of the environment or of sessions. `RevocationWithdrawn`
and `LapseReported` are checked without failed removals, because one failed
removal can block an activation for good (`ReceiverCleanup.cfg` below).

Run controller: weak fairness of the worker, of the four watches, of the Job
controller (the Job ends, with either outcome), of the receiver's Ready report
for a waiting task, and of the run that holds the destination ending. A run whose
receiver never answers waits in `StartingReceiver` as the code intends, until its lease
lapses.

`RunSettles` is `<>[]` and not "terminal is final": a reconciliation that starts
from a stale cached run may write `Pending`, `StartingReceiver` or `Running` over
a recorded outcome. The run shows that the phase is restored.

Lock: weak fairness of every run's reconciliation (a waiting run is requeued
after a fixed delay), of both watches and of the Jobs' end; strong fairness of
the creation of a sender, because a receiver that gets ready again and again
while the run is being started is used in the end: the call that creates the
Job does not fail for ever.

Schedule: weak fairness of the worker, the two watches and the clock. Runs need
not end.

Pipeline: weak fairness of the program, of every process that can read or write
or has reached the end of its input, and of a kill that was sent. Processes need
not fail.

## Findings

`lock_tie`: the status message of a waiting run
(`zfsreplication_run_controller.go:934`) says that it waits for the active run
"to finish receiving", and `test/e2e/e2e_test.go:253` expects it. Among runs of
one creation second `shouldWaitForDestinationRun` goes by name, whatever they
are doing. Two schedules with the same cron expression create such runs. A run
with the smaller name makes the one that is receiving go back to `Pending`, and
starts a second sender for the same datasets.

Further configurations are kept for disagreements between the code and its
documents; TLC finds a counterexample in each of them.

| Configuration, module, property | What the document says | What the code does |
|---|---|---|
| `ReceiverCleanup.cfg`, `MCReceiverAuthorization`, `CleanupPreservesNoAuthority` | ADR-0003:9, failed cleanup "cannot preserve authority" | a half-removed retired generation makes the activation of the same grants fail; cleanup runs only after a success, so the revoked grant stays until its lease ends, the view changes or the daemon restarts |
| `RunRecreated.cfg`, `RunController`, `SenderNeverRecreated` | ADR-0005:11, "the sender Job is never recreated" | `observedRunStatus` swallows a read error and uses a cached status without the binding |
| `RunJobDeleted.cfg`, `RunController`, `SuccessIsKept` | ADR-0005:11, a missing Job fails the run only while it is nonterminal | nonterminal is decided on the cached run; `Succeeded` becomes `Failed` |
| `RunLeaseAfterSuccess.cfg`, `RunController`, `CompletedWorkStands` | ADR-0004:3, completed work "must not be reclassified by a post-completion renewal failure" | the outcome check sees the cached Job, the lease check the fresh task |
| `RunForeign.cfg`, `RunController`, `ForeignSecretUntouched` | ADR-0005:8, the controller does not "delete" a foreign object | the Secret is deleted by name after an ownership check on the cache |
| `RunForeignTask.cfg`, `RunController`, `ForeignTaskUntouched` | ADR-0005:8, nor does it "adopt" or "overwrite" one | `markReceiveTaskTerminal` patches the phase by name: the run's own task has been deleted, and a foreign one has its name |
| `LockRevived.cfg`, `MCDestinationLock`, `OneReceiverIfDistinct` | `zfsreplication_run_controller.go:934` and `test/e2e/e2e_test.go:253`, as for `lock_tie` | also without a tie: a run whose lease lapsed is written `Failed`, the next one starts, and a reconciliation that still has the first as `Running` skips the lease check and writes `Running` over `Failed`, so that both receive |
| `ScheduleForbidStale.cfg`, `Schedule`, `ForbidHolds` | README.md:213, `Forbid` "skips a tick while a previous scheduled run is still active" | `hasActiveRun` looks at the cached list, which may not show the previous tick's run yet |
| `ScheduleSubMinute.cfg`, `Schedule`, `TickHasItsRun` | README.md:28 and 208, runs are created "on cron ticks", also of `@every` schedules | the name has minute resolution: the second tick of a minute is recorded as run without a run of its own |
| `ScheduleManualName.cfg`, `Schedule`, `ManualRunsKept` | README.md:221, manually created runs "are not pruned by schedule history" | `pruneTerminalRuns` deletes by name what the cached list shows; a run created by hand under the name of a run that has just been pruned goes with the stale entry. `HistoryKept` names this exception |
| `SyncoidLeftover.cfg`, `MCSyncoidSession`, `NothingRefused` | CONTEXT.md:19, Syncoid behaviour and receive permission "cannot drift" | with `receiveResumable: false` Syncoid resets a partial receive of an earlier run with `zfs receive -A`, which the policy refuses in exactly this case |
| `SyncoidClash.cfg`, `MCSyncoidSession`, `NothingRefused` | the same | with `forceDelete` Syncoid destroys a target snapshot that has the name of a source snapshot; the policy lets `forceDelete` destroy datasets only |
| `SyncoidTool.cfg`, `MCSyncoidSession`, `NothingRefused` | the same | the API accepts compressors that `Dockerfile:14` does not install; Syncoid then sends uncompressed, and the policy insists on the decompressor |

`ScheduleNoHistory.cfg` shows why `KeepsContract` needs history limits of at least
one: with a limit of zero, which README.md:219 offers, a reconciliation that starts
from an old cached schedule finds the pruned run missing and runs the tick again.

## Proofs

`ReceiverAuthorizationProofs` proves every safety property of
`ReceiverAuthorization` for all sets of tasks and keys, all deadlines, horizons
and clock resolutions, and any number of sessions and faults, from
`ConstantsAssumption` alone. No property is inductive by itself; each rests on
one of four invariants, which TLC was also run on.

* `PublicationInv` (theorem `PublicationProtocol`) says what is on disk and active
  at each stage: before the rename the pending generation is complete; while
  cleaning and reporting the manifest names exactly the pending snapshot, and the
  cleanup list does not contain it; between `Reset` and the first activation there
  is no manifest. It gives `ManifestComplete`, `ServingHasAuthority` and
  `ReadyIsActive`.
* `LeaseInv` (`LeaseCopiesTrail`) says that no copy of a deadline is ahead of its
  source: cache behind the API server, every grant in the manifest, in the pass
  and in a process behind both. Recording a lapse from the cache therefore covers
  every older grant of that UID. It gives `LapsedUnusable`.
* `KeyInv` (`KeysUnambiguous`) says that compiled and published snapshots are
  free of shared keys and that at most one is published. It gives
  `KeySelectsOneGrant`.
* `ProcInv` (`GrantOfSnapshot`) says that a process's grant belongs to its
  snapshot. It gives `RevocationIsImmediate`.
* `AuthorityWithinLease` needs the arithmetic lemma `ExpiryWithinLease`: rounding down
  to a second and stepping one back is strictly before the deadline, for any
  number of ticks in a second.
* `TypeCorrect` and `ReportsReopenNothing` (`TerminalIsFinal`) need the types only.

`DestinationLockProofs` proves both properties of the lock for any number of runs,
any targets and any lag, from `ConstantsAssumption`. Neither may rest on ended runs
staying ended. `QueueInv` holds of every behaviour. What lasts is not the phase but
the reason of an end (`EndHasReason`): the Job has ended, the run is deleted, or it met
a refusal. So an older overlapping run without a refusal is over when a younger one
gets a sender (`InTurn`), whatever is written over its phase later. It gives
`ExclusiveReceivers`. `HolderInv` holds as long as no two runs share a creation second
and none met a refusal (`Undisturbed`; once disturbed, always disturbed): a run that
has got past the lock has seen every older overlapping one as ended, and in this
case ended runs do stay ended in every later state of the list (`EndedStays`), because
only a reconciliation that finds the destination taken could overwrite them, and
there is nobody left to take it. It gives `HolderKeepsDestination`. `LockInvariant`
states the two together.

`RunControllerProofs` and `SenderConnectProofs` prove the safety properties of
`RunController` for any number of Jobs, Secrets, tasks, Pods, foreign objects and
faults and any lag of the four caches, from `ConstantsAssumption` and
`NoneAssumption`, which says that `None` is not an object.

* `ControllerInv` (`ControllerInvariant`) gives all but the last of them. None of
  the properties is inductive: `BindingInv` says that the cached run and the run
  a reconciliation started from hold the recorded Job UID or none, and that
  the Job on which an outcome is decided is the bound one; `HonestJobs` that a Job
  seen as succeeded has succeeded; `FreshInv` and `KeptInv` why a reconciliation
  that found no binding is right. There are two reasons, and one is enough: every
  status read was fresh, or no child was deleted, so that the bound Job would have
  been found. `FreshOrKept` is their disjunction and the condition of
  `SuccessOnlyIfEarned`, `BindingIsFinal` and `OneSenderOnly`.
  `RunRecreated.cfg` is the counterexample without it.
* `RenewalNeverRevives` and `ForeignChildrenSafe` hold of every behaviour, deletions
  included. The latter rests on the resource versions of the lease renewal and of the
  known-hosts update, and on `OwnJobs`: every Job marked as the run's own, in the API
  server or in any copy, is one that this controller has created. A child that lost its
  name to a foreign one may still be shown by the cache, but no write that takes over
  goes by name.
* `SenderConnects` needs that no child is deleted by others, and `ConnectInv`. The controller itself deletes
  the Secret when a run ends and may go on from stale caches; `Doomed` lists the
  causes of an end, each of which is permanent and is found by a later read of the
  API server, and `HealthyInv` says that a run that is not doomed has never lost
  its Secret.

`ScheduleProofs` proves the safety properties of `Schedule` for any ticks, lags,
failures, edits and manual runs.

* `RecordInv` says that the record is a tick that has passed and that the tick a
  reconciliation works on is not before it: `dueAndNext` goes on to the latest tick
  that has passed, wherever it starts from. It gives `RecordAdvances`.
* `HistoryInv` is about the states of the list between the cache and the API
  server: a scheduled run comes or goes in them, not both (`Comes`, `Goes`), an ended
  one does not change (`Stays`), and of a run that was pruned there are enough newer
  ones left (`PrunedInv`). The last is the hard part, a stale list being pruned
  twice: the newest of the runs that are gone has its newer ones still there
  (`EnoughLeft`, `NewestExists`). It gives `HistoryKept`. Attempting this proof
  showed the exception in `HistoryKept`, which a lag of two states cannot reach.
* `OneRunInv` holds if `Regular` does: `Forbid`, `PromptWatch` and limits of at
  least one. The run of the latest tick is in the API server until a later tick has
  one (`LatestInv`), because every other run ended before it was created
  (`Settled`) and so it is the newest of its outcome; an active run is the latest,
  and if a tick has passed since, the cache has shown it all along (`ActiveInv`). It gives
  `ForbidHolds` and, with `RecordInv` and `DueInv`, the refinement `KeepsContract`:
  a creation is a `Start`, a patch a `Record` or, repeated after a failure, a
  stutter. `TickHasItsRun` further needs ticks with different names and no run
  created by hand under one of them. `ScheduleForbidStale.cfg`, `ScheduleNoHistory.cfg`
  and `ScheduleSubMinute.cfg` show that three of these conditions are needed.

`ReceiverPipelineProofs` proves every safety property of `ReceiverPipeline` for
any number of processes and pipelines, any input and pipe size. `IInv` says that
as long as no error is known, every failure that was waited for is still in the
channel (`FailuresInChannel`), what makes a pipeline broken (`BrokenMeans`), and
that a kill, or the context's error of a process that ended well, has a cause
(`KillHasCause`).

`SyncoidSessionProofs` proves the three properties of `receiver_any_command` for
any set of datasets, snapshots and commands: `IInv` says that every pipeline still
to be run was admitted by the policy of the run's settings, `PolicyMeans` what a step that
the policy admits can be, and the `Execute...` lemmas what running it changes, with
`ReceiveForms`, `Streamed` and their companions for what a stream of any content may do
to the target and below it.

`SyncoidServedProofs` proves for any settings, datasets, snapshots and outcomes of
commands that Syncoid is refused nothing, if none of the three situations of
`Disagrees` holds at the start (`Agreed`) and Syncoid prunes at most `MaxBatch`
snapshots in a command; it takes up to eleven (`syncoid-2.3.0:1693` counts before it
compares with ten), the receiver allows 32
(`authorization.go:18`). `ServedInv` says which settings lead Syncoid to each place of
`syncdataset` (`PlaceInv`) and that none of the three situations arises on the way
(`NoDriftInv`). `WordsAssumption`, that the quoted words of the commands are
strings, is there because the provers do not know it; TLC evaluates it.

Only model-checked: the liveness properties, `RevocationWithdrawn`, `LapseReported`,
`ChildrenCleanedUp`, `RunSettles`, `EveryRunEnds`, `TicksAreHandled`, `HistoryShrinks`
and `AlwaysReturns`, because fairness and `ENABLED` are outside the prover's reach.

## Not modelled

* Contents of messages, log lines, timestamps of the run status, object names and
  their hashes, key generation, JSON, file modes and symlink checks.
* Damage to the active generation by anything but the daemon itself.
* A task reported Ready with missing fields, a Job without a UID, deletion of the
  run itself and garbage collection (`DestinationLock` has deleted runs), and a child
  with a deletion timestamp.
* A receiver that reports Ready again because its endpoint, host key or Pod has changed
  (`main.go:296-304`): in `ReceiverAuthorization` a Ready task stays as reported. The
  change of the Pod is part of `RunController`.
* Errors of cached reads and rate limiting, which only delay.
* More than one manager at a time.
* The tokenizer and parser of commands: quoting, character sets, valid snapshot
  names and the limit of 8192 bytes. A command of 50 very long snapshot names would be
  refused for its length.
* Syncoid's use of bookmarks (`syncoid-2.3.0:582-597`, `672-725`), which sends the same
  receive commands from another source.
* Parsing of cron expressions.
* The sender runtime (a sequential wrapper around one process), child names and
  SSH keys, the manager's wiring and the release image reference.

## Plan

1. `ReplicationSystem`: run controller and receiver composed through the task, and
   an abstract specification of one replication that it implements.
2. The safety cores of the liveness properties: that a run which has ended has its
   task marked or a reconciliation still to come, and that a tick which is due has a
   request, a timer or an event behind it.
