--------------------------- MODULE DestinationLock ---------------------------
(***************************************************************************)
(* destinationLocked: how several ZFSReplicationRuns that receive into the *)
(* same place of one node take turns.  There is no lock object.  Every     *)
(* reconciliation lists the runs in the informer cache and decides from    *)
(* their phases, creation times and names whether to wait.                 *)
(*                                                                         *)
(* The runs share one watch, so the cache is always a past state of the    *)
(* API server: `log` holds the states of the list from the one the cache   *)
(* shows to the current one.  The Jobs have a watch of their own.  One     *)
(* reconciliation is one step here: one worker reconciles all runs, and    *)
(* the steps inside are the subject of module RunController.               *)
(***************************************************************************)
EXTENDS Naturals, Sequences, FiniteSets

CONSTANTS
    Runs,        \* run names; their order is the order of the names
    Target,      \* the run's target: [node, path]
    MaxLag,      \* bound: list states the cache is behind
    MaxRefusals, \* bound: runs that meet a refusal
    MaxDeletes   \* bound: runs deleted by a user

ASSUME ConstantsAssumption ==
    /\ Runs \subseteq Nat
    /\ \A r \in Runs : Target[r].path \in Seq(STRING)
    /\ MaxLag \in Nat \ {0}
    /\ {MaxRefusals, MaxDeletes} \subseteq Nat

VARIABLES
    log,     \* states of the list of runs, from the cached to the current one
    second,  \* the second of the last creation
    created, \* creation second of each run, 0 before its creation
    job,     \* API server: the sender Job of each run
    jobSeen, \* informer cache: the sender Job of each run
    children, \* runs whose SSH Secret and Receive Task exist
    refused  \* runs whose lease or child a reconciliation refuses from now on

vars == <<log, second, created, job, jobSeen, children, refused>>

-----------------------------------------------------------------------------
NoPhase  == ""   \* the phase of a run that was never reconciled
Waiting  == {NoPhase, "Pending"}
Active   == Waiting \cup {"StartingReceiver", "ReceiverReady", "Running"}
Terminal == {"Succeeded", "Failed"}
Done     == Terminal \cup {"deleted"}
Phases   == Active \cup Done \cup {"absent"}
JobStates == {"none", "active", "succeeded", "failed"}

TypeOK ==
    /\ log \in Seq([Runs -> Phases]) /\ Len(log) \in 1..MaxLag
    /\ second \in Nat \ {0}
    /\ created \in [Runs -> Nat]
    /\ job \in [Runs -> JobStates]
    /\ jobSeen \in [Runs -> JobStates]
    /\ children \subseteq Runs
    /\ refused \subseteq Runs

cached == log[1]
api    == log[Len(log)]

-----------------------------------------------------------------------------
(* The decision.                                                            *)

DatasetOrChild(path, of) == Len(of) <= Len(path) /\ SubSeq(path, 1, Len(of)) = of

\* The same node, and equal datasets or one below the other
\* (targetDatasetsOverlap).
Overlap(a, b) ==
    /\ Target[a].node = Target[b].node
    /\ \/ DatasetOrChild(Target[a].path, Target[b].path)
       \/ DatasetOrChild(Target[b].path, Target[a].path)

\* Mutant: every active run is waited for.
WaitForAny(run, other) == TRUE

\* Mutant: of two runs of one second, each waits for the other.
NoTieBreak(run, other) ==
    \/ cached[other] \notin Waiting
    \/ created[other] <= created[run]

ShouldWait(run, other) ==
    \/ cached[other] \notin Waiting
    \/ IF created[run] = created[other] THEN other < run
       ELSE created[other] < created[run]

\* Mutant: a run that reports Running is not waited for any more.
LockedUntilRunning(run) ==
    \E other \in Runs \ {run} :
        /\ cached[other] \in Active \ {"Running"}
        /\ Overlap(run, other)
        /\ ShouldWait(run, other)

DestinationLocked(run) ==
    \E other \in Runs \ {run} :
        /\ cached[other] \in Active
        /\ Overlap(run, other)
        /\ ShouldWait(run, other)

-----------------------------------------------------------------------------
\* The list changes: run r gets phase p.
Write(r, p) ==
    /\ Len(log) < MaxLag
    /\ log' = Append(log, [api EXCEPT ![r] = p])

\* patchRunStatus of the phase: a merge patch from the cached run.
Patch(r, p) == IF p # cached[r] THEN Write(r, p) ELSE UNCHANGED log

\* A reconciliation of run r that gets past the terminal check.  Patching a run
\* that is gone fails and changes nothing.
Reconciling(r) == cached[r] \in Active /\ api[r] # "deleted"

Init ==
    /\ log = <<[r \in Runs |-> "absent"]>>
    /\ second = 1
    /\ created = [r \in Runs |-> 0]
    /\ job = [r \in Runs |-> "none"]
    /\ jobSeen = job
    /\ children = {}
    /\ refused = {}

\* The destination is taken: back to Pending, whatever the run was doing.
WaitForDestination(r) ==
    /\ Reconciling(r)
    /\ DestinationLocked(r)
    /\ Patch(r, "Pending")
    /\ UNCHANGED <<second, created, job, jobSeen, children, refused>>

\* The lease is checked only while the run as the API server has it now has not
\* ended: a reconciliation of a stale run that has failed meanwhile goes on.
LeaseAccepted(r) == r \notin refused \/ api[r] \in Terminal

\* A lease or child refusal ends the run; a Job it started keeps running.
FailRun(r) ==
    /\ Reconciling(r)
    /\ ~DestinationLocked(r)
    /\ r \in refused
    /\ jobSeen[r] \notin {"succeeded", "failed"}
    /\ Patch(r, "Failed")
    /\ UNCHANGED <<second, created, job, jobSeen, children, refused>>

\* No sender yet: the children are created, or exist and the receiver is
\* waited for.
StartReceiver(r) ==
    /\ Reconciling(r)
    /\ ~DestinationLocked(r)
    /\ LeaseAccepted(r)
    /\ jobSeen[r] = "none"
    /\ Patch(r, "StartingReceiver")
    /\ children' = children \cup {r}
    /\ UNCHANGED <<second, created, job, jobSeen, refused>>

\* The receiver is ready: the status is patched, then the Job is created,
\* unless it exists already or an error comes between the two.  Here the Task
\* itself is read, so that a refusal holds for an ended run too.
StartSender(r) ==
    /\ Reconciling(r)
    /\ ~DestinationLocked(r)
    /\ r \notin refused
    /\ r \in children
    /\ jobSeen[r] = "none"
    /\ Patch(r, "ReceiverReady")
    /\ job' \in {job, [job EXCEPT ![r] = IF @ = "none" THEN "active" ELSE @]}
    /\ UNCHANGED <<second, created, jobSeen, children, refused>>

\* A sender Job is in the cache: report what became of it.
ReportSender(r) ==
    /\ Reconciling(r)
    /\ ~DestinationLocked(r)
    /\ \/ jobSeen[r] = "active" /\ LeaseAccepted(r) /\ Patch(r, "Running")
       \/ jobSeen[r] = "succeeded" /\ Patch(r, "Succeeded")
       \/ jobSeen[r] = "failed" /\ Patch(r, "Failed")
    /\ UNCHANGED <<second, created, job, jobSeen, children, refused>>

Reconcile(r) ==
    \/ WaitForDestination(r)
    \/ FailRun(r)
    \/ StartReceiver(r)
    \/ StartSender(r)
    \/ ReportSender(r)

-----------------------------------------------------------------------------
(* The rest of the cluster.                                                 *)

\* A user or a schedule creates a run; the API server stamps the second.  Of
\* the time between two creations only a change of the second matters.
Create(r) ==
    /\ created[r] = 0
    /\ Write(r, NoPhase)
    /\ second' \in {second, second + 1}
    /\ created' = [created EXCEPT ![r] = second']
    /\ UNCHANGED <<job, jobSeen, children, refused>>

\* A user deletes a run; garbage collection ends its Job some time later.
Delete(r) ==
    /\ api[r] \notin {"absent", "deleted"}
    /\ Cardinality({o \in Runs : api[o] = "deleted"}) < MaxDeletes
    /\ Write(r, "deleted")
    /\ UNCHANGED <<second, created, job, jobSeen, children, refused>>

\* The lease lapses, or a child turns out not to be the run's.
Refuse(r) ==
    /\ r \notin refused
    /\ Cardinality(refused) < MaxRefusals
    /\ refused' = refused \cup {r}
    /\ UNCHANGED <<log, second, created, job, jobSeen, children>>

JobEnds(r) ==
    /\ job[r] = "active"
    /\ \E end \in {"succeeded", "failed"} : job' = [job EXCEPT ![r] = end]
    /\ UNCHANGED <<log, second, created, jobSeen, children, refused>>

DeliverRuns ==
    /\ Len(log) > 1
    /\ log' = Tail(log)
    /\ UNCHANGED <<second, created, job, jobSeen, children, refused>>

DeliverJob(r) ==
    /\ jobSeen[r] # job[r]
    /\ jobSeen' = [jobSeen EXCEPT ![r] = job[r]]
    /\ UNCHANGED <<log, second, created, job, children, refused>>

Next ==
    \/ DeliverRuns
    \/ \E r \in Runs : \/ Reconcile(r) \/ Create(r) \/ Delete(r) \/ Refuse(r)
                       \/ JobEnds(r) \/ DeliverJob(r)

Spec == Init /\ [][Next]_vars

\* Every waiting run is requeued and every watch makes progress; the receiver
\* of a run that is being started gets ready, and Syncoid ends.
Fairness ==
    /\ WF_vars(DeliverRuns)
    /\ \A r \in Runs : /\ WF_vars(Reconcile(r))
                       /\ SF_vars(StartSender(r) /\ job' # job)
                       /\ WF_vars(JobEnds(r))
                       /\ WF_vars(DeliverJob(r))

FairSpec == Spec /\ Fairness

-----------------------------------------------------------------------------
(* Properties.                                                              *)

\* A run that has not ended and whose sender Job is at work.
Receiving(r) == api[r] \in Active /\ job[r] = "active"

\* No two runs were created within one second.
DistinctSeconds ==
    \A a, b \in Runs : a # b /\ created[a] = created[b] => created[a] = 0

\* Two runs that have not ended never receive into overlapping datasets at the
\* same time.
OneReceiverPerDestination ==
    \A a, b \in Runs : a # b /\ Overlap(a, b) => ~(Receiving(a) /\ Receiving(b))

\* The same, claimed only of runs that the API server stamped with different
\* seconds.
OneReceiverIfDistinct == DistinctSeconds => OneReceiverPerDestination

\* While a run that met no refusal receives, no younger run for an overlapping
\* dataset has ever got a sender, however far the cached list is behind: the
\* older one is over before destinationLocked lets the younger one through.
\* (A refused run may be written Failed, let the next one through and be set
\* back to Running by a reconciliation that still has it as Running.)
ExclusiveReceivers ==
    \A a, b \in Runs :
        /\ Overlap(a, b)
        /\ created[a] < created[b]
        /\ a \notin refused
        => ~(Receiving(a) /\ job[b] # "none")

\* Under the two conditions that the code relies on a run whose sender is at
\* work is not set back to Pending, which would tell the runs behind it that the
\* destination is free: no two runs of one second, and no refusal.
HolderKeepsDestination ==
    [][DistinctSeconds /\ refused = {} =>
         \A r \in Runs : Receiving(r) /\ api'[r] = "Pending" =>
             api[r] = "Pending"]_vars

\* Every run ends: no two runs wait for each other for ever, even if they were
\* created in the same second or started from stale lists.
EveryRunEnds ==
    \A r \in Runs : created[r] # 0 ~> api[r] \in Done
=============================================================================
