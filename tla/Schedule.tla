------------------------------- MODULE Schedule -------------------------------
(***************************************************************************)
(* ZFSReplicationScheduleReconciler.Reconcile for one schedule.            *)
(*                                                                         *)
(* The schedule and its runs come from two informer caches: `seen` is the  *)
(* schedule as the cache has it, and `log` holds the states of the list of *)
(* runs from the cached one to the current one.  A reconciliation starts a *)
(* run or decides not to, then patches the status, then prunes; it can end *)
(* with an error, and the manager can stop, between any two of these.      *)
(*                                                                         *)
(* A run's name is made of its tick truncated to the minute.               *)
(***************************************************************************)
EXTENDS Naturals, Sequences, FiniteSets

CONSTANTS
    Ticks,        \* the instants at which the cron expression is due
    Minute,       \* instants per minute
    MaxTime,      \* bound: the last instant
    Policy,       \* concurrencyPolicy
    SuccessfulRunsHistoryLimit,
    FailedRunsHistoryLimit,
    PromptWatch,  \* whether the watches catch up before the next tick
    MaxLag,       \* bound: list states the cache is behind
    MaxErrors,    \* bound: API calls that fail, restarts
    MaxEdits,     \* bound: edits of the schedule's spec
    MaxManual     \* bound: runs created by hand under a scheduled run's name

ASSUME ConstantsAssumption ==
    /\ Ticks \subseteq Nat \ {0}
    /\ Minute \in Nat \ {0}
    /\ Policy \in {"Allow", "Forbid"}
    /\ PromptWatch \in BOOLEAN
    /\ {SuccessfulRunsHistoryLimit, FailedRunsHistoryLimit} \subseteq Nat
    /\ {MaxTime, MaxErrors, MaxEdits, MaxManual} \subseteq Nat
    /\ MaxLag \in Nat \ {0}

VARIABLES
    now,     \* the clock
    sched,   \* API server: the schedule's spec and lastScheduleTime
    seen,    \* informer cache: the schedule
    log,     \* states of the list of runs, from the cached to the current one
    pc,      \* where Reconcile is
    due,     \* the tick it is working on, 0 if none
    queued,  \* the schedule's request is in the work queue
    wake,    \* when the delayed request fires, 0 if there is none
    used,    \* how often each bounded thing has happened
    started, \* history: runs created by the controller
    latest   \* history: tick of the last run it created

list == <<log, started, latest>>
vars == <<now, sched, seen, list, pc, due, queued, wake, used>>

-----------------------------------------------------------------------------
Terminal == {"Succeeded", "Failed"}

\* A run: the tick in its scheduled-at annotation (0 for a run created by hand,
\* which has no schedule label), its phase, and its times.
RunObjects == [at : Nat, phase : {"active"} \cup Terminal, created : Nat,
               completed : Nat]
NoRun == [at |-> 0, phase |-> "absent", created |-> 0, completed |-> 0]

\* Mutant: the day is all the name keeps of the tick.
NameOfDay(t) == 0

\* scheduledRunName.
RunName(t) == t \div Minute

Names == {RunName(t) : t \in Ticks}

TypeOK ==
    /\ now \in Nat
    /\ sched \in [spec : {"active", "suspended", "invalid"}, last : Nat]
    /\ seen \in [spec : {"active", "suspended", "invalid"}, last : Nat]
    /\ log \in Seq([Names -> RunObjects \cup {NoRun}])
    /\ Len(log) \in 1..MaxLag
    /\ pc \in {"idle", "patch", "patchSkip", "prune"}
    /\ due \in Nat
    /\ queued \in BOOLEAN
    /\ wake \in Nat
    /\ used \in [{"error", "edit", "manual"} -> Nat]
    /\ started \in Nat
    /\ latest \in Nat

cached == log[1]
api    == log[Len(log)]

Bound == [error |-> MaxErrors, edit |-> MaxEdits, manual |-> MaxManual]

Count(what) ==
    /\ used[what] < Bound[what]
    /\ used' = [used EXCEPT ![what] = @ + 1]

\* The list of runs changes.
Write(new) ==
    /\ Len(log) < MaxLag
    /\ log' = Append(log, new)

-----------------------------------------------------------------------------
(* The decisions.                                                           *)

\* dueAndNext: the last tick that is due, if any, and the next one.
Due(last) ==
    {t \in Ticks : /\ last < t /\ t <= now
                   /\ \A u \in Ticks : u <= now => u <= t}

NextTick == {t \in Ticks : now < t /\ \A u \in Ticks : now < u => t <= u}

Limit == [Succeeded |-> SuccessfulRunsHistoryLimit,
          Failed |-> FailedRunsHistoryLimit]

\* Mutant: the label selector matches nothing.
NoActiveRun == FALSE

\* hasActiveRun, over the runs with the schedule's label.
HasActiveRun == \E n \in Names : cached[n].at # 0 /\ cached[n].phase = "active"

\* terminalRunOlder: completion, then creation, then name.
Older(a, b) ==
    \/ a.completed < b.completed
    \/ a.completed = b.completed /\ a.created < b.created
    \/ a.completed = b.completed /\ a.created = b.created /\ a.at < b.at

\* Mutant: one run more than the limit is kept.
PrunableOffByOne ==
    {n \in Names : /\ cached[n].at # 0 /\ cached[n].phase \in Terminal
                   /\ Cardinality({m \in Names :
                          /\ cached[m].at # 0 /\ cached[m].phase = cached[n].phase
                          /\ Older(cached[n], cached[m])}) > Limit[cached[n].phase]}

\* Mutant: manual runs are pruned as well.
PrunableWithManual ==
    {n \in Names : /\ cached[n].phase \in Terminal
                   /\ Cardinality({m \in Names :
                          /\ cached[m].phase = cached[n].phase
                          /\ Older(cached[n], cached[m])}) >= Limit[cached[n].phase]}

\* pruneTerminalRuns: the oldest runs of each outcome beyond its limit.
Prunable ==
    {n \in Names : /\ cached[n].at # 0 /\ cached[n].phase \in Terminal
                   /\ Cardinality({m \in Names :
                          /\ cached[m].at # 0 /\ cached[m].phase = cached[n].phase
                          /\ Older(cached[n], cached[m])}) >= Limit[cached[n].phase]}

-----------------------------------------------------------------------------
Init ==
    /\ now = 0
    /\ sched = [spec |-> "active", last |-> 0]
    /\ seen = sched
    /\ log = <<[n \in Names |-> NoRun]>>
    /\ pc = "idle"
    /\ due = 0
    /\ queued = TRUE
    /\ wake = 0
    /\ used = [c \in {"error", "edit", "manual"} |-> 0]
    /\ started = 0
    /\ latest = 0

-----------------------------------------------------------------------------
(* Reconcile.                                                               *)

Begin == pc = "idle" /\ queued /\ queued' = FALSE

\* requeueAt, into the delaying queue, which keeps the earlier of two times.
RequeueAt ==
    wake' = IF wake # 0 \/ NextTick = {} THEN wake
            ELSE CHOOSE t \in NextTick : TRUE

\* failSchedule: an error in the spec is reported and nothing else happens.
FailSchedule ==
    /\ Begin
    /\ seen.spec = "invalid"
    /\ UNCHANGED <<now, sched, seen, list, pc, due, wake, used>>

\* Mutant: the whole cached status is written back.
NothingDueWritesStatus ==
    /\ Begin
    /\ \/ seen.spec = "suspended" /\ UNCHANGED wake
       \/ seen.spec = "active" /\ Due(seen.last) = {} /\ RequeueAt
    /\ pc' = "prune"
    /\ sched' = [sched EXCEPT !.last = seen.last]
    /\ UNCHANGED <<now, seen, list, due, used>>

\* Suspended or nothing due: only the history is pruned.
NothingDue ==
    /\ Begin
    /\ \/ seen.spec = "suspended" /\ UNCHANGED wake
       \/ seen.spec = "active" /\ Due(seen.last) = {} /\ RequeueAt
    /\ pc' = "prune"
    /\ UNCHANGED <<now, sched, seen, list, due, used>>

\* Forbid and a previous run is active: the tick is recorded without a run.
SkipTick ==
    /\ Begin
    /\ seen.spec = "active"
    /\ Policy = "Forbid" /\ HasActiveRun
    /\ due' \in Due(seen.last)
    /\ pc' = "patchSkip"
    /\ UNCHANGED <<now, sched, seen, list, wake, used>>

\* Get in ensureScheduledRun: the cache has no run of that name.
RunMissing(n) == cached[n] = NoRun

\* ensureScheduledRun: a run in the cache will do, whosever it is; Create
\* returns AlreadyExists if the API server has one that the cache does not show.
EnsureScheduledRun ==
    /\ Begin
    /\ seen.spec = "active"
    /\ ~(Policy = "Forbid" /\ HasActiveRun)
    /\ \E t \in Due(seen.last) :
         LET n == RunName(t)
         IN  \/ /\ ~RunMissing(n)
                /\ due' = t /\ pc' = "patch"
                /\ UNCHANGED list
             \/ /\ RunMissing(n) /\ api[n] = NoRun
                /\ Write([api EXCEPT ![n] = [at |-> t, phase |-> "active",
                                             created |-> now, completed |-> 0]])
                /\ started' = started + 1
                /\ latest' = t
                /\ due' = t /\ pc' = "patch"
    /\ UNCHANGED <<now, sched, seen, wake, used>>

\* The request comes back after an error; the locals are lost.
Retry ==
    /\ pc' = "idle"
    /\ due' = 0
    /\ queued' = TRUE

RunAlreadyExists ==
    /\ pc = "idle" /\ queued
    /\ seen.spec = "active"
    /\ ~(Policy = "Forbid" /\ HasActiveRun)
    /\ \E t \in Due(seen.last) : RunMissing(RunName(t)) /\ api[RunName(t)] # NoRun
    /\ Retry
    /\ UNCHANGED <<now, sched, seen, list, wake, used>>

\* Mutant: the time of the reconciliation is recorded.
PatchStatusNow ==
    /\ pc \in {"patch", "patchSkip"}
    /\ sched' = [sched EXCEPT !.last = now]
    /\ RequeueAt
    /\ pc' = "prune"
    /\ UNCHANGED <<now, seen, list, due, queued, used>>

\* patchScheduleStatus: lastScheduleTime differs from the cached object's.
PatchStatus ==
    /\ pc \in {"patch", "patchSkip"}
    /\ sched' = [sched EXCEPT !.last = due]
    /\ RequeueAt
    /\ pc' = "prune"
    /\ UNCHANGED <<now, seen, list, due, queued, used>>

\* Mutant: a finalizer holds the deleted runs.
RemoveLater(names) ==
    Write([n \in Names |-> IF n \in names THEN [api[n] EXCEPT !.phase = "deleting"]
                           ELSE api[n]])

\* Delete by name; runs that are already gone are not an error.
Remove(names) ==
    IF \E n \in names : api[n] # NoRun
      THEN Write([n \in Names |-> IF n \in names THEN NoRun ELSE api[n]])
      ELSE UNCHANGED log

\* pruneScheduleRunHistory.
PruneHistory ==
    /\ pc = "prune"
    /\ Remove(Prunable)
    /\ pc' = "idle"
    /\ due' = 0
    /\ UNCHANGED <<now, sched, seen, started, latest, queued, wake, used>>

Reconcile ==
    \/ FailSchedule
    \/ NothingDue
    \/ SkipTick
    \/ EnsureScheduledRun
    \/ RunAlreadyExists
    \/ PatchStatus
    \/ PruneHistory

\* An API call fails or the manager restarts; of the deletions of PruneHistory
\* the first ones, oldest first, may have been done.
Abort ==
    /\ Count("error")
    /\ \/ pc \in {"patch", "patchSkip"} /\ UNCHANGED log
       \/ /\ pc = "prune"
          /\ \E done \in SUBSET Prunable :
               /\ \A n \in done, m \in Prunable :
                    cached[m].phase = cached[n].phase /\ Older(cached[m], cached[n])
                      => m \in done
               /\ Remove(done)
    /\ Retry
    /\ UNCHANGED <<now, sched, seen, started, latest, wake>>

-----------------------------------------------------------------------------
(* The rest of the cluster.                                                 *)

\* Mutant: the delayed request never fires.
DelayedRequestLost == FALSE

DelayedRequestFires == wake # 0 /\ wake <= now + 1

CaughtUp == seen = sched /\ Len(log) = 1

ClockTicks ==
    /\ now < MaxTime
    /\ (PromptWatch /\ now + 1 \in Ticks) => CaughtUp
    /\ now' = now + 1
    /\ queued' = (queued \/ DelayedRequestFires)
    /\ wake' = IF DelayedRequestFires THEN 0 ELSE wake
    /\ UNCHANGED <<sched, seen, list, pc, due, used>>

\* A run ends with its sender Job, or fails at any step of the run controller.  A
\* stale reconciliation of that controller may write over the end for a time
\* (RunController, RunSettles); here an end is final.
EndRun(n, end) ==
    /\ api[n].phase = "active"
    /\ Write([api EXCEPT ![n].phase = end, ![n].completed = now])
    /\ UNCHANGED <<now, sched, seen, started, latest, pc, due, queued, wake, used>>

RunEnds(n) == \E end \in Terminal : EndRun(n, end)

\* A user suspends, resumes, breaks or repairs the schedule.
EditSpec ==
    /\ Count("edit")
    /\ \E spec \in {"active", "suspended", "invalid"} \ {sched.spec} :
         sched' = [sched EXCEPT !.spec = spec]
    /\ UNCHANGED <<now, seen, list, pc, due, queued, wake>>

\* A user creates a run that happens to have the name of a scheduled one.
CreateManualRun(n) ==
    /\ Count("manual")
    /\ api[n] = NoRun
    /\ Write([api EXCEPT ![n] = [at |-> 0, phase |-> "active", created |-> now,
                                 completed |-> 0]])
    /\ UNCHANGED <<now, sched, seen, started, latest, pc, due, queued, wake>>

DeliverSchedule ==
    /\ seen # sched
    /\ seen' = sched
    /\ queued' = TRUE
    /\ UNCHANGED <<now, sched, list, pc, due, wake, used>>

DeliverRuns ==
    /\ Len(log) > 1
    /\ log' = Tail(log)
    /\ queued' = TRUE
    /\ UNCHANGED <<now, sched, seen, started, latest, pc, due, wake, used>>

Next ==
    \/ Reconcile
    \/ Abort
    \/ ClockTicks
    \/ EditSpec
    \/ DeliverSchedule
    \/ DeliverRuns
    \/ \E n \in Names : RunEnds(n) \/ CreateManualRun(n)

Spec == Init /\ [][Next]_vars

\* The worker, the watches and the clock keep going.
Fairness ==
    /\ WF_vars(Reconcile)
    /\ WF_vars(DeliverSchedule)
    /\ WF_vars(DeliverRuns)
    /\ WF_vars(ClockTicks)

FairSpec == Spec /\ Fairness

-----------------------------------------------------------------------------
(* Properties.                                                              *)

\* The schedule implements the tick contract: one run per tick at most, in
\* order, even if the manager stops between creating a run and recording it.
Contract == INSTANCE TickContract WITH recorded <- sched.last

KeepsContract == Contract!Spec

RunCreated == started' # started

\* Forbid: no scheduled run is created while one is active.
ForbidHolds ==
    [][RunCreated /\ Policy = "Forbid" =>
         ~\E n \in Names : api[n].at # 0 /\ api[n].phase = "active"]_vars

\* lastScheduleTime never moves back, whichever old state of the schedule the
\* reconciliation started from.
RecordAdvances == [][sched'.last >= sched.last]_vars

\* Pruning spares active runs, runs created by hand, and of each outcome the
\* newest runs up to the history limit.  Delete goes by name: the exception is a
\* run created by hand under the name of a run that is gone and that the cache
\* still shows.
HistoryKept ==
    [][\A n \in Names :
         api[n] # NoRun /\ api'[n] = NoRun =>
           \/ api[n].at = 0 /\ cached[n].at # 0
           \/ /\ api[n].at # 0 /\ api[n].phase \in Terminal
              /\ Cardinality({m \in Names : /\ api'[m].at # 0
                                            /\ api'[m].phase = api[n].phase
                                            /\ Older(api[n], api[m])})
                   >= Limit[api[n].phase]]_vars

\* No run created by hand is pruned, whatever its name.  ScheduleManualName.cfg
\* shows that it may be, under the name of a run that was.
ManualRunsKept ==
    [][\A n \in Names : api[n] # NoRun /\ api[n].at = 0 => api'[n] # NoRun]_vars

\* When a tick is recorded with a run, that run is the tick's own.
TickHasItsRun ==
    [][pc = "patch" /\ pc' = "prune" => api[RunName(due)].at = due]_vars

\* A due tick is eventually recorded, unless the user suspends or breaks the
\* schedule: no requeue, event or retry is lost.
TicksAreHandled ==
    \A t \in Ticks : now >= t /\ sched.spec = "active" ~>
                       sched.last >= t \/ sched.spec # "active"

\* The history shrinks to its limits, also after failed deletions.
HistoryShrinks ==
    <>[](sched.spec # "invalid" =>
           \A end \in Terminal :
             Cardinality({n \in Names : api[n].at # 0 /\ api[n].phase = end})
               <= Limit[end])
=============================================================================
