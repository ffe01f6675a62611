---------------------------- MODULE ScheduleProofs ----------------------------
(***************************************************************************)
(* The safety properties of Schedule, for any set of ticks, any lag of the *)
(* two caches and any number of failures, edits and restarts:              *)
(*                                                                         *)
(*  - the types;                                                           *)
(*  - RecordAdvances: a reconciliation works on the latest tick that has   *)
(*    passed when it starts, however old the record is that it has read,   *)
(*    nothing but the patch at its end writes the record, and one worker   *)
(*    reconciles a schedule at a time;                                     *)
(*  - HistoryKept: what the cache shows as ended is unchanged or pruned,   *)
(*    and a run that was pruned left enough newer ones;                    *)
(*  - ForbidHolds, the tick contract and TickHasItsRun, where the policy   *)
(*    is Forbid and the watches catch up between ticks: the run of the     *)
(*    latest tick stays until a later tick has one.                        *)
(***************************************************************************)
EXTENDS Schedule, FiniteSetTheorems, TLAPS

\* The record is a past tick, and the tick being worked on is not before it.
RecordInv ==
    /\ sched.last \in {0} \cup Ticks
    /\ sched.last <= now
    /\ pc \in {"patch", "patchSkip"} =>
         due \in Ticks /\ sched.last <= due /\ due <= now

-----------------------------------------------------------------------------
Lists == [Names -> RunObjects \cup {NoRun}]

LEMMA ListTypes ==
    ASSUME TypeOK
    PROVE  cached \in Lists /\ api \in Lists
  BY ConstantsAssumption DEF TypeOK, Lists, cached, api

LEMMA WriteType ==
    ASSUME TypeOK, NEW new \in Lists, Write(new)
    PROVE  log' \in Seq(Lists) /\ Len(log') \in 1..MaxLag
  BY ConstantsAssumption DEF TypeOK, Lists, Write

LEMMA RemoveType ==
    ASSUME TypeOK, NEW names, Remove(names)
    PROVE  log' \in Seq(Lists) /\ Len(log') \in 1..MaxLag
  <1>1. CASE UNCHANGED log
    BY <1>1 DEF TypeOK, Lists
  <1>2. CASE Write([n \in Names |-> IF n \in names THEN NoRun ELSE api[n]])
    <2>1. [n \in Names |-> IF n \in names THEN NoRun ELSE api[n]] \in Lists
      BY ListTypes DEF Lists
    <2> QED
      BY <1>2, <2>1, WriteType
  <1> QED
    BY <1>1, <1>2 DEF Remove

LEMMA RequeueType ==
    ASSUME TypeOK, RequeueAt
    PROVE  wake' \in Nat
  <1>1. CASE NextTick = {}
    BY <1>1 DEF RequeueAt, TypeOK
  <1>2. CASE NextTick # {}
    <2>1. (CHOOSE t \in NextTick : TRUE) \in NextTick
      BY <1>2
    <2>2. NextTick \subseteq Nat
      BY ConstantsAssumption DEF NextTick
    <2> QED
      BY <2>1, <2>2 DEF RequeueAt, TypeOK
  <1> QED
    BY <1>1, <1>2

LEMMA CountType ==
    ASSUME TypeOK, NEW what \in {"error", "edit", "manual"}, Count(what)
    PROVE  used' \in [{"error", "edit", "manual"} -> Nat]
  BY DEF TypeOK, Count

\* The run that is created for a tick.
LEMMA NewRunType ==
    ASSUME TypeOK, NEW n \in Names, NEW at \in Nat
    PROVE  [api EXCEPT ![n] = [at |-> at, phase |-> "active", created |-> now,
                               completed |-> 0]] \in Lists
  BY ListTypes DEF TypeOK, Lists, RunObjects

LEMMA TypeNext ==
    ASSUME TypeOK, [Next]_vars
    PROVE  TypeOK'
  <1> USE DEF list
  <1>1. CASE UNCHANGED vars
    BY <1>1 DEF vars, TypeOK
  <1>2. CASE FailSchedule
    BY <1>2 DEF FailSchedule, Begin, TypeOK
  <1>3. CASE NothingDue
    <2>1. wake' \in Nat
      BY <1>3, RequeueType DEF NothingDue, TypeOK
    <2> QED
      BY <1>3, <2>1 DEF NothingDue, Begin, TypeOK
  <1>4. CASE SkipTick
    <2>1. due' \in Nat
      BY <1>4, ConstantsAssumption DEF SkipTick, Due
    <2> QED
      BY <1>4, <2>1 DEF SkipTick, Begin, TypeOK
  <1>5. CASE EnsureScheduledRun
    <2>1. PICK t \in Due(seen.last) :
             /\ due' = t /\ pc' = "patch"
             /\ \/ UNCHANGED <<log, started, latest>>
                \/ /\ Write([api EXCEPT ![RunName(t)] =
                               [at |-> t, phase |-> "active", created |-> now,
                                completed |-> 0]])
                   /\ started' = started + 1
                   /\ latest' = t
      BY <1>5 DEF EnsureScheduledRun
    <2>2. t \in Nat /\ RunName(t) \in Names
      BY <2>1, ConstantsAssumption DEF Due, Names
    <2>3. log' \in Seq(Lists) /\ Len(log') \in 1..MaxLag
      BY <2>1, <2>2, NewRunType, WriteType DEF TypeOK, Lists
    <2>4. started' \in Nat /\ latest' \in Nat
      BY <2>1, <2>2 DEF TypeOK
    <2> QED
      BY <1>5, <2>1, <2>2, <2>3, <2>4
         DEF EnsureScheduledRun, Begin, TypeOK, Lists
  <1>6. CASE RunAlreadyExists
    BY <1>6 DEF RunAlreadyExists, Retry, TypeOK
  <1>7. CASE PatchStatus
    <2>1. wake' \in Nat
      BY <1>7, RequeueType DEF PatchStatus
    <2> QED
      BY <1>7, <2>1 DEF PatchStatus, TypeOK
  <1>8. CASE PruneHistory
    <2>1. log' \in Seq(Lists) /\ Len(log') \in 1..MaxLag
      BY <1>8, RemoveType DEF PruneHistory
    <2> QED
      BY <1>8, <2>1 DEF PruneHistory, TypeOK, Lists
  <1>9. CASE Abort
    <2>1. log' \in Seq(Lists) /\ Len(log') \in 1..MaxLag
      BY <1>9, RemoveType DEF Abort, TypeOK, Lists
    <2>2. used' \in [{"error", "edit", "manual"} -> Nat]
      BY <1>9, CountType DEF Abort
    <2> QED
      BY <1>9, <2>1, <2>2 DEF Abort, Retry, TypeOK, Lists
  <1>10. CASE ClockTicks
    BY <1>10 DEF ClockTicks, TypeOK
  <1>11. CASE EditSpec
    <2>1. used' \in [{"error", "edit", "manual"} -> Nat]
      BY <1>11, CountType DEF EditSpec
    <2> QED
      BY <1>11, <2>1 DEF EditSpec, TypeOK
  <1>12. CASE DeliverSchedule
    BY <1>12 DEF DeliverSchedule, TypeOK
  <1>13. CASE DeliverRuns
    <2>1. log' \in Seq(Lists) /\ Len(log') = Len(log) - 1
      BY <1>13 DEF DeliverRuns, TypeOK, Lists
    <2>2. Len(log') \in 1..MaxLag
      BY <1>13, <2>1, ConstantsAssumption DEF DeliverRuns, TypeOK
    <2> QED
      BY <1>13, <2>1, <2>2 DEF DeliverRuns, TypeOK, Lists
  <1>14. ASSUME NEW n \in Names, RunEnds(n)
         PROVE  TypeOK'
    <2>1. PICK end \in Terminal :
             Write([api EXCEPT ![n].phase = end, ![n].completed = now])
      BY <1>14 DEF RunEnds, EndRun
    <2>2. api[n] \in RunObjects
      BY <1>14, ListTypes DEF RunEnds, EndRun, Lists, NoRun
    <2>3. [api EXCEPT ![n].phase = end, ![n].completed = now] \in Lists
      BY <2>2, ListTypes DEF Lists, RunObjects, TypeOK
    <2>4. log' \in Seq(Lists) /\ Len(log') \in 1..MaxLag
      BY <2>1, <2>3, WriteType
    <2> QED
      BY <1>14, <2>4 DEF RunEnds, EndRun, TypeOK, Lists
  <1>15. ASSUME NEW n \in Names, CreateManualRun(n)
         PROVE  TypeOK'
    <2>1. log' \in Seq(Lists) /\ Len(log') \in 1..MaxLag
      BY <1>15, NewRunType, WriteType DEF CreateManualRun
    <2>2. used' \in [{"error", "edit", "manual"} -> Nat]
      BY <1>15, CountType DEF CreateManualRun
    <2> QED
      BY <1>15, <2>1, <2>2 DEF CreateManualRun, TypeOK, Lists
  <1> QED
    BY <1>1, <1>2, <1>3, <1>4, <1>5, <1>6, <1>7, <1>8, <1>9, <1>10, <1>11,
       <1>12, <1>13, <1>14, <1>15 DEF Next, Reconcile

LEMMA TypeInit == Init => TypeOK
  <1> SUFFICES ASSUME Init PROVE TypeOK
    OBVIOUS
  <1>1. [n \in Names |-> NoRun] \in Lists
    BY DEF Lists
  <1>2. log \in Seq(Lists) /\ Len(log) = 1
    BY <1>1 DEF Init
  <1> QED
    BY <1>2, ConstantsAssumption DEF Init, TypeOK, Lists

\* Every variable of the schedule controller keeps its type.
THEOREM ScheduleTypeCorrect == Spec => []TypeOK
  BY TypeInit, TypeNext, PTL DEF Spec

-----------------------------------------------------------------------------
\* The tick a reconciliation starts to work on is not before any past tick.
LEMMA DueIsLatest ==
    ASSUME TypeOK, RecordInv, NEW last \in Nat, NEW t \in Due(last)
    PROVE  t \in Ticks /\ sched.last <= t /\ t <= now
  BY ConstantsAssumption DEF Due, RecordInv, TypeOK

LEMMA RecordNext ==
    ASSUME TypeOK, RecordInv, [Next]_vars
    PROVE  RecordInv' /\ sched'.last >= sched.last
  <1> USE DEF list
  <1>0. sched.last \in Nat /\ now \in Nat /\ seen.last \in Nat
    BY DEF TypeOK
  <1>1. CASE UNCHANGED <<sched, now, pc, due>>
    BY <1>0, <1>1 DEF RecordInv
  <1>2. CASE /\ UNCHANGED <<sched, now>>
             /\ pc' \in {"idle", "prune"}
    BY <1>0, <1>2 DEF RecordInv
  <1>3. CASE /\ UNCHANGED <<sched, now>>
             /\ due' \in Due(seen.last)
    BY <1>0, <1>3, DueIsLatest DEF RecordInv
  <1>4. CASE PatchStatus
    <2>1. due \in Ticks /\ sched.last <= due /\ due <= now
      BY <1>4 DEF PatchStatus, RecordInv
    <2>2. sched'.last = due /\ now' = now /\ pc' = "prune"
      BY <1>4 DEF PatchStatus, TypeOK
    <2> QED
      BY <1>0, <2>1, <2>2, ConstantsAssumption DEF RecordInv
  <1>5. CASE ClockTicks
    <2>1. now' = now + 1 /\ UNCHANGED <<sched, pc, due>>
      BY <1>5 DEF ClockTicks
    <2>2. sched.last <= now + 1 /\ (due \in Nat /\ due <= now => due <= now + 1)
      BY <1>0 DEF RecordInv
    <2>3. due \in Ticks => due \in Nat
      BY ConstantsAssumption
    <2> QED
      BY <1>0, <2>1, <2>2, <2>3 DEF RecordInv
  <1>6. CASE EditSpec
    <2>1. sched'.last = sched.last /\ UNCHANGED <<now, pc, due>>
      BY <1>6 DEF EditSpec, TypeOK
    <2> QED
      BY <1>0, <2>1 DEF RecordInv
  <1>7. CASE EnsureScheduledRun
    <2>1. due' \in Due(seen.last) /\ UNCHANGED <<sched, now>>
      BY <1>7 DEF EnsureScheduledRun
    <2> QED
      BY <1>3, <2>1
  <1>8. CASE Abort
    BY <1>2, <1>8 DEF Abort, Retry
  <1>9. CASE FailSchedule \/ NothingDue \/ SkipTick \/ RunAlreadyExists
             \/ PruneHistory
    BY <1>1, <1>2, <1>3, <1>9
       DEF FailSchedule, NothingDue, SkipTick, RunAlreadyExists, Retry,
           PruneHistory
  <1>10. CASE DeliverSchedule \/ DeliverRuns
              \/ \E n \in Names : RunEnds(n) \/ CreateManualRun(n)
    BY <1>1, <1>10 DEF DeliverSchedule, DeliverRuns, RunEnds, EndRun, CreateManualRun
  <1> QED
    BY <1>1, <1>4, <1>5, <1>6, <1>7, <1>8, <1>9, <1>10
       DEF Next, Reconcile, vars

\* lastScheduleTime, which patchScheduleStatus writes without a resource version
\* from an arbitrarily old cached schedule, never moves back.
THEOREM RecordNeverGoesBack == Spec => RecordAdvances
  <1>1. Init => RecordInv
    BY DEF Init, RecordInv
  <1>2. TypeOK /\ RecordInv /\ [Next]_vars => RecordInv'
    BY RecordNext
  <1>3. TypeOK /\ RecordInv /\ [Next]_vars => [sched'.last >= sched.last]_vars
    BY RecordNext
  <1> QED
    BY <1>1, <1>2, <1>3, ScheduleTypeCorrect, PTL DEF Spec, RecordAdvances

-----------------------------------------------------------------------------
(* The history.  In the states of the list between the cache and the API   *)
(* server a scheduled run comes or goes, not both: the controller creates  *)
(* a run only if the cache does not show it, and prunes one only if the    *)
(* cache shows that it has ended.  So what the cache shows as ended is     *)
(* unchanged or pruned, and a run that was pruned left enough newer ones.  *)

Comes(n) == \A h, i, j \in 1..Len(log) :
              h < i /\ i < j => ~(log[h][n].at = 0 /\ log[i][n].at # 0 /\ log[j][n].at = 0)
Goes(n)  == \A h, i, j \in 1..Len(log) :
              h < i /\ i < j => ~(log[h][n].at # 0 /\ log[i][n].at = 0 /\ log[j][n].at # 0)

Stays(n) == \A i, j \in 1..Len(log) :
              i < j /\ log[i][n].at # 0 =>
                /\ log[i][n].phase \in Terminal /\ log[j][n].at # 0 => log[j][n] = log[i][n]
                /\ log[i][n].phase = "active" => log[j][n].at # 0

\* The runs of a list that have ended as r has, and are newer.
NewerThan(r, runs) ==
    {m \in Names : runs[m].at # 0 /\ runs[m].phase = r.phase /\ Older(r, runs[m])}

Scheduled(runs) == {m \in Names : runs[m].at # 0}

PrunedInv ==
    \A i \in 1..Len(log), n \in Names :
      log[i][n].at # 0 /\ log[i][n].phase \in Terminal /\ api[n].at = 0 =>
        Cardinality(NewerThan(log[i][n], api)) >= Limit[log[i][n].phase]

HistoryInv ==
    /\ \A n \in Names : Comes(n) /\ Goes(n) /\ Stays(n)
    /\ \A i \in 1..Len(log) : IsFiniteSet(Scheduled(log[i]))
    /\ PrunedInv

\* What a write to the list may do.
FairWrite(new) ==
    /\ new \in Lists
    /\ IsFiniteSet(Scheduled(new))
    /\ \A n \in Names : new[n] = NoRun /\ api[n] # NoRun =>
                          \A m \in Names : new[m] \in {api[m], NoRun}
    /\ \A n \in Names :
         /\ new[n].at # 0 /\ api[n].at = 0 => cached[n].at = 0
         /\ new[n].at = 0 /\ api[n].at # 0 => n \in Prunable
         /\ new[n] = NoRun /\ api[n] # NoRun => n \in Prunable
         /\ api[n].at # 0 /\ api[n].phase \in Terminal /\ new[n].at # 0 => new[n] = api[n]

LEMMA Entries ==
    ASSUME TypeOK
    PROVE  /\ Len(log) \in Nat \ {0}
           /\ \A i \in 1..Len(log) : log[i] \in Lists
           /\ \A i \in 1..Len(log), n \in Names :
                /\ log[i][n] \in RunObjects \cup {NoRun}
                /\ log[i][n].at # 0 => log[i][n] \in RunObjects
           /\ cached = log[1] /\ api = log[Len(log)]
  <1>1. Len(log) \in Nat \ {0} /\ \A i \in 1..Len(log) : log[i] \in Lists
    BY ConstantsAssumption DEF TypeOK, Lists
  <1> QED
    BY <1>1 DEF Lists, NoRun, cached, api

\* The list after a write.
LEMMA Written ==
    ASSUME TypeOK, NEW new \in Lists, Write(new)
    PROVE  /\ Len(log') = Len(log) + 1
           /\ \A i \in 1..Len(log) : log'[i] = log[i]
           /\ log'[Len(log')] = new
           /\ cached' = cached /\ api' = new
  <1>1. log \in Seq(Lists) /\ Len(log) \in Nat \ {0}
    BY Entries DEF TypeOK, Lists
  <1>2. log' = Append(log, new)
    BY DEF Write
  <1>3. /\ Len(log') = Len(log) + 1
        /\ \A i \in 1..Len(log) : log'[i] = log[i]
        /\ log'[Len(log')] = new
    BY <1>1, <1>2
  <1> QED
    BY <1>1, <1>3 DEF cached, api

\* Older is a strict order.
LEMMA OlderOrder ==
    ASSUME NEW a \in RunObjects, NEW b \in RunObjects, NEW c \in RunObjects
    PROVE  /\ ~Older(a, a)
           /\ Older(a, b) /\ Older(b, c) => Older(a, c)
  BY DEF Older, RunObjects

\* Of some runs, there is one such that none of the newer ones is among them.
LEMMA NewestExists ==
    ASSUME NEW X, IsFiniteSet(X), NEW C, C # {}, NEW N \in [C -> SUBSET X],
           \A x, y \in C : y \in N[x] => N[y] \subseteq N[x] /\ y \notin N[y]
    PROVE  \E x \in C : \A y \in C : y \notin N[x]
  <1> DEFINE T == {N[x] : x \in C}
  <1>1. T \subseteq FiniteSubsetsOf(X) /\ T # {}
    BY FS_Subset DEF FiniteSubsetsOf
  <1>2. PICK M \in T : \A L \in T : <<L, M>> \notin StrictSubsetOrdering(X)
    <2>1. IsWellFoundedOn(StrictSubsetOrdering(X), FiniteSubsetsOf(X))
      BY FS_StrictSubsetOrderingWellFounded
    <2> HIDE DEF T
    <2> QED
      BY <1>1, <2>1, WFMin
  <1>3. PICK x \in C : M = N[x]
    BY <1>2
  <1>4. ASSUME NEW y \in C, y \in N[x] PROVE FALSE
    <2>1. N[y] \subseteq N[x] /\ N[y] # N[x] /\ N[y] \in T
      BY <1>4
    <2>2. <<N[y], N[x]>> \in StrictSubsetOrdering(X)
      BY <1>1, <1>3, <2>1 DEF StrictSubsetOrdering, FiniteSubsetsOf
    <2> QED
      BY <1>2, <1>3, <2>1, <2>2
  <1> QED
    BY <1>4

\* Coming, going and staying, at a write.
LEMMA WriteComesGoes ==
    ASSUME TypeOK, HistoryInv, NEW new, Write(new), FairWrite(new), NEW n \in Names
    PROVE  Comes(n)' /\ Goes(n)'
  <1> DEFINE k == Len(log)
  <1>1. /\ k \in Nat \ {0} /\ Len(log') = k + 1
        /\ \A i \in 1..k : log'[i] = log[i]
        /\ log'[k + 1] = new
        /\ cached = log[1] /\ api = log[k]
    BY Entries, Written DEF FairWrite
  <1>2. Comes(n) /\ Goes(n)
    BY DEF HistoryInv
  <1>3. /\ new[n].at # 0 /\ log[k][n].at = 0 => log[1][n].at = 0
        /\ new[n].at = 0 /\ log[k][n].at # 0 => log[1][n].at # 0
    BY <1>1 DEF FairWrite, Prunable
  <1> HIDE DEF k
  <1>4. ASSUME NEW h \in 1..(k + 1), NEW i \in 1..(k + 1), NEW j \in 1..(k + 1), h < i, i < j
        PROVE  /\ ~(log'[h][n].at = 0 /\ log'[i][n].at # 0 /\ log'[j][n].at = 0)
               /\ ~(log'[h][n].at # 0 /\ log'[i][n].at = 0 /\ log'[j][n].at # 0)
    <2>1. h \in 1..k /\ i \in 1..k /\ log'[h] = log[h] /\ log'[i] = log[i]
      BY <1>1, <1>4
    <2>2. CASE j \in 1..k
      BY <1>1, <1>2, <1>4, <2>1, <2>2 DEF Comes, Goes, k
    <2>3. CASE j = k + 1 /\ i < k
      <3>1. k \in 1..k /\ 1 \in 1..k
        BY <1>1
      <3>2. /\ ~(log[h][n].at = 0 /\ log[i][n].at # 0 /\ log[k][n].at = 0)
            /\ ~(log[h][n].at # 0 /\ log[i][n].at = 0 /\ log[k][n].at # 0)
        BY <1>2, <1>4, <2>1, <2>3, <3>1 DEF Comes, Goes, k
      <3>3. h > 1 => /\ ~(log[1][n].at # 0 /\ log[h][n].at = 0 /\ log[i][n].at # 0)
                     /\ ~(log[1][n].at = 0 /\ log[h][n].at # 0 /\ log[i][n].at = 0)
        BY <1>2, <1>4, <2>1, <3>1 DEF Comes, Goes, k
      <3>4. h > 1 \/ h = 1
        BY <2>1
      <3>5. log'[j] = new
        BY <1>1, <2>3
      <3> QED
        BY <1>3, <2>1, <3>2, <3>3, <3>4, <3>5
    <2>4. CASE j = k + 1 /\ i = k
      <3>1. 1 \in 1..k
        BY <1>1
      <3>2. h > 1 => /\ ~(log[1][n].at # 0 /\ log[h][n].at = 0 /\ log[k][n].at # 0)
                     /\ ~(log[1][n].at = 0 /\ log[h][n].at # 0 /\ log[k][n].at = 0)
        BY <1>2, <1>4, <2>1, <2>4, <3>1 DEF Comes, Goes, k
      <3>3. h > 1 \/ h = 1
        BY <2>1
      <3>4. log'[j] = new
        BY <1>1, <2>4
      <3> QED
        BY <1>3, <2>1, <2>4, <3>2, <3>3, <3>4
    <2> QED
      BY <1>1, <1>4, <2>1, <2>2, <2>3, <2>4
  <1> QED
    BY <1>1, <1>4 DEF Comes, Goes

\* What the cache shows as ended is there unchanged, or it is gone.
LEMMA CachedStays ==
    ASSUME TypeOK, HistoryInv, NEW n \in Names, cached[n].at # 0, api[n].at # 0,
           cached[n].phase \in Terminal
    PROVE  api[n] = cached[n]
  <1>1. /\ Len(log) \in Nat \ {0} /\ 1 \in 1..Len(log) /\ Len(log) \in 1..Len(log)
        /\ cached = log[1] /\ api = log[Len(log)]
    BY Entries
  <1>2. Stays(n)
    BY DEF HistoryInv
  <1> QED
    BY <1>1, <1>2 DEF Stays

LEMMA WriteStays ==
    ASSUME TypeOK, HistoryInv, NEW new, Write(new), FairWrite(new), NEW n \in Names
    PROVE  Stays(n)'
  <1> DEFINE k == Len(log)
  <1>1. /\ k \in Nat \ {0} /\ Len(log') = k + 1
        /\ \A i \in 1..k : log'[i] = log[i]
        /\ log'[k + 1] = new
        /\ cached = log[1] /\ api = log[k]
    BY Entries, Written DEF FairWrite
  <1>2. Comes(n) /\ Stays(n)
    BY DEF HistoryInv
  <1>3. /\ new[n].at # 0 /\ log[k][n].at = 0 => log[1][n].at = 0
        /\ new[n].at = 0 /\ log[k][n].at # 0 =>
             log[1][n].at # 0 /\ log[1][n].phase \in Terminal
        /\ log[k][n].at # 0 /\ log[k][n].phase \in Terminal /\ new[n].at # 0 =>
             new[n] = log[k][n]
    BY <1>1 DEF FairWrite, Prunable
  <1>4. 1 \in 1..k /\ k \in 1..k
    BY <1>1
  <1> HIDE DEF k
  <1>5. ASSUME NEW i \in 1..(k + 1), NEW j \in 1..(k + 1), i < j, log'[i][n].at # 0
        PROVE  /\ log'[i][n].phase \in Terminal /\ log'[j][n].at # 0 =>
                    log'[j][n] = log'[i][n]
               /\ log'[i][n].phase = "active" => log'[j][n].at # 0
    <2>1. i \in 1..k /\ log'[i] = log[i]
      BY <1>1, <1>5
    <2>2. CASE j \in 1..k
      BY <1>1, <1>2, <1>5, <2>1, <2>2 DEF Stays, k
    <2>3. CASE j = k + 1
      <3>1. log'[j] = new
        BY <1>1, <2>3
      <3>2. i = k \/ i < k
        BY <1>1, <2>1
      <3>3. i < k => /\ log[i][n].phase \in Terminal /\ log[k][n].at # 0 =>
                          log[k][n] = log[i][n]
                     /\ log[i][n].phase = "active" => log[k][n].at # 0
        BY <1>2, <1>4, <1>5, <2>1 DEF Stays, k
      <3>4. ASSUME log[i][n].phase \in Terminal, new[n].at # 0
            PROVE  new[n] = log[i][n]
        <4>1. log[k][n].at # 0
          <5>1. ASSUME log[k][n].at = 0 PROVE FALSE
            <6>1. log[1][n].at = 0 /\ 1 < i /\ i < k
              BY <1>1, <1>3, <1>5, <2>1, <3>2, <3>4, <5>1
            <6> QED
              BY <1>2, <1>4, <1>5, <2>1, <5>1, <6>1 DEF Comes, k
          <5> QED
            BY <5>1
        <4> QED
          BY <1>3, <3>2, <3>3, <3>4, <4>1
      <3>5. ASSUME log[i][n].phase = "active", new[n].at = 0
            PROVE  FALSE
        <4>1. log[k][n].at # 0 /\ log[i][n].at # 0
          BY <1>5, <2>1, <3>2, <3>3, <3>5
        <4>2. log[1][n].at # 0 /\ log[1][n].phase \in Terminal
          BY <1>3, <3>5, <4>1
        <4>3. i # 1
          BY <3>5, <4>2 DEF Terminal
        <4>4. log[i][n] = log[1][n]
          BY <1>2, <1>4, <2>1, <4>1, <4>2, <4>3 DEF Stays, k
        <4> QED
          BY <3>5, <4>2, <4>4 DEF Terminal
      <3> QED
        BY <2>1, <3>1, <3>4, <3>5
    <2> QED
      BY <1>1, <2>2, <2>3
  <1> QED
    BY <1>1, <1>5 DEF Stays

\* The heart of it: of what the cache shows as ended and a write leaves gone, take
\* the newest.  The runs newer than that one are still there, and they are enough.
LEMMA EnoughLeft ==
    ASSUME TypeOK, HistoryInv, NEW new, FairWrite(new), NEW n \in Names,
           cached[n].at # 0, cached[n].phase \in Terminal, new[n].at = 0
    PROVE  Cardinality(NewerThan(cached[n], new)) >= Limit[cached[n].phase]
  <1> DEFINE r == cached[n]
             X == {x \in Names : cached[x].at # 0 /\ cached[x].phase = r.phase}
             Newer(x) == {m \in X : Older(cached[x], cached[m])}
             C == {x \in X : new[x].at = 0 /\ (x = n \/ x \in Newer(n))}
             N == [x \in C |-> Newer(x)]
  <1>1. /\ cached \in Lists /\ api \in Lists /\ new \in Lists
        /\ \A x \in X : cached[x] \in RunObjects
        /\ 1 \in 1..Len(log) /\ cached = log[1]
    BY Entries DEF Lists, FairWrite, cached
  <1>2. IsFiniteSet(X) /\ IsFiniteSet(Scheduled(new))
    <2>1. IsFiniteSet(Scheduled(cached)) /\ X \in SUBSET Scheduled(cached)
      BY <1>1 DEF HistoryInv, Scheduled
    <2> QED
      BY <2>1, FS_Subset DEF FairWrite
  <1>3. n \in X /\ n \in C
    OBVIOUS
  <1>4. ASSUME NEW x \in X, NEW y \in X, y \in Newer(x)
        PROVE  Newer(y) \subseteq Newer(x) /\ y \notin Newer(y)
    BY <1>1, <1>4, OlderOrder
  <1>5. PICK x \in C : \A y \in C : y \notin Newer(x)
    <2>1. C # {} /\ N \in [C -> SUBSET X]
      BY <1>3
    <2>2. \A a, b \in C : b \in N[a] => N[b] \subseteq N[a] /\ b \notin N[b]
      BY <1>4
    <2>3. PICK a \in C : \A b \in C : b \notin N[a]
      <3> HIDE DEF X, C, N
      <3> QED
        BY <1>2, <2>1, <2>2, NewestExists
    <2> QED
      BY <2>3
  <1>6. x \in X /\ new[x].at = 0 /\ (x = n \/ x \in Newer(n)) /\ cached[x].phase = r.phase
    BY <1>5
  <1>7. \A m \in Newer(x) : m \in X /\ m \in Newer(n) /\ new[m].at # 0
    BY <1>4, <1>5, <1>6, <1>3
  <1>8. \A m \in X : api[m].at # 0 => api[m] = cached[m]
    BY CachedStays
  <1>9. ASSUME NEW m \in Newer(x) PROVE m \in NewerThan(r, new)
    <2>1. m \in X /\ m \in Newer(n) /\ new[m].at # 0
      BY <1>7, <1>9
    <2>2. api[m].at # 0
      BY <2>1 DEF FairWrite
    <2>3. new[m] = cached[m]
      BY <1>8, <2>1, <2>2 DEF FairWrite
    <2> QED
      BY <2>1, <2>3 DEF NewerThan
  <1>10. ASSUME api[x].at = 0, NEW m \in NewerThan(cached[x], api)
         PROVE  m \in NewerThan(r, new)
    <2>1. /\ m \in Names /\ api[m].at # 0 /\ api[m].phase = r.phase
          /\ Older(cached[x], api[m])
      BY <1>6, <1>10 DEF NewerThan
    <2>2. new[m].at # 0
      <3>1. ASSUME new[m].at = 0 PROVE FALSE
        <4>1. m \in Prunable
          BY <2>1, <3>1 DEF FairWrite
        <4>2. cached[m].at # 0 /\ cached[m].phase \in Terminal
          BY <4>1 DEF Prunable
        <4>3. api[m] = cached[m]
          BY <2>1, <4>2, CachedStays
        <4>4. m \in Newer(x)
          BY <2>1, <4>2, <4>3
        <4> QED
          BY <1>7, <3>1, <4>4
      <3> QED
        BY <3>1
    <2>3. new[m] = api[m]
      BY <2>1, <2>2 DEF FairWrite
    <2>4. Older(r, api[m])
      <3>1. api[m] \in RunObjects /\ cached[x] \in RunObjects /\ r \in RunObjects
        BY <1>1, <1>3, <1>6, <2>1 DEF Lists, NoRun
      <3>2. x = n \/ Older(r, cached[x])
        BY <1>6
      <3> QED
        BY <2>1, <3>1, <3>2, OlderOrder
    <2> QED
      BY <2>1, <2>2, <2>3, <2>4 DEF NewerThan
  <1>11. IsFiniteSet(NewerThan(r, new))
    <2>1. NewerThan(r, new) \in SUBSET Scheduled(new)
      BY DEF NewerThan, Scheduled
    <2> QED
      BY <1>2, <2>1, FS_Subset
  <1>12. PICK Y \in SUBSET NewerThan(r, new) : Cardinality(Y) >= Limit[r.phase]
    <2>1. CASE x \in Prunable
      <3>1. Newer(x) = {m \in Names : /\ cached[m].at # 0
                                      /\ cached[m].phase = cached[x].phase
                                      /\ Older(cached[x], cached[m])}
        BY <1>6
      <3>2. Cardinality(Newer(x)) >= Limit[r.phase]
        BY <1>6, <2>1, <3>1 DEF Prunable
      <3> QED
        BY <1>9, <3>2
    <2>2. CASE x \notin Prunable
      <3>1. api[x].at = 0
        BY <1>6, <2>2 DEF FairWrite
      <3>2. Cardinality(NewerThan(cached[x], api)) >= Limit[r.phase]
        BY <1>1, <1>6, <3>1 DEF HistoryInv, PrunedInv
      <3> QED
        BY <1>10, <3>1, <3>2
    <2> QED
      BY <2>1, <2>2
  <1>13. /\ Cardinality(Y) <= Cardinality(NewerThan(r, new))
         /\ Cardinality(Y) \in Nat /\ Cardinality(NewerThan(r, new)) \in Nat
    BY <1>11, FS_Subset, FS_CardinalityType
  <1>14. Limit[r.phase] \in Nat
    BY ConstantsAssumption DEF Limit, Terminal
  <1> QED
    BY <1>12, <1>13, <1>14

LEMMA WriteKeepsHistory ==
    ASSUME TypeOK, HistoryInv, NEW new, Write(new), FairWrite(new)
    PROVE  HistoryInv'
  <1> DEFINE k == Len(log)
  <1>1. /\ k \in Nat \ {0} /\ Len(log') = k + 1 /\ 1 \in 1..k /\ k \in 1..k
        /\ \A i \in 1..k : log'[i] = log[i]
        /\ log'[k + 1] = new /\ api' = new
        /\ cached = log[1] /\ api = log[k]
    BY Entries, Written DEF FairWrite
  <1>2. \A n \in Names : Comes(n)' /\ Goes(n)' /\ Stays(n)'
    BY WriteComesGoes, WriteStays
  <1> HIDE DEF k
  <1>3. \A i \in 1..(k + 1) : i \in 1..k \/ i = k + 1
    BY <1>1
  <1>4. \A i \in 1..Len(log') : IsFiniteSet(Scheduled(log'[i]))
    BY <1>1, <1>3 DEF HistoryInv, FairWrite, k
  <1>5. ASSUME NEW i \in 1..(k + 1), NEW n \in Names, log'[i][n].at # 0,
               log'[i][n].phase \in Terminal, new[n].at = 0
        PROVE  Cardinality(NewerThan(log'[i][n], new)) >= Limit[log'[i][n].phase]
    <2>1. i \in 1..k /\ log'[i] = log[i] /\ log[i][n].at # 0
      BY <1>1, <1>3, <1>5
    <2>2. Comes(n) /\ Stays(n)
      BY DEF HistoryInv
    <2>3. api[n].at # 0 => cached[n].at # 0 /\ cached[n].phase \in Terminal
      BY <1>5 DEF FairWrite, Prunable
    <2>4. cached[n].at # 0
      <3>1. ASSUME cached[n].at = 0 PROVE FALSE
        <4>1. log[1][n].at = 0 /\ log[k][n].at = 0
          BY <1>1, <2>3, <3>1
        <4>2. 1 < i /\ i < k
          BY <1>1, <2>1, <4>1
        <4> QED
          BY <1>1, <2>1, <2>2, <4>1, <4>2 DEF Comes, k
      <3> QED
        BY <3>1
    <2>5. cached[n].phase \in Terminal
      <3>1. cached[n].phase = "active" \/ cached[n].phase \in Terminal
        BY <1>1, <2>4, Entries DEF RunObjects, k
      <3>2. ASSUME cached[n].phase = "active" PROVE api[n].at # 0
        <4>1. k = 1 \/ 1 < k
          BY <1>1
        <4> QED
          BY <1>1, <2>2, <2>4, <3>2, <4>1 DEF Stays, k
      <3> QED
        BY <2>3, <3>1, <3>2
    <2>6. log[i][n] = cached[n]
      <3>1. i = 1 \/ 1 < i
        BY <1>1, <2>1
      <3> QED
        BY <1>1, <2>1, <2>2, <2>4, <2>5, <3>1 DEF Stays, k
    <2> QED
      BY <1>5, <2>1, <2>4, <2>5, <2>6, EnoughLeft
  <1>6. PrunedInv'
    BY <1>1, <1>5 DEF PrunedInv, NewerThan
  <1> QED
    BY <1>2, <1>4, <1>6 DEF HistoryInv

LEMMA DeliveryKeepsHistory ==
    ASSUME TypeOK, HistoryInv, DeliverRuns
    PROVE  HistoryInv' /\ api' = api
  <1> DEFINE k == Len(log)
  <1>1. k \in Nat \ {0} /\ log \in Seq(Lists) /\ k > 1 /\ log' = Tail(log)
    BY Entries DEF TypeOK, Lists, DeliverRuns
  <1>2. /\ Len(log') = k - 1
        /\ \A i \in 1..(k - 1) : i + 1 \in 1..k /\ log'[i] = log[i + 1]
    BY <1>1
  <1>3. api' = api
    BY <1>1, <1>2 DEF api
  <1> HIDE DEF k
  <1>4. ASSUME NEW n \in Names PROVE Comes(n)' /\ Goes(n)'
    <2>1. Comes(n) /\ Goes(n)
      BY DEF HistoryInv
    <2>2. ASSUME NEW h \in 1..(k - 1), NEW i \in 1..(k - 1), NEW j \in 1..(k - 1),
                 h < i, i < j
          PROVE  /\ ~(log'[h][n].at = 0 /\ log'[i][n].at # 0 /\ log'[j][n].at = 0)
                 /\ ~(log'[h][n].at # 0 /\ log'[i][n].at = 0 /\ log'[j][n].at # 0)
      <3>1. /\ h + 1 \in 1..k /\ i + 1 \in 1..k /\ j + 1 \in 1..k
            /\ h + 1 < i + 1 /\ i + 1 < j + 1
        BY <1>1, <1>2, <2>2
      <3>2. log'[h] = log[h + 1] /\ log'[i] = log[i + 1] /\ log'[j] = log[j + 1]
        BY <1>2
      <3>3. /\ ~(log[h + 1][n].at = 0 /\ log[i + 1][n].at # 0 /\ log[j + 1][n].at = 0)
            /\ ~(log[h + 1][n].at # 0 /\ log[i + 1][n].at = 0 /\ log[j + 1][n].at # 0)
        BY <2>1, <3>1 DEF Comes, Goes, k
      <3> QED
        BY <3>2, <3>3
    <2> QED
      BY <1>2, <2>2 DEF Comes, Goes
  <1>5. ASSUME NEW n \in Names PROVE Stays(n)'
    <2>1. Stays(n)
      BY DEF HistoryInv
    <2>2. ASSUME NEW i \in 1..(k - 1), NEW j \in 1..(k - 1), i < j, log'[i][n].at # 0
          PROVE  /\ log'[i][n].phase \in Terminal /\ log'[j][n].at # 0 =>
                      log'[j][n] = log'[i][n]
                 /\ log'[i][n].phase = "active" => log'[j][n].at # 0
      <3>1. i + 1 \in 1..k /\ j + 1 \in 1..k /\ i + 1 < j + 1
        BY <1>1, <2>2
      <3>2. log'[i] = log[i + 1] /\ log'[j] = log[j + 1]
        BY <1>2
      <3>3. log[i + 1][n].at # 0 =>
              /\ log[i + 1][n].phase \in Terminal /\ log[j + 1][n].at # 0 =>
                   log[j + 1][n] = log[i + 1][n]
              /\ log[i + 1][n].phase = "active" => log[j + 1][n].at # 0
        BY <2>1, <3>1 DEF Stays, k
      <3> QED
        BY <2>2, <3>2, <3>3
    <2> QED
      BY <1>2, <2>2 DEF Stays
  <1>6. \A i \in 1..Len(log') : IsFiniteSet(Scheduled(log'[i]))
    BY <1>2 DEF HistoryInv, k
  <1>7. PrunedInv'
    <2>1. ASSUME NEW i \in 1..(k - 1), NEW n \in Names, log'[i][n].at # 0,
                 log'[i][n].phase \in Terminal, api[n].at = 0
          PROVE  Cardinality(NewerThan(log'[i][n], api)) >= Limit[log'[i][n].phase]
      <3>1. i + 1 \in 1..k /\ log'[i] = log[i + 1]
        BY <1>2
      <3> QED
        BY <2>1, <3>1 DEF HistoryInv, PrunedInv, k
    <2> QED
      BY <1>2, <1>3, <2>1 DEF PrunedInv, NewerThan
  <1> QED
    BY <1>3, <1>4, <1>5, <1>6, <1>7 DEF HistoryInv

\* Removing what may be pruned, all of it or a part.
LEMMA RemovalIsFair ==
    ASSUME TypeOK, HistoryInv, NEW names \in SUBSET Prunable
    PROVE  FairWrite([m \in Names |-> IF m \in names THEN NoRun ELSE api[m]])
  <1> DEFINE new == [m \in Names |-> IF m \in names THEN NoRun ELSE api[m]]
  <1>1. api \in Lists /\ new \in Lists
    BY ListTypes DEF Lists
  <1>2. IsFiniteSet(Scheduled(api))
    BY Entries DEF HistoryInv
  <1>3. Scheduled(new) \in SUBSET Scheduled(api)
    BY DEF Scheduled, NoRun
  <1>4. IsFiniteSet(Scheduled(new))
    BY <1>2, <1>3, FS_Subset
  <1>5. ASSUME NEW m \in Names
        PROVE  /\ new[m].at # 0 /\ api[m].at = 0 => cached[m].at = 0
               /\ new[m].at = 0 /\ api[m].at # 0 => m \in Prunable
               /\ new[m] = NoRun /\ api[m] # NoRun => m \in Prunable
               /\ api[m].at # 0 /\ api[m].phase \in Terminal /\ new[m].at # 0 =>
                    new[m] = api[m]
    <2>1. CASE m \in names
      BY <2>1 DEF NoRun
    <2>2. CASE m \notin names
      BY <2>2
    <2> QED
      BY <2>1, <2>2
  <1> QED
    BY <1>1, <1>4, <1>5 DEF FairWrite

\* One run is created, or ends.
LEMMA EntryIsFair ==
    ASSUME TypeOK, HistoryInv, NEW n \in Names, NEW run \in RunObjects,
           \/ api[n] = NoRun /\ (run.at # 0 => cached[n] = NoRun)
           \/ api[n].phase = "active" /\ run.at = api[n].at
    PROVE  FairWrite([api EXCEPT ![n] = run])
  <1> DEFINE new == [api EXCEPT ![n] = run]
  <1>1. api \in Lists /\ new \in Lists
    BY ListTypes DEF Lists
  <1>2. IsFiniteSet(Scheduled(api) \cup {n})
    BY Entries, FS_AddElement DEF HistoryInv
  <1>3. Scheduled(new) \in SUBSET (Scheduled(api) \cup {n})
    BY <1>1 DEF Scheduled, Lists
  <1>4. IsFiniteSet(Scheduled(new))
    BY <1>2, <1>3, FS_Subset
  <1>5. new[n] = run /\ \A m \in Names : m # n => new[m] = api[m]
    BY <1>1 DEF Lists
  <1>6. run # NoRun /\ NoRun.at = 0 /\ "active" \notin Terminal
    BY DEF RunObjects, NoRun, Terminal
  <1> HIDE DEF new
  <1> QED
    BY <1>1, <1>4, <1>5, <1>6 DEF FairWrite, new

\* What a step does to the list of runs.
LEMMA ListSteps ==
    ASSUME TypeOK, HistoryInv, [Next]_vars
    PROVE  \/ UNCHANGED log
           \/ DeliverRuns
           \/ \E new : Write(new) /\ FairWrite(new)
  <1> USE DEF list
  <1>1. CASE EnsureScheduledRun
    <2>1. PICK t \in Due(seen.last) :
            \/ UNCHANGED log
            \/ /\ RunMissing(RunName(t)) /\ api[RunName(t)] = NoRun
               /\ Write([api EXCEPT ![RunName(t)] =
                           [at |-> t, phase |-> "active", created |-> now, completed |-> 0]])
      BY <1>1 DEF EnsureScheduledRun
    <2>2. t \in Nat /\ RunName(t) \in Names
      BY <2>1, ConstantsAssumption DEF Due, Names
    <2>3. [at |-> t, phase |-> "active", created |-> now, completed |-> 0] \in RunObjects
      BY <2>2 DEF RunObjects, TypeOK
    <2> QED
      BY <2>1, <2>2, <2>3, EntryIsFair DEF RunMissing
  <1>2. CASE PruneHistory \/ Abort
    <2>1. UNCHANGED log \/ \E names \in SUBSET Prunable : Remove(names)
      BY <1>2 DEF PruneHistory, Abort
    <2> QED
      BY <2>1, RemovalIsFair DEF Remove
  <1>3. ASSUME NEW n \in Names, RunEnds(n)
        PROVE  \E new : Write(new) /\ FairWrite(new)
    <2>1. PICK end \in Terminal :
            Write([api EXCEPT ![n].phase = end, ![n].completed = now])
      BY <1>3 DEF RunEnds, EndRun
    <2>2. api[n] \in RunObjects /\ api[n].phase = "active" /\ api \in Lists
      BY <1>3, ListTypes DEF RunEnds, EndRun, Lists, NoRun
    <2> DEFINE run == [[api[n] EXCEPT !.phase = end] EXCEPT !.completed = now]
    <2>3. run \in RunObjects /\ run.at = api[n].at
      BY <2>2 DEF RunObjects, TypeOK
    <2>4. [api EXCEPT ![n].phase = end, ![n].completed = now] = [api EXCEPT ![n] = run]
      BY <2>2 DEF Lists
    <2> QED
      BY <2>1, <2>2, <2>3, <2>4, EntryIsFair
  <1>4. ASSUME NEW n \in Names, CreateManualRun(n)
        PROVE  \E new : Write(new) /\ FairWrite(new)
    <2> DEFINE run == [at |-> 0, phase |-> "active", created |-> now, completed |-> 0]
    <2>1. api[n] = NoRun /\ Write([api EXCEPT ![n] = run])
      BY <1>4 DEF CreateManualRun
    <2>2. run \in RunObjects /\ run.at = 0
      BY DEF RunObjects, TypeOK
    <2> QED
      BY <2>1, <2>2, EntryIsFair
  <1>5. CASE \/ FailSchedule \/ NothingDue \/ SkipTick \/ RunAlreadyExists \/ PatchStatus
             \/ ClockTicks \/ EditSpec \/ DeliverSchedule \/ UNCHANGED vars
    BY <1>5 DEF FailSchedule, NothingDue, SkipTick, RunAlreadyExists, PatchStatus,
                ClockTicks, EditSpec, DeliverSchedule, vars
  <1> QED
    BY <1>1, <1>2, <1>3, <1>4, <1>5 DEF Next, Reconcile

LEMMA HistoryNext ==
    ASSUME TypeOK, HistoryInv, [Next]_vars
    PROVE  HistoryInv'
  <1>1. CASE UNCHANGED log
    BY <1>1 DEF HistoryInv, Comes, Goes, Stays, PrunedInv, NewerThan, api
  <1> QED
    BY <1>1, ListSteps, DeliveryKeepsHistory, WriteKeepsHistory

LEMMA HistoryInit == Init => HistoryInv
  <1> SUFFICES ASSUME Init PROVE HistoryInv
    OBVIOUS
  <1>1. TypeOK
    BY TypeInit
  <1>2. Len(log) = 1 /\ log[1] = [n \in Names |-> NoRun]
    BY DEF Init
  <1>3. \A i \in 1..Len(log) : i = 1 /\ log[i] = [n \in Names |-> NoRun]
    BY <1>2
  <1>4. \A i \in 1..Len(log), n \in Names : log[i][n].at = 0
    BY <1>3 DEF NoRun
  <1>5. \A n \in Names : Comes(n) /\ Goes(n) /\ Stays(n)
    BY <1>4 DEF Comes, Goes, Stays
  <1>6. \A i \in 1..Len(log) : Scheduled(log[i]) = {}
    BY <1>4 DEF Scheduled
  <1> QED
    BY <1>4, <1>5, <1>6, FS_EmptySet DEF HistoryInv, PrunedInv

\* Whatever the lag of the cache, the deletions that fail and the order in which runs
\* end, pruning leaves the active runs, the runs created by hand and of each outcome
\* the newest runs up to its limit (pruneTerminalRuns, which deletes by name what the
\* cached list shows); a run that takes a pruned run's name is the one exception.
THEOREM PruningSparesHistory == Spec => HistoryKept
  <1> DEFINE Kept ==
        \A n \in Names :
          api[n] # NoRun /\ api'[n] = NoRun =>
            \/ api[n].at = 0 /\ cached[n].at # 0
            \/ /\ api[n].at # 0 /\ api[n].phase \in Terminal
               /\ Cardinality({m \in Names : /\ api'[m].at # 0
                                             /\ api'[m].phase = api[n].phase
                                             /\ Older(api[n], api[m])})
                    >= Limit[api[n].phase]
  <1>1. ASSUME TypeOK, HistoryInv, [Next]_vars PROVE Kept
    <2> SUFFICES ASSUME NEW n \in Names, api[n] # NoRun, api'[n] = NoRun
                 PROVE  \/ api[n].at = 0 /\ cached[n].at # 0
                        \/ /\ api[n].at # 0 /\ api[n].phase \in Terminal
                           /\ Cardinality({m \in Names : /\ api'[m].at # 0
                                                         /\ api'[m].phase = api[n].phase
                                                         /\ Older(api[n], api[m])})
                                >= Limit[api[n].phase]
      OBVIOUS
    <2>1. ~UNCHANGED log /\ ~DeliverRuns
      BY <1>1, DeliveryKeepsHistory DEF api
    <2>2. PICK new : Write(new) /\ FairWrite(new)
      BY <1>1, <2>1, ListSteps
    <2>3. api' = new
      BY <1>1, <2>2, Written DEF FairWrite
    <2>4. n \in Prunable
      BY <2>2, <2>3 DEF FairWrite
    <2>5. cached[n].at # 0 /\ cached[n].phase \in Terminal
      BY <2>4 DEF Prunable
    <2>6. CASE api[n].at # 0
      <3>1. api[n] = cached[n]
        BY <1>1, <2>5, <2>6, CachedStays
      <3>2. new[n].at = 0
        BY <2>3 DEF NoRun
      <3>3. Cardinality(NewerThan(cached[n], new)) >= Limit[cached[n].phase]
        BY <1>1, <2>2, <2>5, <3>2, EnoughLeft
      <3>4. \A m \in Names : new[m].at # 0 => new[m] = api[m]
        BY <2>2, <2>3 DEF FairWrite, NoRun
      <3> QED
        BY <2>3, <2>5, <2>6, <3>1, <3>3, <3>4 DEF NewerThan
    <2> QED
      BY <2>5, <2>6
  <1>2. TypeOK /\ HistoryInv /\ [Next]_vars => HistoryInv'
    BY HistoryNext
  <1>3. TypeOK /\ HistoryInv /\ [Next]_vars => [Kept]_vars
    BY <1>1
  <1> QED
    BY <1>2, <1>3, HistoryInit, ScheduleTypeCorrect, PTL DEF Spec, HistoryKept

-----------------------------------------------------------------------------
(* One run at a time.  With the default policy, Forbid, with history limits *)
(* of at least one, and with watches that catch up between two ticks, the   *)
(* run of the latest tick stays until there is a run of a later one: no     *)
(* other run is active with it, so none ends after it, and the newest run   *)
(* of an outcome is not pruned.  That is what keeps a tick from having two  *)
(* runs when the manager stops between creating and recording.              *)

Regular ==
    /\ Policy = "Forbid"
    /\ PromptWatch
    /\ SuccessfulRunsHistoryLimit > 0 /\ FailedRunsHistoryLimit > 0

\* The latest run is there, and was created before the next tick.
Born == api[RunName(latest)].created

LatestInv ==
    latest # 0 =>
      /\ latest \in Ticks /\ latest <= now
      /\ api[RunName(latest)].at = latest
      /\ Born <= now
      /\ \A u \in Ticks : latest < u => Born < u

\* A run in a list at time `time`, when `last` is the latest tick with a run and
\* `born` the time its run was created: all others had ended by then.
Settled(r, n, last, born, time) ==
    /\ r.completed <= time
    /\ r.at # 0 =>
         /\ r.at \in Ticks /\ r.at <= last /\ n = RunName(r.at)
         /\ r.created <= time
         /\ r.phase \in Terminal => r.created <= r.completed
         /\ r.at = last => r.created = born
         /\ r.at # last => r.created < born /\ r.completed <= born

ListsInv == \A i \in 1..Len(log), n \in Names : Settled(log[i][n], n, latest, Born, now)

NoTickSince == \A u \in Ticks : u <= now => u <= latest

\* An active run is the latest one, and the cache has shown it since the tick.
ActiveInv ==
    \A n \in Names : api[n].at # 0 /\ api[n].phase = "active" =>
      /\ api[n].at = latest
      /\ NoTickSince \/ \A i \in 1..Len(log) : log[i][n] = api[n]

OneRunInv ==
    /\ LatestInv
    /\ ListsInv
    /\ ActiveInv

\* The latest run is not pruned.
LEMMA LatestNotPrunable ==
    ASSUME TypeOK, HistoryInv, OneRunInv, Regular, latest # 0
    PROVE  RunName(latest) \notin Prunable
  <1> DEFINE n == RunName(latest)
  <1>1. n \in Names /\ api[n].at = latest
    BY DEF OneRunInv, LatestInv, Names
  <1> SUFFICES ASSUME n \in Prunable PROVE FALSE
    OBVIOUS
  <1>2. cached[n].at # 0 /\ cached[n].phase \in Terminal
    BY DEF Prunable
  <1>3. cached[n] = api[n]
    BY <1>1, <1>2, CachedStays
  <1>4. /\ 1 \in 1..Len(log) /\ cached = log[1]
        /\ \A m \in Names : cached[m].at # 0 => cached[m] \in RunObjects
    BY Entries
  <1>5. \A m \in Names : Settled(cached[m], m, latest, Born, now)
    BY <1>4 DEF OneRunInv, ListsInv
  <1>6. cached[n] \in RunObjects /\ cached[n].created = Born /\ Born <= cached[n].completed
    BY <1>1, <1>2, <1>3, <1>4, <1>5 DEF Settled, Born
  <1>7. ASSUME NEW m \in Names, cached[m].at # 0, Older(cached[n], cached[m])
        PROVE  FALSE
    <2>1. cached[m] \in RunObjects /\ Settled(cached[m], m, latest, Born, now)
      BY <1>4, <1>5, <1>7
    <2>2. CASE cached[m].at = latest
      <3>1. m = n
        BY <1>7, <2>1, <2>2 DEF Settled
      <3> QED
        BY <1>6, <1>7, <3>1, OlderOrder
    <2>3. CASE cached[m].at # latest
      <3>1. cached[m].created < Born /\ cached[m].completed <= Born
        BY <1>7, <2>1, <2>3 DEF Settled
      <3>2. Born \in Nat
        BY <1>6 DEF RunObjects
      <3> QED
        BY <1>6, <1>7, <2>1, <3>1, <3>2 DEF Older, RunObjects
    <2> QED
      BY <2>2, <2>3
  <1> DEFINE N == {m \in Names : /\ cached[m].at # 0 /\ cached[m].phase = cached[n].phase
                                 /\ Older(cached[n], cached[m])}
  <1>8. N = {}
    BY <1>7
  <1>9. Cardinality(N) >= Limit[cached[n].phase]
    BY DEF Prunable
  <1>10. Cardinality(N) = 0
    BY <1>8, FS_EmptySet
  <1>11. Limit[cached[n].phase] \in Nat /\ Limit[cached[n].phase] > 0
    BY <1>2, ConstantsAssumption DEF Limit, Terminal, Regular
  <1> QED
    BY <1>9, <1>10, <1>11

\* What a reconciliation finds when it creates a run.
LEMMA CreationIsNew ==
    ASSUME TypeOK, OneRunInv, Regular, ~HasActiveRun, NEW t \in Due(seen.last),
           api[RunName(t)] = NoRun
    PROVE  /\ t \in Ticks /\ t \in Nat \ {0} /\ t <= now /\ RunName(t) \in Names
           /\ latest < t
           /\ \A u \in Ticks : u <= now => u <= t
           /\ \A n \in Names : ~(api[n].at # 0 /\ api[n].phase = "active")
  <1>1. /\ t \in Ticks /\ t \in Nat \ {0} /\ t <= now /\ RunName(t) \in Names
        /\ \A u \in Ticks : u <= now => u <= t
    BY ConstantsAssumption DEF Due, Names
  <1>2. latest \in Nat /\ latest <= t
    <2>1. latest \in Nat
      BY DEF TypeOK
    <2>2. latest # 0 => latest \in Ticks /\ latest <= now
      BY DEF OneRunInv, LatestInv
    <2> QED
      BY <1>1, <2>1, <2>2
  <1>3. latest # t
    BY <1>1 DEF OneRunInv, LatestInv, NoRun
  <1>4. latest < t
    BY <1>1, <1>2, <1>3
  <1>5. ASSUME NEW n \in Names, api[n].at # 0, api[n].phase = "active" PROVE FALSE
    <2>1. ~NoTickSince
      BY <1>1, <1>2, <1>4 DEF NoTickSince
    <2>2. cached[n] = api[n]
      BY <1>5, <2>1, Entries DEF OneRunInv, ActiveInv
    <2> QED
      BY <1>5, <2>2 DEF HasActiveRun
  <1> QED
    BY <1>1, <1>4, <1>5

\* Before the first run there are no scheduled ones, and it does not matter when
\* the latest was created.
LEMMA NoneBefore ==
    ASSUME NEW r \in RunObjects \cup {NoRun}, NEW n, NEW born, NEW other, NEW time,
           Settled(r, n, 0, born, time)
    PROVE  r.at = 0 /\ Settled(r, n, 0, other, time)
  <1>1. r.at \in Nat
    BY DEF RunObjects, NoRun
  <1>2. r.at = 0
    BY <1>1, ConstantsAssumption DEF Settled
  <1> QED
    BY <1>2 DEF Settled

\* A write that leaves the latest run what it is and makes no run active.
LEMMA WriteKeepsLatest ==
    ASSUME TypeOK, OneRunInv, NEW new \in Lists, Write(new), UNCHANGED <<latest, now>>,
           latest # 0 => /\ new[RunName(latest)].at = latest
                         /\ new[RunName(latest)].created = Born,
           \A n \in Names : Settled(new[n], n, latest, Born, now),
           \A n \in Names : new[n].at # 0 /\ new[n].phase = "active" => new[n] = api[n]
    PROVE  OneRunInv'
  <1>1. /\ Len(log) \in Nat \ {0} /\ Len(log') = Len(log) + 1
        /\ \A i \in 1..Len(log) : log'[i] = log[i]
        /\ log'[Len(log')] = new
        /\ api' = new
    BY Entries, Written
  <1>2. latest # 0 => Born' = Born
    BY <1>1 DEF Born
  <1>3. LatestInv'
    BY <1>1, <1>2 DEF OneRunInv, LatestInv, Born
  <1>4. ASSUME NEW i \in 1..Len(log'), NEW n \in Names
        PROVE  Settled(log'[i][n], n, latest, Born', now)
    <2>1. i \in 1..Len(log) \/ i = Len(log')
      BY <1>1
    <2>2. Settled(log'[i][n], n, latest, Born, now)
      BY <1>1, <2>1 DEF OneRunInv, ListsInv
    <2>3. log'[i][n] \in RunObjects \cup {NoRun}
      BY <1>1, <2>1, Entries DEF Lists
    <2> QED
      BY <1>2, <2>2, <2>3, NoneBefore
  <1>5. ListsInv'
    BY <1>4 DEF ListsInv
  <1>6. ASSUME NEW n \in Names, new[n].at # 0, new[n].phase = "active"
        PROVE  /\ new[n].at = latest
               /\ NoTickSince \/ \A i \in 1..Len(log') : log'[i][n] = new[n]
    <2>1. new[n] = api[n]
      BY <1>6
    <2>2. api[n].at = latest /\ (NoTickSince \/ \A i \in 1..Len(log) : log[i][n] = api[n])
      BY <1>6, <2>1 DEF OneRunInv, ActiveInv
    <2>3. \A i \in 1..Len(log') : i \in 1..Len(log) \/ i = Len(log')
      BY <1>1
    <2> QED
      BY <1>1, <2>1, <2>2, <2>3
  <1>7. NoTickSince' = NoTickSince
    BY DEF NoTickSince
  <1>8. ActiveInv'
    BY <1>1, <1>6, <1>7 DEF ActiveInv
  <1> QED
    BY <1>3, <1>5, <1>8 DEF OneRunInv

\* A run is created for a tick.
LEMMA CreationIsLatest ==
    ASSUME TypeOK, OneRunInv, Regular, ~HasActiveRun, NEW t \in Due(seen.last),
           api[RunName(t)] = NoRun, now' = now, latest' = t,
           Write([api EXCEPT ![RunName(t)] =
                    [at |-> t, phase |-> "active", created |-> now, completed |-> 0]])
    PROVE  OneRunInv'
  <1> DEFINE run == [at |-> t, phase |-> "active", created |-> now, completed |-> 0]
             new == [api EXCEPT ![RunName(t)] = run]
  <1>0. /\ t \in Ticks /\ t \in Nat \ {0} /\ t <= now /\ RunName(t) \in Names
        /\ latest < t
        /\ \A u \in Ticks : u <= now => u <= t
        /\ \A n \in Names : ~(api[n].at # 0 /\ api[n].phase = "active")
    BY CreationIsNew
  <1>1. new \in Lists /\ now \in Nat /\ latest \in Nat
    BY <1>0, NewRunType DEF TypeOK
  <1>2. new[RunName(t)] = run /\ \A n \in Names : n # RunName(t) => new[n] = api[n]
    BY <1>0, ListTypes DEF Lists
  <1>3. run.at = t /\ run.created = now /\ run.completed = 0 /\ run.phase = "active"
    OBVIOUS
  <1> HIDE DEF new, run
  <1>4. /\ Len(log) \in Nat \ {0} /\ Len(log') = Len(log) + 1
        /\ \A i \in 1..Len(log) : log'[i] = log[i]
        /\ log'[Len(log')] = new
        /\ api' = new
    BY <1>1, Entries, Written DEF new, run
  <1>5. Born' = now
    BY <1>2, <1>3, <1>4 DEF Born
  <1>6. \A u \in Ticks : t < u => now < u
    BY <1>0, <1>1, ConstantsAssumption
  <1>7. LatestInv'
    BY <1>0, <1>1, <1>2, <1>3, <1>4, <1>5, <1>6 DEF LatestInv
  <1>8. ASSUME NEW r \in RunObjects \cup {NoRun}, NEW n \in Names,
               Settled(r, n, latest, Born, now)
        PROVE  Settled(r, n, t, now, now)
    <2>1. CASE r.at = 0
      BY <1>8, <2>1 DEF Settled
    <2>2. CASE r.at # 0
      <3>1. r \in RunObjects
        BY <2>2 DEF NoRun
      <3>2. r.at <= latest /\ r.at \in Nat /\ latest # 0 /\ r.at # t /\ r.at <= t
        BY <1>0, <1>1, <1>8, <2>2, <3>1 DEF Settled, RunObjects
      <3>3. Born < t /\ Born \in Nat
        <4>1. api[RunName(latest)] \in RunObjects
          BY <3>2, ListTypes DEF OneRunInv, LatestInv, Names, Lists, NoRun
        <4> QED
          BY <1>0, <3>2, <4>1 DEF OneRunInv, LatestInv, Born, RunObjects
      <3>4. r.created < now
        BY <1>0, <1>1, <1>8, <2>2, <3>1, <3>3 DEF Settled, RunObjects
      <3> QED
        BY <1>8, <2>2, <3>2, <3>4 DEF Settled
    <2> QED
      BY <2>1, <2>2
  <1>9. ASSUME NEW i \in 1..Len(log'), NEW n \in Names
        PROVE  Settled(log'[i][n], n, t, now, now)
    <2>1. CASE i \in 1..Len(log)
      BY <1>4, <1>8, <2>1, Entries DEF OneRunInv, ListsInv
    <2>2. CASE i = Len(log') /\ n # RunName(t)
      <3>1. api[n] \in RunObjects \cup {NoRun} /\ Settled(api[n], n, latest, Born, now)
        BY Entries DEF OneRunInv, ListsInv
      <3> QED
        BY <1>2, <1>4, <1>8, <2>2, <3>1
    <2>3. CASE i = Len(log') /\ n = RunName(t)
      <3>1. log'[i][n] = run
        BY <1>2, <1>4, <2>3
      <3> QED
        BY <1>0, <1>1, <1>3, <2>3, <3>1 DEF Settled, Terminal
    <2> QED
      BY <1>4, <2>1, <2>2, <2>3
  <1>10. ListsInv'
    BY <1>5, <1>9 DEF ListsInv
  <1>11. NoTickSince'
    BY <1>0 DEF NoTickSince
  <1>12. ActiveInv'
    BY <1>0, <1>2, <1>3, <1>4, <1>11 DEF ActiveInv
  <1> QED
    BY <1>7, <1>10, <1>12 DEF OneRunInv

\* The time passes.  The watches have caught up before a tick.
LEMMA ClockKeepsOneRun ==
    ASSUME TypeOK, OneRunInv, Regular, ClockTicks
    PROVE  OneRunInv'
  <1>1. now \in Nat /\ latest \in Nat /\ now' = now + 1 /\ UNCHANGED <<log, latest>>
    BY DEF ClockTicks, TypeOK, list
  <1>2. api' = api /\ Born' = Born
    BY <1>1 DEF api, Born
  <1>3. LatestInv'
    <2>1. latest # 0 => Born \in Nat
      <3>1. latest # 0 => api[RunName(latest)] \in RunObjects
        BY ListTypes DEF OneRunInv, LatestInv, Names, Lists, NoRun
      <3> QED
        BY <3>1 DEF Born, RunObjects
    <2> QED
      BY <1>1, <1>2, <2>1 DEF OneRunInv, LatestInv
  <1>4. ASSUME NEW r \in RunObjects \cup {NoRun}, NEW n \in Names,
               Settled(r, n, latest, Born, now)
        PROVE  Settled(r, n, latest, Born, now + 1)
    <2>1. r.completed \in Nat /\ r.created \in Nat
      BY DEF RunObjects, NoRun
    <2> QED
      BY <1>1, <1>4, <2>1 DEF Settled
  <1>5. ListsInv'
    BY <1>1, <1>2, <1>4, Entries DEF OneRunInv, ListsInv
  <1>6. CASE now + 1 \in Ticks
    <2>1. Len(log) = 1
      BY <1>6 DEF ClockTicks, Regular, CaughtUp
    <2>2. \A i \in 1..Len(log) : log[i] = api
      BY <2>1 DEF api
    <2>3. ActiveInv'
      BY <1>1, <1>2, <2>2 DEF OneRunInv, ActiveInv
    <2> QED
      BY <1>3, <1>5, <2>3 DEF OneRunInv
  <1>7. CASE now + 1 \notin Ticks
    <2>1. \A u \in Ticks : u <= now + 1 => u <= now
      BY <1>1, <1>7, ConstantsAssumption
    <2>2. NoTickSince => NoTickSince'
      BY <1>1, <2>1 DEF NoTickSince
    <2>3. ActiveInv'
      BY <1>1, <1>2, <2>2 DEF OneRunInv, ActiveInv
    <2> QED
      BY <1>3, <1>5, <2>3 DEF OneRunInv
  <1> QED
    BY <1>6, <1>7

\* The cache takes the next state of the list.
LEMMA DeliveryKeepsOneRun ==
    ASSUME TypeOK, HistoryInv, OneRunInv, DeliverRuns
    PROVE  OneRunInv'
  <1>1. /\ \A i \in 1..Len(log') : i + 1 \in 1..Len(log) /\ log'[i] = log[i + 1]
        /\ UNCHANGED <<latest, now>>
    <2>1. log \in Seq(Lists) /\ Len(log) \in Nat /\ Len(log) > 1 /\ log' = Tail(log)
      BY DEF TypeOK, Lists, DeliverRuns
    <2> QED
      BY <2>1 DEF DeliverRuns
  <1>2. api' = api /\ Born' = Born
    BY <1>1, DeliveryKeepsHistory DEF Born
  <1>3. LatestInv'
    BY <1>1, <1>2 DEF OneRunInv, LatestInv
  <1>4. ListsInv'
    BY <1>1, <1>2 DEF OneRunInv, ListsInv
  <1>5. NoTickSince' = NoTickSince
    BY <1>1 DEF NoTickSince
  <1>6. ActiveInv'
    BY <1>1, <1>2, <1>5 DEF OneRunInv, ActiveInv
  <1> QED
    BY <1>3, <1>4, <1>6 DEF OneRunInv

\* Runs are pruned, all that may be or some.
LEMMA PruningKeepsOneRun ==
    ASSUME TypeOK, HistoryInv, OneRunInv, Regular, NEW names \in SUBSET Prunable,
           Remove(names), UNCHANGED <<latest, now>>
    PROVE  OneRunInv'
  <1>1. CASE UNCHANGED log
    BY <1>1 DEF OneRunInv, LatestInv, ListsInv, ActiveInv, NoTickSince, Born, api
  <1> DEFINE new == [m \in Names |-> IF m \in names THEN NoRun ELSE api[m]]
  <1>2. CASE Write(new)
    <2>1. new \in Lists
      BY ListTypes DEF Lists
    <2>2. \A m \in Names : new[m] = NoRun \/ new[m] = api[m]
      OBVIOUS
    <2>3. latest # 0 => new[RunName(latest)] = api[RunName(latest)]
      BY LatestNotPrunable DEF OneRunInv, LatestInv, Names
    <2>4. \A m \in Names : Settled(api[m], m, latest, Born, now)
      BY Entries DEF OneRunInv, ListsInv
    <2>5. \A m \in Names : Settled(NoRun, m, latest, Born, now)
      BY DEF Settled, NoRun, TypeOK
    <2>6. NoRun.at = 0
      BY DEF NoRun
    <2>7. latest # 0 => api[RunName(latest)].at = latest
      BY DEF OneRunInv, LatestInv
    <2>8. latest # 0 => api[RunName(latest)].created = Born
      BY DEF Born
    <2> HIDE DEF new
    <2> QED
      BY <1>2, <2>1, <2>2, <2>3, <2>4, <2>5, <2>6, <2>7, <2>8, WriteKeepsLatest
  <1> QED
    BY <1>1, <1>2 DEF Remove

\* A run ends, or is created by hand.
LEMMA EntryKeepsOneRun ==
    ASSUME TypeOK, OneRunInv, NEW n \in Names, NEW run \in RunObjects,
           Write([api EXCEPT ![n] = run]), UNCHANGED <<latest, now>>,
           \/ /\ api[n].phase = "active" /\ run.phase \in Terminal
              /\ run.at = api[n].at /\ run.created = api[n].created
              /\ run.completed = now
           \/ api[n] = NoRun /\ run.at = 0 /\ run.completed = 0
    PROVE  OneRunInv'
  <1> DEFINE new == [api EXCEPT ![n] = run]
  <1>1. /\ new \in Lists /\ api \in Lists /\ now \in Nat
        /\ new[n] = run /\ \A m \in Names : m # n => new[m] = api[m]
    BY ListTypes DEF Lists, TypeOK
  <1> HIDE DEF new
  <1>2. \A m \in Names : Settled(api[m], m, latest, Born, now)
    BY Entries DEF OneRunInv, ListsInv
  <1>3. Settled(run, n, latest, Born, now)
    <2>1. CASE run.at = 0
      <3>1. run.completed <= now
        BY <1>1 DEF RunObjects
      <3> QED
        BY <2>1, <3>1 DEF Settled
    <2>2. CASE run.at # 0
      <3>1. /\ api[n].at # 0 /\ api[n].phase = "active" /\ run.at = api[n].at
            /\ run.created = api[n].created /\ run.completed = now
        BY <2>2
      <3>2. api[n].at = latest
        BY <3>1 DEF OneRunInv, ActiveInv
      <3>3. Settled(api[n], n, latest, Born, now)
        BY <1>2
      <3> QED
        BY <1>1, <2>2, <3>1, <3>2, <3>3 DEF Settled
    <2> QED
      BY <2>1, <2>2
  <1>4. latest # 0 => new[RunName(latest)].at = latest /\ new[RunName(latest)].created = Born
    <2>1. ASSUME latest # 0
          PROVE  new[RunName(latest)].at = latest /\ new[RunName(latest)].created = Born
      <3>1. RunName(latest) \in Names /\ api[RunName(latest)].at = latest
        BY <2>1 DEF OneRunInv, LatestInv, Names
      <3>2. CASE n = RunName(latest)
        BY <1>1, <2>1, <3>1, <3>2 DEF NoRun, Born
      <3>3. CASE n # RunName(latest)
        BY <1>1, <3>1, <3>3 DEF Born
      <3> QED
        BY <3>2, <3>3
    <2> QED
      BY <2>1
  <1>5. \A m \in Names : new[m].at # 0 /\ new[m].phase = "active" => new[m] = api[m]
    BY <1>1 DEF Terminal
  <1>6. \A m \in Names : Settled(new[m], m, latest, Born, now)
    BY <1>1, <1>2, <1>3
  <1> QED
    BY <1>1, <1>4, <1>5, <1>6, WriteKeepsLatest DEF new

LEMMA OneRunInit == Init => OneRunInv
  <1> SUFFICES ASSUME Init PROVE OneRunInv
    OBVIOUS
  <1>1. Len(log) = 1 /\ log[1] = [n \in Names |-> NoRun] /\ latest = 0 /\ now = 0
    BY DEF Init
  <1>2. \A i \in 1..Len(log), n \in Names : log[i][n] = NoRun
    BY <1>1
  <1>3. \A n \in Names : api[n].at = 0
    BY <1>1 DEF api, NoRun
  <1>4. ListsInv
    BY <1>1, <1>2 DEF ListsInv, Settled, NoRun
  <1> QED
    BY <1>1, <1>3, <1>4 DEF OneRunInv, LatestInv, ActiveInv

\* A creation, as EnsureScheduledRun does it.
Creates(t) ==
    /\ RunMissing(RunName(t)) /\ api[RunName(t)] = NoRun
    /\ Write([api EXCEPT ![RunName(t)] =
                [at |-> t, phase |-> "active", created |-> now, completed |-> 0]])
    /\ started' = started + 1
    /\ latest' = t

LEMMA OneRunNext ==
    ASSUME TypeOK, HistoryInv, OneRunInv, Regular, [Next]_vars
    PROVE  OneRunInv'
  <1> USE DEF list
  <1>1. CASE UNCHANGED <<log, latest, now>>
    BY <1>1 DEF OneRunInv, LatestInv, ListsInv, ActiveInv, NoTickSince, Born, api
  <1>2. CASE EnsureScheduledRun
    <2>1. PICK t \in Due(seen.last) : UNCHANGED <<log, latest>> \/ Creates(t)
      BY <1>2 DEF EnsureScheduledRun, Creates
    <2>2. now' = now /\ ~HasActiveRun
      BY <1>2 DEF EnsureScheduledRun, Regular
    <2> QED
      BY <1>1, <2>1, <2>2, CreationIsLatest DEF Creates
  <1>3. CASE PruneHistory \/ Abort
    <2>1. UNCHANGED <<latest, now>>
      BY <1>3 DEF PruneHistory, Abort
    <2>2. UNCHANGED log \/ \E names \in SUBSET Prunable : Remove(names)
      BY <1>3 DEF PruneHistory, Abort
    <2> QED
      BY <1>1, <2>1, <2>2, PruningKeepsOneRun
  <1>4. ASSUME NEW n \in Names, RunEnds(n) PROVE OneRunInv'
    <2>1. PICK end \in Terminal :
            Write([api EXCEPT ![n].phase = end, ![n].completed = now])
      BY <1>4 DEF RunEnds, EndRun
    <2>2. api[n] \in RunObjects /\ api[n].phase = "active" /\ api \in Lists
      BY <1>4, ListTypes DEF RunEnds, EndRun, Lists, NoRun
    <2> DEFINE run == [[api[n] EXCEPT !.phase = end] EXCEPT !.completed = now]
    <2>3. /\ run \in RunObjects /\ run.at = api[n].at /\ run.created = api[n].created
          /\ run.phase \in Terminal /\ run.completed = now
      BY <2>2 DEF RunObjects, TypeOK
    <2>4. [api EXCEPT ![n].phase = end, ![n].completed = now] = [api EXCEPT ![n] = run]
      BY <2>2 DEF Lists
    <2>5. UNCHANGED <<latest, now>>
      BY <1>4 DEF RunEnds, EndRun
    <2> HIDE DEF run
    <2> QED
      BY <2>1, <2>2, <2>3, <2>4, <2>5, EntryKeepsOneRun
  <1>5. ASSUME NEW n \in Names, CreateManualRun(n) PROVE OneRunInv'
    <2> DEFINE run == [at |-> 0, phase |-> "active", created |-> now, completed |-> 0]
    <2>1. api[n] = NoRun /\ Write([api EXCEPT ![n] = run]) /\ UNCHANGED <<latest, now>>
      BY <1>5 DEF CreateManualRun
    <2>2. run \in RunObjects /\ run.at = 0 /\ run.completed = 0
      BY DEF RunObjects, TypeOK
    <2> HIDE DEF run
    <2> QED
      BY <2>1, <2>2, EntryKeepsOneRun
  <1>6. CASE \/ FailSchedule \/ NothingDue \/ SkipTick \/ RunAlreadyExists \/ PatchStatus
             \/ EditSpec \/ DeliverSchedule \/ UNCHANGED vars
    BY <1>1, <1>6 DEF FailSchedule, NothingDue, SkipTick, RunAlreadyExists, PatchStatus,
                      EditSpec, DeliverSchedule, vars
  <1> QED
    BY <1>2, <1>3, <1>4, <1>5, <1>6, ClockKeepsOneRun, DeliveryKeepsOneRun
       DEF Next, Reconcile

\* What the refinement and the two policies start from.
LEMMA OneRunInvariant ==
    ASSUME Regular
    PROVE  Spec => [](TypeOK /\ HistoryInv /\ OneRunInv)
  <1>1. TypeOK /\ HistoryInv /\ OneRunInv /\ [Next]_vars => OneRunInv'
    BY OneRunNext
  <1>2. TypeOK /\ HistoryInv /\ [Next]_vars => HistoryInv'
    BY HistoryNext
  <1> QED
    BY <1>1, <1>2, OneRunInit, HistoryInit, ScheduleTypeCorrect, PTL DEF Spec

\* Where the number of runs created changes.
LEMMA OnlyEnsureCreates ==
    ASSUME [Next]_vars, ~UNCHANGED <<started, latest>>
    PROVE  /\ EnsureScheduledRun
           /\ \E t \in Due(seen.last) : Creates(t)
  <1> USE DEF list
  <1>1. EnsureScheduledRun
    BY DEF Next, Reconcile, FailSchedule, NothingDue, SkipTick, RunAlreadyExists, PatchStatus,
           PruneHistory, Abort, ClockTicks, EditSpec, DeliverSchedule, DeliverRuns, RunEnds, EndRun,
           CreateManualRun, vars
  <1> QED
    BY <1>1 DEF EnsureScheduledRun, Creates

\* With the policy Forbid, no run is created while a scheduled one is active, although
\* hasActiveRun asks a cache: a run that the cache does not show yet was created since
\* the latest tick, and then there is nothing to create.
THEOREM ForbidIsKept ==
    ASSUME Regular
    PROVE  Spec => ForbidHolds
  <1> DEFINE Alone == RunCreated /\ Policy = "Forbid" =>
                        ~\E n \in Names : api[n].at # 0 /\ api[n].phase = "active"
  <1>1. ASSUME TypeOK, OneRunInv, [Next]_vars PROVE Alone
    <2> SUFFICES ASSUME RunCreated
                 PROVE  ~\E n \in Names : api[n].at # 0 /\ api[n].phase = "active"
      OBVIOUS
    <2>1. EnsureScheduledRun /\ \E t \in Due(seen.last) : Creates(t)
      BY <1>1, OnlyEnsureCreates DEF RunCreated
    <2>2. ~HasActiveRun
      BY <2>1 DEF EnsureScheduledRun, Regular
    <2> QED
      BY <1>1, <2>1, <2>2, CreationIsNew DEF Creates
  <1>2. TypeOK /\ HistoryInv /\ OneRunInv /\ [Next]_vars => [Alone]_vars
    BY <1>1
  <1> QED
    BY <1>2, OneRunInvariant, PTL DEF Spec, ForbidHolds

-----------------------------------------------------------------------------
(* The tick contract.                                                       *)

\* The tick being worked on is not before the latest one with a run.
DueInv == pc \in {"patch", "patchSkip"} => due >= latest

LEMMA DueNotBefore ==
    ASSUME TypeOK, OneRunInv, NEW t \in Due(seen.last)
    PROVE  t \in Nat /\ latest \in Nat /\ t >= latest
  <1>1. t \in Nat /\ \A u \in Ticks : u <= now => u <= t
    BY ConstantsAssumption DEF Due
  <1>2. latest \in Nat /\ (latest # 0 => latest \in Ticks /\ latest <= now)
    BY DEF TypeOK, OneRunInv, LatestInv
  <1> QED
    BY <1>1, <1>2

LEMMA DueNext ==
    ASSUME TypeOK, OneRunInv, DueInv, [Next]_vars
    PROVE  DueInv'
  <1> USE DEF list
  <1>1. CASE UNCHANGED <<pc, due, latest>>
    BY <1>1 DEF DueInv
  <1>2. CASE pc' \in {"idle", "prune"}
    BY <1>2 DEF DueInv
  <1>3. CASE SkipTick
    BY <1>3, DueNotBefore DEF SkipTick, DueInv
  <1>4. CASE EnsureScheduledRun
    <2>1. PICK t \in Due(seen.last) : due' = t /\ (latest' = latest \/ latest' = t)
      BY <1>4 DEF EnsureScheduledRun
    <2> QED
      BY <2>1, DueNotBefore DEF DueInv
  <1> QED
    BY <1>1, <1>2, <1>3, <1>4
       DEF Next, Reconcile, FailSchedule, NothingDue, RunAlreadyExists, Retry, PatchStatus,
           PruneHistory, Abort, ClockTicks, EditSpec, DeliverSchedule, DeliverRuns, RunEnds, EndRun,
           CreateManualRun, vars

\* A step of the controller is a step of the contract or leaves its variables alone.
LEMMA ContractStep ==
    ASSUME TypeOK, RecordInv, OneRunInv, DueInv, Regular, [Next]_vars
    PROVE  [Contract!Next]_<<started, latest, sched.last>>
  <1> USE DEF list
  <1>1. CASE ~UNCHANGED <<started, latest>>
    <2>1. PICK t \in Due(seen.last) : Creates(t)
      BY <1>1, OnlyEnsureCreates
    <2>2. EnsureScheduledRun
      BY <1>1, OnlyEnsureCreates
    <2>3. sched' = sched /\ ~HasActiveRun
      BY <2>2 DEF EnsureScheduledRun, Regular
    <2>4. t \in Ticks /\ t \in Nat /\ latest \in Nat /\ t > latest
      BY <2>1, <2>3, CreationIsNew DEF Creates, TypeOK
    <2>5. sched.last \in Nat /\ t >= sched.last
      BY <2>4, DueIsLatest DEF TypeOK
    <2>6. Contract!Start(t)
      BY <2>1, <2>3, <2>4, <2>5 DEF Contract!Start, Creates
    <2> QED
      BY <2>4, <2>6 DEF Contract!Next
  <1>2. CASE UNCHANGED <<started, latest>> /\ PatchStatus
    <2>1. sched'.last = due /\ due \in Nat /\ sched.last \in Nat
      BY <1>2 DEF PatchStatus, TypeOK
    <2>2. due \in Ticks /\ sched.last <= due /\ due >= latest
      BY <1>2 DEF PatchStatus, RecordInv, DueInv
    <2>3. CASE due = sched.last
      BY <1>2, <2>1, <2>3
    <2>4. CASE due > sched.last
      <3>1. Contract!Record(due)
        BY <1>2, <2>1, <2>2, <2>4 DEF Contract!Record
      <3> QED
        BY <2>2, <3>1 DEF Contract!Next
    <2> QED
      BY <2>1, <2>2, <2>3, <2>4
  <1>3. CASE UNCHANGED <<started, latest>> /\ ~PatchStatus
    <2>1. sched'.last = sched.last
      <3>1. CASE EditSpec
        BY <3>1 DEF EditSpec, TypeOK
      <3>2. CASE ~EditSpec
        BY <1>3, <3>2
           DEF Next, Reconcile, FailSchedule, NothingDue, SkipTick, EnsureScheduledRun,
               RunAlreadyExists, PruneHistory, Abort, ClockTicks, DeliverSchedule,
               DeliverRuns, RunEnds, EndRun, CreateManualRun, vars
      <3> QED
        BY <3>1, <3>2
    <2> QED
      BY <1>3, <2>1
  <1> QED
    BY <1>1, <1>2, <1>3

\* The controller implements the tick contract: a tick has at most one run, runs are
\* created in the order of their ticks and the record follows, whatever fails between
\* ensureScheduledRun and patchScheduleStatus and wherever the manager restarts.
THEOREM ContractIsKept ==
    ASSUME Regular
    PROVE  Spec => KeepsContract
  <1>1. Init => Contract!Init
    BY DEF Init, Contract!Init
  <1>2. Init => RecordInv /\ DueInv
    BY DEF Init, RecordInv, DueInv
  <1>3. TypeOK /\ RecordInv /\ [Next]_vars => RecordInv'
    BY RecordNext
  <1>4. TypeOK /\ OneRunInv /\ DueInv /\ [Next]_vars => DueInv'
    BY DueNext
  <1>5. TypeOK /\ RecordInv /\ OneRunInv /\ DueInv /\ [Next]_vars
          => [Contract!Next]_(Contract!vars)
    BY ContractStep DEF Contract!vars
  <1> QED
    BY <1>1, <1>2, <1>3, <1>4, <1>5, OneRunInvariant, PTL DEF Spec, KeepsContract, Contract!Spec

-----------------------------------------------------------------------------
(* A tick's own run.                                                        *)

\* Ticks that are at least a minute apart have different names.
NamesDiffer == \A t, u \in Ticks : RunName(t) = RunName(u) => t = u

NoManualRun == used["manual"] = 0

\* Every run is one the controller created.
AllScheduled == \A i \in 1..Len(log), n \in Names : log[i][n].at = 0 => log[i][n] = NoRun

\* A tick about to be recorded with a run is the latest one.
PatchInv == pc = "patch" => due = latest

LEMMA AllScheduledNext ==
    ASSUME TypeOK, HistoryInv, AllScheduled, [Next]_vars, NoManualRun, NoManualRun'
    PROVE  AllScheduled'
  <1> USE DEF list
  <1>1. ASSUME NEW new \in Lists, Write(new),
               \A n \in Names : new[n].at = 0 => new[n] \in {NoRun, api[n]}
        PROVE  AllScheduled'
    <2>1. /\ Len(log) \in Nat \ {0} /\ Len(log') = Len(log) + 1
          /\ \A i \in 1..Len(log) : log'[i] = log[i]
          /\ log'[Len(log')] = new
          /\ api = log[Len(log)]
      BY <1>1, Entries, Written
    <2>2. \A n \in Names : new[n].at = 0 => new[n] = NoRun
      BY <1>1, <2>1 DEF AllScheduled
    <2>3. \A i \in 1..Len(log') : i \in 1..Len(log) \/ i = Len(log')
      BY <2>1
    <2> QED
      BY <2>1, <2>2, <2>3 DEF AllScheduled
  <1>2. CASE EnsureScheduledRun
    <2>1. PICK t \in Due(seen.last) : UNCHANGED log \/ Creates(t)
      BY <1>2 DEF EnsureScheduledRun, Creates
    <2>2. t \in Nat \ {0} /\ RunName(t) \in Names
      BY ConstantsAssumption DEF Due, Names
    <2> DEFINE run == [at |-> t, phase |-> "active", created |-> now, completed |-> 0]
               new == [api EXCEPT ![RunName(t)] = run]
    <2>3. /\ new \in Lists
          /\ \A n \in Names : new[n].at = 0 => new[n] \in {NoRun, api[n]}
      BY <2>2, NewRunType, ListTypes DEF Lists
    <2>4. CASE UNCHANGED log
      BY <2>4 DEF AllScheduled
    <2> QED
      BY <1>1, <2>1, <2>3, <2>4 DEF Creates
  <1>3. CASE PruneHistory \/ Abort
    <2>1. UNCHANGED log \/ \E names : Remove(names)
      BY <1>3 DEF PruneHistory, Abort
    <2>2. ASSUME NEW names, Remove(names) PROVE AllScheduled'
      <3> DEFINE new == [n \in Names |-> IF n \in names THEN NoRun ELSE api[n]]
      <3>1. new \in Lists /\ \A n \in Names : new[n] \in {NoRun, api[n]}
        BY ListTypes DEF Lists
      <3>2. CASE UNCHANGED log
        BY <3>2 DEF AllScheduled
      <3> QED
        BY <1>1, <2>2, <3>1, <3>2 DEF Remove
    <2>3. CASE UNCHANGED log
      BY <2>3 DEF AllScheduled
    <2> QED
      BY <2>1, <2>2, <2>3
  <1>4. ASSUME NEW n \in Names, RunEnds(n) PROVE AllScheduled'
    <2>1. PICK end \in Terminal :
            Write([api EXCEPT ![n].phase = end, ![n].completed = now])
      BY <1>4 DEF RunEnds, EndRun
    <2>2. api[n] \in RunObjects /\ api[n].phase = "active" /\ api \in Lists
      BY <1>4, ListTypes DEF RunEnds, EndRun, Lists, NoRun
    <2> DEFINE new == [api EXCEPT ![n].phase = end, ![n].completed = now]
    <2>3. new \in Lists /\ new[n].at = api[n].at /\ \A m \in Names : m # n => new[m] = api[m]
      BY <2>2 DEF Lists, RunObjects, TypeOK
    <2>4. api[n].at # 0
      BY <2>2, Entries DEF AllScheduled, NoRun
    <2> HIDE DEF new
    <2>5. \A m \in Names : new[m].at = 0 => new[m] \in {NoRun, api[m]}
      BY <2>3, <2>4
    <2> QED
      BY <1>1, <2>1, <2>3, <2>5 DEF new
  <1>5. CASE DeliverRuns
    <2>1. log \in Seq(Lists) /\ Len(log) \in Nat /\ Len(log) > 1 /\ log' = Tail(log)
      BY <1>5 DEF TypeOK, Lists, DeliverRuns
    <2>2. \A i \in 1..Len(log') : i + 1 \in 1..Len(log) /\ log'[i] = log[i + 1]
      BY <2>1
    <2> QED
      BY <2>2 DEF AllScheduled
  <1>6. ASSUME NEW n \in Names, CreateManualRun(n) PROVE FALSE
    BY <1>6 DEF CreateManualRun, Count, NoManualRun, TypeOK
  <1>7. CASE \/ FailSchedule \/ NothingDue \/ SkipTick \/ RunAlreadyExists \/ PatchStatus
             \/ ClockTicks \/ EditSpec \/ DeliverSchedule \/ UNCHANGED vars
    BY <1>7 DEF FailSchedule, NothingDue, SkipTick, RunAlreadyExists, PatchStatus, ClockTicks,
                EditSpec, DeliverSchedule, vars, AllScheduled
  <1> QED
    BY <1>2, <1>3, <1>4, <1>5, <1>6, <1>7 DEF Next, Reconcile

LEMMA PatchNext ==
    ASSUME TypeOK, OneRunInv, AllScheduled, PatchInv, NamesDiffer, [Next]_vars
    PROVE  PatchInv'
  <1> USE DEF list
  <1>1. CASE EnsureScheduledRun
    <2>1. PICK t \in Due(seen.last) :
            /\ due' = t
            /\ latest' = t \/ (latest' = latest /\ ~RunMissing(RunName(t)))
      BY <1>1 DEF EnsureScheduledRun
    <2>2. CASE latest' = t
      BY <2>1, <2>2 DEF PatchInv
    <2>3. CASE latest' = latest /\ ~RunMissing(RunName(t))
      <3> DEFINE r == cached[RunName(t)]
      <3>1. t \in Ticks /\ RunName(t) \in Names
        BY DEF Due, Names
      <3>2. r # NoRun /\ r \in RunObjects \cup {NoRun}
        BY <2>3, <3>1, ListTypes DEF RunMissing, Lists
      <3>3. /\ Settled(r, RunName(t), latest, Born, now)
            /\ r.at = 0 => r = NoRun
        BY <3>1, Entries DEF OneRunInv, ListsInv, AllScheduled
      <3>4. r.at \in Ticks /\ r.at <= latest /\ RunName(t) = RunName(r.at)
        BY <3>2, <3>3 DEF Settled
      <3>5. r.at = t
        BY <3>1, <3>4 DEF NamesDiffer
      <3>6. t <= latest /\ t \in Nat /\ latest \in Nat /\ t >= latest
        BY <3>4, <3>5, DueNotBefore
      <3> QED
        BY <2>1, <2>3, <3>6 DEF PatchInv
    <2> QED
      BY <2>1, <2>2, <2>3
  <1>2. CASE UNCHANGED <<pc, due, latest>>
    BY <1>2 DEF PatchInv
  <1>3. CASE pc' # "patch"
    BY <1>3 DEF PatchInv
  <1> QED
    BY <1>1, <1>2, <1>3
       DEF Next, Reconcile, FailSchedule, NothingDue, SkipTick, RunAlreadyExists, Retry,
           PatchStatus, PruneHistory, Abort, ClockTicks, EditSpec, DeliverSchedule, DeliverRuns,
           RunEnds, EndRun, CreateManualRun, vars

\* A tick that patchScheduleStatus records with a run has its own run in the API server,
\* if ticks are a minute apart and nobody creates a run under a scheduled run's name.
THEOREM TickGetsItsRun ==
    ASSUME Regular, NamesDiffer
    PROVE  Spec /\ []NoManualRun => TickHasItsRun
  <1> DEFINE Own == pc = "patch" /\ pc' = "prune" => api[RunName(due)].at = due
  <1>1. Init => AllScheduled
    <2>1. ASSUME Init PROVE AllScheduled
      <3>1. Len(log) = 1 /\ log[1] = [n \in Names |-> NoRun]
        BY <2>1 DEF Init
      <3> QED
        BY <3>1 DEF AllScheduled
    <2> QED
      BY <2>1
  <1>2. Init => PatchInv /\ RecordInv
    BY DEF Init, PatchInv, RecordInv
  <1>3. TypeOK /\ HistoryInv /\ AllScheduled /\ [Next]_vars /\ NoManualRun /\ NoManualRun'
          => AllScheduled'
    BY AllScheduledNext
  <1>4. TypeOK /\ OneRunInv /\ AllScheduled /\ PatchInv /\ [Next]_vars => PatchInv'
    BY PatchNext
  <1>5. TypeOK /\ RecordInv /\ [Next]_vars => RecordInv'
    BY RecordNext
  <1>6. TypeOK /\ RecordInv /\ OneRunInv /\ PatchInv => [Own]_vars
    <2>1. ASSUME RecordInv, OneRunInv, PatchInv, pc = "patch" PROVE api[RunName(due)].at = due
      <3>1. due = latest /\ due \in Ticks
        BY <2>1 DEF PatchInv, RecordInv
      <3>2. latest # 0
        BY <3>1, ConstantsAssumption
      <3> QED
        BY <2>1, <3>1, <3>2 DEF OneRunInv, LatestInv
    <2> QED
      BY <2>1
  <1> QED
    BY <1>1, <1>2, <1>3, <1>4, <1>5, <1>6, OneRunInvariant, PTL DEF Spec, TickHasItsRun
=============================================================================
