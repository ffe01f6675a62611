------------------------ MODULE DestinationLockProofs ------------------------
(***************************************************************************)
(* What the destination lock promises, for any number of runs, any targets *)
(* and caches that are arbitrarily far behind.                             *)
(*                                                                         *)
(* The order (QueueInv, unconditionally).  A run gets past the lock only   *)
(* if the cached list shows every older overlapping run as ended.  An      *)
(* ended phase does not last: a stale reconciliation may overwrite it.     *)
(* What lasts is its reason: the sender Job has ended, the run is deleted, *)
(* or it met a refusal.  So an older run without a refusal is over before  *)
(* a younger one gets a sender (InTurn), whatever its phase says later.    *)
(*                                                                         *)
(* The holder (HolderInv, until two runs are created within one second or  *)
(* one meets a refusal).  Then an ended run stays ended in every later     *)
(* state of the list (EndedStays): overwriting its phase would need a      *)
(* reconciliation that finds the destination taken, by an older run, which *)
(* is ended, or by a younger one that got past the lock, which needs this  *)
(* run to be shown as ended to that very reconciliation.                   *)
(***************************************************************************)
EXTENDS DestinationLock, TLAPS

\* b is the younger of two runs that exist and overlap.
Younger(b, a) ==
    a # b /\ Overlap(a, b) /\ created[a] # 0 /\ created[a] < created[b]

Started == {"StartingReceiver", "ReceiverReady", "Running"} \cup Terminal
Ended   == {"succeeded", "failed"}

\* A run is in the list from its creation on, after every older one.
CreationOrder ==
    /\ \A r \in Runs : created[r] <= second
    /\ \A r \in Runs : created[r] # 0 <=> api[r] # "absent"
    /\ \A i \in 1..Len(log), r \in Runs : log[i][r] # "absent" => created[r] # 0
    /\ \A i \in 1..Len(log), a, b \in Runs :
         created[a] # 0 /\ created[a] < created[b] /\ log[i][b] # "absent"
           => log[i][a] # "absent"

DeletedStays ==
    \A i, j \in 1..Len(log), r \in Runs :
        i <= j /\ log[i][r] = "deleted" => log[j][r] = "deleted"

\* Whatever made a run end is still there.
EndHasReason ==
    /\ \A i \in 1..Len(log), r \in Runs :
         log[i][r] \in Terminal => r \in refused \/ jobSeen[r] \in Ended
    /\ \A r \in Runs : jobSeen[r] \in Ended => job[r] = jobSeen[r]

\* An older overlapping run is over when a run gets a sender, or met a refusal.
InTurn ==
    \A a, b \in Runs :
        Younger(b, a) /\ a \notin refused /\ job[b] # "none"
          => job[a] \in Ended \/ api[a] = "deleted"

JobAfterCreation == \A r \in Runs : job[r] # "none" => created[r] # 0

QueueInv ==
    /\ TypeOK /\ JobAfterCreation /\ CreationOrder /\ DeletedStays /\ EndHasReason
    /\ InTurn

EndedStays ==
    \A i, j \in 1..Len(log), r \in Runs :
        i <= j /\ log[i][r] \in Done => log[j][r] \in Done

\* A run past the lock: every older overlapping run is shown as ended.
PassedList ==
    \A a, b \in Runs, i \in 1..Len(log) :
        Younger(b, a) /\ log[i][b] \in Started => cached[a] \in Done

PassedJob ==
    \A a, b \in Runs : Younger(b, a) /\ job[b] # "none" => cached[a] \in Done

HolderInv == EndedStays /\ PassedList /\ PassedJob

\* The conditions under which the holder keeps its place.
Undisturbed == DistinctSeconds /\ refused = {}

LockInv == QueueInv /\ Undisturbed /\ HolderInv

-----------------------------------------------------------------------------
(* What a change of the list and a delivery do to `log`.                    *)

\* (The empty string is kept out of the other steps: not every backend reads it.)
LEMMA NoPhaseDiffers ==
    /\ NoPhase \in Phases
    /\ NoPhase \notin Started \cup Terminal \cup Done \cup {"absent"}
  BY Zenon DEF NoPhase, Phases, Active, Waiting, Started, Terminal, Done

LEMMA ActiveDiffers ==
    ASSUME NEW p \in Active
    PROVE  p # "absent" /\ p \notin Done
  BY NoPhaseDiffers DEF Active, Waiting, Done, Terminal

LEMMA ListNonempty ==
    ASSUME TypeOK
    PROVE  /\ Len(log) \in Nat /\ Len(log) >= 1
           /\ \A i \in 1..Len(log) : log[i] \in [Runs -> Phases]
           /\ cached \in [Runs -> Phases] /\ api \in [Runs -> Phases]
  BY ConstantsAssumption DEF TypeOK, cached, api

LEMMA WriteAppends ==
    ASSUME TypeOK, NEW r \in Runs, NEW p \in Phases, Write(r, p)
    PROVE  /\ log' \in Seq([Runs -> Phases]) /\ Len(log') \in 1..MaxLag
           /\ Len(log') = Len(log) + 1
           /\ \A i \in 1..Len(log) : log'[i] = log[i]
           /\ log'[Len(log) + 1] = [api EXCEPT ![r] = p]
           /\ cached' = cached
           /\ api' = [api EXCEPT ![r] = p]
  <1> DEFINE new == [api EXCEPT ![r] = p]
  <1>1. new \in [Runs -> Phases]
    BY ListNonempty
  <1>2. log \in Seq([Runs -> Phases]) /\ log' = Append(log, new) /\ Len(log) < MaxLag
    BY DEF TypeOK, Write
  <1>3. Len(log) \in Nat /\ Len(log) >= 1
    BY ListNonempty
  <1> HIDE DEF new
  <1>4. /\ log' \in Seq([Runs -> Phases])
        /\ Len(log') = Len(log) + 1
        /\ \A i \in 1..Len(log) : log'[i] = log[i]
        /\ log'[Len(log) + 1] = new
    BY <1>1, <1>2
  <1>5. Len(log') \in 1..MaxLag
    BY <1>2, <1>3, <1>4, ConstantsAssumption
  <1>6. cached' = cached
    BY <1>3, <1>4 DEF cached
  <1>7. api' = new
    BY <1>4 DEF api
  <1> QED
    BY <1>4, <1>5, <1>6, <1>7 DEF new

LEMMA DeliveryDropsFirst ==
    ASSUME TypeOK, Len(log) > 1, log' = Tail(log)
    PROVE  /\ log' \in Seq([Runs -> Phases]) /\ Len(log') \in 1..MaxLag
           /\ Len(log') = Len(log) - 1
           /\ \A i \in 1..Len(log') : log'[i] = log[i + 1]
           /\ cached' = log[2]
           /\ api' = api
  <1>1. log \in Seq([Runs -> Phases]) /\ Len(log) \in 1..MaxLag
    BY DEF TypeOK
  <1>2. /\ log' \in Seq([Runs -> Phases])
        /\ Len(log') = Len(log) - 1
        /\ \A i \in 1..Len(log') : log'[i] = log[i + 1]
    BY <1>1
  <1>3. Len(log') \in 1..MaxLag
    BY <1>1, <1>2, ConstantsAssumption
  <1>4. cached' = log[2]
    BY <1>1, <1>2 DEF cached
  <1>5. api' = api
    BY <1>1, <1>2 DEF api
  <1> QED
    BY <1>2, <1>3, <1>4, <1>5

-----------------------------------------------------------------------------
(* The order of the runs.                                                   *)

\* Past the lock, every older overlapping run is shown as ended.
LEMMA UnlockedMeansOldersEnded ==
    ASSUME QueueInv, NEW r \in Runs, Reconciling(r), ~DestinationLocked(r)
    PROVE  \A a \in Runs : Younger(r, a) => cached[a] \in Done
  <1> SUFFICES ASSUME NEW a \in Runs, Younger(r, a)
               PROVE  cached[a] \in Done
    OBVIOUS
  <1>1. /\ cached[a] \in Phases /\ cached[r] \in Active
        /\ created \in [Runs -> Nat]
    BY ListNonempty DEF QueueInv, Reconciling, TypeOK
  <1>2. cached[a] # "absent"
    <2>1. cached[r] # "absent"
      BY <1>1, ActiveDiffers
    <2> QED
      BY <2>1, ListNonempty DEF QueueInv, CreationOrder, Younger, cached
  <1>3. cached[a] \notin Active
    <2> SUFFICES ASSUME cached[a] \in Active PROVE FALSE
      OBVIOUS
    <2>1. ShouldWait(r, a)
      BY <1>1 DEF ShouldWait, Younger
    <2>2. Overlap(r, a) /\ a \in Runs \ {r}
      BY DEF Younger, Overlap
    <2> QED
      BY <2>1, <2>2 DEF DestinationLocked
  <1> QED
    BY <1>1, <1>2, <1>3 DEF Phases

\* The part of the invariant about the list.
QueueList ==
    /\ log \in Seq([Runs -> Phases]) /\ Len(log) \in 1..MaxLag
    /\ CreationOrder /\ DeletedStays
    /\ \A i \in 1..Len(log), o \in Runs :
         log[i][o] \in Terminal => o \in refused \/ jobSeen[o] \in Ended

\* A change of the phase of an existing run keeps it, provided that a deleted
\* run stays deleted and that a terminal phase has a reason.
LEMMA WriteKeepsQueue ==
    ASSUME QueueInv, NEW r \in Runs, NEW p \in Phases \ {"absent"}, Write(r, p),
           UNCHANGED <<second, created, jobSeen, refused>>,
           api[r] \notin {"absent", "deleted"},
           p \in Terminal => r \in refused \/ jobSeen[r] \in Ended
    PROVE  /\ QueueList' /\ cached' = cached
           /\ \A o \in Runs : api[o] = "deleted" => api'[o] = "deleted"
  <1> DEFINE n == Len(log)
  <1>1. /\ n \in Nat /\ n >= 1 /\ Len(log') = n + 1
        /\ \A i \in 1..n : log'[i] = log[i]
        /\ log'[n + 1] = [api EXCEPT ![r] = p]
        /\ cached' = cached /\ api' = [api EXCEPT ![r] = p]
        /\ api \in [Runs -> Phases]
        /\ api = log[n] /\ n \in 1..n
        /\ log' \in Seq([Runs -> Phases]) /\ Len(log') \in 1..MaxLag
    BY WriteAppends, ListNonempty DEF QueueInv, api
  <1>2. \A o \in Runs : log'[n + 1][o] = IF o = r THEN p ELSE log[n][o]
    BY <1>1
  <1>3. \A i \in 1..Len(log') : i \in 1..n \/ i = n + 1
    BY <1>1
  <1> HIDE DEF n
  <1>4. CreationOrder'
    BY <1>1, <1>2, <1>3 DEF QueueInv, CreationOrder, n
  <1>5. DeletedStays'
    <2> SUFFICES ASSUME NEW i \in 1..Len(log'), NEW j \in 1..Len(log'),
                        NEW o \in Runs, i <= j, log'[i][o] = "deleted"
                 PROVE  log'[j][o] = "deleted"
      BY DEF DeletedStays
    <2>1. CASE j \in 1..n
      <3>1. i \in 1..n
        BY <1>1, <2>1
      <3> QED
        BY <1>1, <2>1, <3>1 DEF QueueInv, DeletedStays, n
    <2>2. CASE j = n + 1 /\ i \in 1..n
      <3>1. i <= n /\ log[i][o] = "deleted"
        BY <1>1, <2>2
      <3>2. log[n][o] = "deleted"
        BY <1>1, <2>2, <3>1 DEF QueueInv, DeletedStays, n
      <3> QED
        BY <1>1, <1>2, <2>2, <3>2
    <2>3. CASE j = n + 1 /\ i = n + 1
      BY <2>3
    <2> QED
      BY <1>3, <2>1, <2>2, <2>3
  <1>6. ASSUME NEW i \in 1..Len(log'), NEW o \in Runs, log'[i][o] \in Terminal
        PROVE  o \in refused \/ jobSeen[o] \in Ended
    BY <1>1, <1>2, <1>3, <1>6 DEF QueueInv, EndHasReason, n
  <1> QED
    BY <1>1, <1>4, <1>5, <1>6 DEF QueueList

\* So does the status patch of a reconciliation.
LEMMA PatchKeepsQueue ==
    ASSUME QueueInv, NEW r \in Runs, Reconciling(r),
           NEW p \in Phases \ {"absent"}, Patch(r, p),
           UNCHANGED <<second, created, jobSeen, refused>>,
           p \in Terminal => r \in refused \/ jobSeen[r] \in Ended
    PROVE  /\ QueueList' /\ cached' = cached /\ created[r] # 0
           /\ \A o \in Runs : api[o] = "deleted" => api'[o] = "deleted"
  <1>1. created[r] # 0
    <2>1. cached[r] # "absent"
      BY ActiveDiffers DEF Reconciling
    <2>2. 1 \in 1..Len(log)
      BY ListNonempty DEF QueueInv
    <2> QED
      BY <2>1, <2>2 DEF QueueInv, CreationOrder, cached
  <1>2. CASE UNCHANGED log
    <2>1. CreationOrder' /\ DeletedStays' /\ cached' = cached /\ api' = api
      BY <1>2 DEF QueueInv, CreationOrder, DeletedStays, cached, api
    <2> QED
      BY <1>1, <1>2, <2>1 DEF QueueInv, EndHasReason, QueueList, TypeOK
  <1>3. CASE Write(r, p)
    <2>1. api[r] \notin {"absent", "deleted"}
      BY <1>1 DEF QueueInv, CreationOrder, Reconciling
    <2> QED
      BY <1>1, <1>3, <2>1, WriteKeepsQueue
  <1> QED
    BY <1>2, <1>3 DEF Patch

\* The Jobs of a step that changes the list only.
LEMMA ListStepKeepsQueue ==
    ASSUME QueueInv, QueueList', UNCHANGED <<second, created, job, jobSeen, refused>>,
           \A o \in Runs : api[o] = "deleted" => api'[o] = "deleted",
           children' \subseteq Runs
    PROVE  QueueInv'
  <1>1. InTurn'
    BY DEF QueueInv, InTurn, Younger, Overlap
  <1> QED
    BY <1>1 DEF QueueInv, QueueList, EndHasReason, TypeOK, JobAfterCreation

LEMMA PatchStepsKeepQueue ==
    ASSUME QueueInv, NEW r \in Runs,
           \/ WaitForDestination(r) \/ FailRun(r) \/ StartReceiver(r)
           \/ ReportSender(r)
    PROVE  QueueInv'
  <1>1. /\ {"Pending", "Failed", "StartingReceiver", "Running", "Succeeded"}
             \subseteq Phases \ {"absent"}
        /\ {"Pending", "StartingReceiver", "Running"} \cap Terminal = {}
    BY DEF Phases, Active, Waiting, Done, Terminal
  <1>2. /\ Reconciling(r)
        /\ UNCHANGED <<second, created, job, jobSeen, refused>>
        /\ children' \subseteq Runs
    BY DEF WaitForDestination, FailRun, StartReceiver, ReportSender, QueueInv, TypeOK
  <1>3. PICK p \in Phases \ {"absent"} :
          Patch(r, p) /\ (p \in Terminal => r \in refused \/ jobSeen[r] \in Ended)
    <2>1. CASE WaitForDestination(r)
      BY <1>1, <2>1 DEF WaitForDestination
    <2>2. CASE FailRun(r)
      BY <1>1, <2>2 DEF FailRun
    <2>3. CASE StartReceiver(r)
      BY <1>1, <2>3 DEF StartReceiver
    <2>4. CASE ReportSender(r)
      BY <1>1, <2>4 DEF ReportSender, Ended
    <2> QED
      BY <2>1, <2>2, <2>3, <2>4
  <1> QED
    BY <1>2, <1>3, PatchKeepsQueue, ListStepKeepsQueue

\* A run gets a sender: every older overlapping run is shown as ended, and what
\* ended it has not gone away.
LEMMA StartSenderKeepsQueue ==
    ASSUME QueueInv, NEW r \in Runs, StartSender(r)
    PROVE  QueueInv' /\ cached' = cached
  <1>1. "ReceiverReady" \in Phases \ {"absent"} /\ "ReceiverReady" \notin Terminal
    BY DEF Phases, Active, Terminal
  <1>2. /\ QueueList' /\ cached' = cached /\ created[r] # 0
        /\ \A o \in Runs : api[o] = "deleted" => api'[o] = "deleted"
    BY <1>1, PatchKeepsQueue DEF StartSender
  <1>3. /\ job \in [Runs -> JobStates] /\ job' \in [Runs -> JobStates]
        /\ \A o \in Runs : o # r => job'[o] = job[o]
        /\ job[r] # "none" => job'[r] = job[r]
    BY DEF StartSender, QueueInv, TypeOK, JobStates
  <1>4. InTurn'
    <2> SUFFICES ASSUME NEW a \in Runs, NEW b \in Runs, Younger(b, a),
                        a \notin refused, job'[b] # "none"
                 PROVE  job'[a] \in Ended \/ api'[a] = "deleted"
      BY DEF InTurn, StartSender, Younger, Overlap
    <2>1. CASE b = r
      <3>1. a # r /\ cached[a] \in Done
        BY <2>1, UnlockedMeansOldersEnded DEF StartSender, Younger
      <3>2. CASE cached[a] = "deleted"
        <4>1. 1 \in 1..Len(log) /\ Len(log) \in 1..Len(log) /\ 1 <= Len(log)
          BY ListNonempty DEF QueueInv
        <4>2. api[a] = "deleted"
          BY <3>2, <4>1 DEF QueueInv, DeletedStays, cached, api
        <4> QED
          BY <1>2, <4>2
      <3>3. CASE cached[a] \in Terminal
        <4>1. 1 \in 1..Len(log)
          BY ListNonempty DEF QueueInv
        <4>2. job[a] \in Ended
          BY <3>3, <4>1 DEF QueueInv, EndHasReason, cached
        <4> QED
          BY <1>3, <3>1, <4>2
      <3> QED
        BY <3>1, <3>2, <3>3 DEF Done
    <2>2. CASE b # r
      <3>1. job[a] \in Ended \/ api[a] = "deleted"
        BY <1>3, <2>2 DEF QueueInv, InTurn
      <3> QED
        BY <1>2, <1>3, <3>1 DEF Ended
    <2> QED
      BY <2>1, <2>2
  <1>5. EndHasReason'
    <2>1. \A o \in Runs : jobSeen[o] \in Ended => job'[o] = jobSeen[o]
      BY <1>3 DEF QueueInv, EndHasReason, Ended
    <2> QED
      BY <1>2, <2>1 DEF EndHasReason, QueueList, StartSender
  <1>6. JobAfterCreation'
    BY <1>2, <1>3 DEF QueueInv, JobAfterCreation, StartSender
  <1> QED
    BY <1>2, <1>3, <1>4, <1>5, <1>6 DEF QueueInv, QueueList, TypeOK, StartSender

\* No run is younger than the new one, which is in no earlier state.
LEMMA CreateKeepsQueue ==
    ASSUME QueueInv, NEW r \in Runs, Create(r)
    PROVE  QueueInv'
  <1> DEFINE n == Len(log)
  <1>0. NoPhase \in Phases /\ NoPhase \notin Started \cup Terminal \cup Done \cup {"absent"}
    BY NoPhaseDiffers
  <1>1. /\ log' \in Seq([Runs -> Phases]) /\ Len(log') \in 1..MaxLag
        /\ n \in Nat /\ n >= 1 /\ Len(log') = n + 1
        /\ \A i \in 1..n : log'[i] = log[i]
        /\ cached' = cached /\ api' = [api EXCEPT ![r] = NoPhase]
        /\ log'[n + 1] = api'
        /\ api \in [Runs -> Phases]
        /\ api = log[n] /\ n \in 1..n
    BY <1>0, WriteAppends, ListNonempty DEF QueueInv, api, Create
  <1>2. /\ created \in [Runs -> Nat] /\ second \in Nat \ {0}
        /\ second' \in Nat \ {0} /\ second' >= second
        /\ created' = [created EXCEPT ![r] = second']
        /\ created[r] = 0
        /\ \A o \in Runs : created[o] <= second
    BY DEF Create, QueueInv, TypeOK, CreationOrder
  <1>3. \A o \in Runs : log'[n + 1][o] = IF o = r THEN NoPhase ELSE log[n][o]
    BY <1>1
  <1>4. \A i \in 1..Len(log') : i \in 1..n \/ i = n + 1
    BY <1>1
  <1>5. \A i \in 1..n : log[i][r] = "absent"
    BY <1>2 DEF QueueInv, CreationOrder
  <1>6. \A o \in Runs : created'[o] = IF o = r THEN second' ELSE created[o]
    BY <1>2
  <1>7. \A o \in Runs : created[o] <= second'
    BY <1>2
  <1>8. \A a, b \in Runs : Younger(b, a)' => a # r /\ (b # r => Younger(b, a))
    BY <1>2, <1>6, <1>7 DEF Younger, Overlap
  <1> HIDE DEF n
  <1>9. CreationOrder'
    <2>1. \A o \in Runs : created'[o] <= second'
      BY <1>2, <1>6
    <2>2. \A o \in Runs : created'[o] # 0 <=> api'[o] # "absent"
      BY <1>0, <1>1, <1>2, <1>6 DEF QueueInv, CreationOrder
    <2>3. \A i \in 1..Len(log'), o \in Runs :
            log'[i][o] # "absent" => created'[o] # 0
      <3> SUFFICES ASSUME NEW i \in 1..Len(log'), NEW o \in Runs,
                          log'[i][o] # "absent", o # r
                   PROVE  created[o] # 0
        BY <1>2, <1>6
      <3> QED
        BY <1>1, <1>3, <1>4 DEF QueueInv, CreationOrder, n
    <2>4. ASSUME NEW i \in 1..Len(log'), NEW a \in Runs, NEW b \in Runs,
                 created'[a] # 0, created'[a] < created'[b], log'[i][b] # "absent"
          PROVE  log'[i][a] # "absent"
      <3>1. a # r
        BY <1>2, <1>6, <1>7, <2>4
      <3>2. CASE i \in 1..n
        <4>1. b # r
          BY <1>1, <1>5, <2>4, <3>2
        <4> QED
          BY <1>1, <1>6, <2>4, <3>1, <3>2, <4>1 DEF QueueInv, CreationOrder, n
      <3>3. CASE i = n + 1
        <4>1. log[n][a] # "absent"
          BY <1>1, <1>6, <2>4, <3>1 DEF QueueInv, CreationOrder
        <4> QED
          BY <1>3, <3>1, <3>3, <4>1
      <3> QED
        BY <1>4, <3>2, <3>3
    <2> QED
      BY <2>1, <2>2, <2>3, <2>4 DEF CreationOrder
  <1>10. DeletedStays'
    <2> SUFFICES ASSUME NEW i \in 1..Len(log'), NEW j \in 1..Len(log'),
                        NEW o \in Runs, i <= j, log'[i][o] = "deleted"
                 PROVE  log'[j][o] = "deleted"
      BY DEF DeletedStays
    <2>1. CASE j \in 1..n
      <3>1. i \in 1..n
        BY <1>1, <2>1
      <3> QED
        BY <1>1, <2>1, <3>1 DEF QueueInv, DeletedStays, n
    <2>2. CASE j = n + 1 /\ i \in 1..n
      <3>1. i <= n /\ log[i][o] = "deleted" /\ o # r
        BY <1>1, <1>5, <2>2
      <3>2. log[n][o] = "deleted"
        BY <1>1, <2>2, <3>1 DEF QueueInv, DeletedStays, n
      <3> QED
        BY <1>3, <2>2, <3>1, <3>2
    <2>3. CASE j = n + 1 /\ i = n + 1
      BY <2>3
    <2> QED
      BY <1>4, <2>1, <2>2, <2>3
  <1>11. job[r] = "none"
    BY DEF QueueInv, JobAfterCreation, Create
  <1>12. InTurn'
    <2> SUFFICES ASSUME NEW a \in Runs, NEW b \in Runs, Younger(b, a)',
                        a \notin refused, job[b] # "none"
                 PROVE  job[a] \in Ended \/ api'[a] = "deleted"
      BY DEF InTurn, Create
    <2>1. a # r /\ Younger(b, a)
      BY <1>8, <1>11
    <2> QED
      BY <1>1, <2>1 DEF QueueInv, InTurn
  <1>13. EndHasReason'
    BY <1>0, <1>1, <1>3, <1>4 DEF QueueInv, EndHasReason, Create, n
  <1>14. TypeOK' /\ JobAfterCreation'
    BY <1>1, <1>2, <1>6 DEF QueueInv, TypeOK, JobAfterCreation, Create
  <1> QED
    BY <1>9, <1>10, <1>12, <1>13, <1>14 DEF QueueInv

LEMMA DeleteKeepsQueue ==
    ASSUME QueueInv, NEW r \in Runs, Delete(r)
    PROVE  QueueInv'
  <1>1. "deleted" \in Phases \ {"absent"} /\ "deleted" \notin Terminal
    BY DEF Phases, Done, Terminal
  <1>2. /\ Write(r, "deleted") /\ api[r] \notin {"absent", "deleted"}
        /\ UNCHANGED <<second, created, job, jobSeen, children, refused>>
    BY DEF Delete
  <1> QED
    BY <1>1, <1>2, WriteKeepsQueue, ListStepKeepsQueue DEF QueueInv, TypeOK

LEMMA JobStepsKeepQueue ==
    ASSUME QueueInv, NEW r \in Runs, Refuse(r) \/ JobEnds(r) \/ DeliverJob(r)
    PROVE  QueueInv'
  <1>1. /\ UNCHANGED <<log, second, created, children>>
        /\ refused' \subseteq Runs /\ refused \subseteq refused'
        /\ job' \in [Runs -> JobStates] /\ jobSeen' \in [Runs -> JobStates]
        /\ \A o \in Runs : job[o] = "none" <=> job'[o] = "none"
        /\ \A o \in Runs : job[o] \in Ended => job'[o] = job[o]
        /\ \A o \in Runs : jobSeen[o] \in Ended => jobSeen'[o] = jobSeen[o]
        /\ \A o \in Runs : jobSeen'[o] \in Ended => job'[o] = jobSeen'[o]
    BY DEF QueueInv, TypeOK, EndHasReason, Refuse, JobEnds, DeliverJob, JobStates,
           Ended
  <1>2. /\ CreationOrder' /\ DeletedStays' /\ JobAfterCreation' /\ api' = api
    BY <1>1 DEF QueueInv, CreationOrder, DeletedStays, JobAfterCreation, api
  <1>3. EndHasReason'
    BY <1>1 DEF QueueInv, EndHasReason
  <1>4. InTurn'
    BY <1>1, <1>2 DEF QueueInv, InTurn, Younger, Overlap
  <1> QED
    BY <1>1, <1>2, <1>3, <1>4 DEF QueueInv, TypeOK

\* The cache moves on by one state of the list.
LEMMA DeliverRunsKeepsQueue ==
    ASSUME QueueInv, DeliverRuns
    PROVE  QueueInv'
  <1>1. /\ log' \in Seq([Runs -> Phases]) /\ Len(log') \in 1..MaxLag
        /\ Len(log) \in Nat /\ Len(log) > 1 /\ Len(log') = Len(log) - 1
        /\ \A i \in 1..Len(log') : log'[i] = log[i + 1]
        /\ api' = api
    BY DeliveryDropsFirst, ListNonempty DEF QueueInv, DeliverRuns
  <1>2. UNCHANGED <<second, created, job, jobSeen, children, refused>>
    BY DEF DeliverRuns
  <1>3. \A i \in 1..Len(log') : i + 1 \in 1..Len(log)
    BY <1>1
  <1>4. CreationOrder'
    <2>1. \A i \in 1..Len(log'), o \in Runs :
            log'[i][o] # "absent" => created'[o] # 0
      BY <1>1, <1>2, <1>3 DEF QueueInv, CreationOrder
    <2>2. \A i \in 1..Len(log'), a, b \in Runs :
            created[a] # 0 /\ created[a] < created[b] /\ log'[i][b] # "absent"
              => log'[i][a] # "absent"
      BY <1>1, <1>2, <1>3 DEF QueueInv, CreationOrder
    <2> QED
      BY <1>1, <1>2, <2>1, <2>2 DEF QueueInv, CreationOrder
  <1>5. DeletedStays'
    <2> SUFFICES ASSUME NEW i \in 1..Len(log'), NEW j \in 1..Len(log'),
                        NEW o \in Runs, i <= j, log'[i][o] = "deleted"
                 PROVE  log'[j][o] = "deleted"
      BY DEF DeletedStays
    <2>1. i + 1 \in 1..Len(log) /\ j + 1 \in 1..Len(log) /\ i + 1 <= j + 1
      BY <1>3
    <2> QED
      BY <1>1, <2>1 DEF QueueInv, DeletedStays
  <1>6. \A i \in 1..Len(log'), o \in Runs :
          log'[i][o] \in Terminal => o \in refused' \/ jobSeen'[o] \in Ended
    BY <1>1, <1>2, <1>3 DEF QueueInv, EndHasReason
  <1>7. QueueList'
    BY <1>1, <1>4, <1>5, <1>6 DEF QueueList
  <1> QED
    BY <1>1, <1>2, <1>7, ListStepKeepsQueue DEF QueueInv, TypeOK

LEMMA QueueNext ==
    ASSUME QueueInv, [Next]_vars
    PROVE  QueueInv'
  <1>1. CASE UNCHANGED vars
    BY <1>1 DEF vars, QueueInv, TypeOK, JobAfterCreation, CreationOrder, DeletedStays,
                EndHasReason, InTurn, Younger, Overlap, api
  <1>2. CASE DeliverRuns
    BY <1>2, DeliverRunsKeepsQueue
  <1>3. ASSUME NEW r \in Runs, Reconcile(r)
        PROVE  QueueInv'
    BY <1>3, PatchStepsKeepQueue, StartSenderKeepsQueue DEF Reconcile
  <1>4. ASSUME NEW r \in Runs, Create(r) \/ Delete(r)
        PROVE  QueueInv'
    BY <1>4, CreateKeepsQueue, DeleteKeepsQueue
  <1>5. ASSUME NEW r \in Runs, Refuse(r) \/ JobEnds(r) \/ DeliverJob(r)
        PROVE  QueueInv'
    BY <1>5, JobStepsKeepQueue
  <1> QED
    BY <1>1, <1>2, <1>3, <1>4, <1>5 DEF Next

-----------------------------------------------------------------------------
(* The holder of the destination.                                           *)

\* A run that finds the destination taken has not ended and has no sender.
LEMMA LockedMeansNotStarted ==
    ASSUME LockInv, NEW r \in Runs, Reconciling(r), DestinationLocked(r)
    PROVE  api[r] \notin Done /\ job[r] = "none"
  <1>1. PICK o \in Runs \ {r} :
          cached[o] \in Active /\ Overlap(r, o) /\ ShouldWait(r, o)
    BY DEF DestinationLocked
  <1>2. cached[r] \in Active /\ api[r] # "deleted" /\ created \in [Runs -> Nat]
    BY DEF Reconciling, LockInv, QueueInv, TypeOK
  <1>3. created[r] # 0 /\ created[o] # 0
    <2>1. cached[r] # "absent" /\ cached[o] # "absent"
      BY <1>1, <1>2, ActiveDiffers
    <2>2. 1 \in 1..Len(log)
      BY ListNonempty DEF LockInv, QueueInv
    <2> QED
      BY <1>1, <2>1, <2>2 DEF LockInv, QueueInv, CreationOrder, cached
  <1>4. created[r] # created[o]
    BY <1>1, <1>3 DEF LockInv, Undisturbed, DistinctSeconds
  <1>5. Overlap(o, r)
    BY <1>1 DEF Overlap
  <1>6. CASE created[o] < created[r]
    <2>1. Younger(r, o) /\ cached[o] \notin Done
      BY <1>1, <1>3, <1>5, <1>6, ActiveDiffers DEF Younger
    <2>2. job[r] = "none"
      BY <2>1 DEF LockInv, HolderInv, PassedJob
    <2>3. api[r] \notin Started
      BY <2>1, ListNonempty DEF LockInv, HolderInv, QueueInv, PassedList, api
    <2> QED
      BY <1>2, <2>2, <2>3 DEF Started, Done
  <1>7. CASE created[r] < created[o]
    <2>1. Younger(o, r)
      BY <1>1, <1>3, <1>7 DEF Younger
    <2>2. cached[o] \in Started
      BY <1>1, <1>2, <1>7 DEF ShouldWait, Active, Started
    <2>3. cached[r] \in Done
      BY <2>1, <2>2, ListNonempty DEF LockInv, HolderInv, QueueInv, PassedList, cached
    <2> QED
      BY <1>2, <2>3, ActiveDiffers
  <1> QED
    BY <1>2, <1>4, <1>6, <1>7

\* A change of the phase of an existing run: ended runs stay ended, and a run
\* gets past the lock only when it may.
LEMMA WriteKeepsHolder ==
    ASSUME LockInv, NEW r \in Runs, NEW p \in Phases \ {"absent"}, Write(r, p),
           UNCHANGED created,
           api[r] \in Done => p \in Done,
           p \in Started => \A a \in Runs : Younger(r, a) => cached[a] \in Done
    PROVE  EndedStays' /\ PassedList' /\ cached' = cached
  <1> DEFINE n == Len(log)
  <1>1. /\ n \in Nat /\ n >= 1 /\ Len(log') = n + 1
        /\ \A i \in 1..n : log'[i] = log[i]
        /\ log'[n + 1] = [api EXCEPT ![r] = p]
        /\ cached' = cached /\ api' = [api EXCEPT ![r] = p]
        /\ api \in [Runs -> Phases]
        /\ api = log[n] /\ n \in 1..n
    BY WriteAppends, ListNonempty DEF LockInv, QueueInv, api
  <1>2. \A o \in Runs : log'[n + 1][o] = IF o = r THEN p ELSE log[n][o]
    BY <1>1
  <1>3. \A i \in 1..Len(log') : i \in 1..n \/ i = n + 1
    BY <1>1
  <1>4. \A a, b \in Runs : Younger(b, a)' <=> Younger(b, a)
    BY DEF Younger, Overlap
  <1> HIDE DEF n
  <1>5. EndedStays'
    <2> SUFFICES ASSUME NEW i \in 1..Len(log'), NEW j \in 1..Len(log'),
                        NEW o \in Runs, i <= j, log'[i][o] \in Done
                 PROVE  log'[j][o] \in Done
      BY DEF EndedStays
    <2>1. CASE j \in 1..n
      <3>1. i \in 1..n
        BY <1>1, <2>1
      <3> QED
        BY <1>1, <2>1, <3>1 DEF LockInv, HolderInv, EndedStays, n
    <2>2. CASE j = n + 1 /\ i \in 1..n
      <3>1. log[n][o] \in Done
        <4>1. i <= n /\ log[i][o] \in Done
          BY <1>1, <2>2
        <4> QED
          BY <1>1, <2>2, <4>1 DEF LockInv, HolderInv, EndedStays, n
      <3> QED
        BY <1>1, <1>2, <2>2, <3>1
    <2>3. CASE j = n + 1 /\ i = n + 1
      BY <2>3
    <2> QED
      BY <1>3, <2>1, <2>2, <2>3
  <1>6. PassedList'
    <2> SUFFICES ASSUME NEW a \in Runs, NEW b \in Runs, NEW i \in 1..Len(log'),
                        Younger(b, a), log'[i][b] \in Started
                 PROVE  cached[a] \in Done
      BY <1>1, <1>4 DEF PassedList
    <2>1. CASE i \in 1..n
      BY <1>1, <2>1 DEF LockInv, HolderInv, PassedList, n
    <2>2. CASE i = n + 1
      BY <1>1, <1>2, <2>2 DEF LockInv, HolderInv, PassedList, n
    <2> QED
      BY <1>3, <2>1, <2>2
  <1> QED
    BY <1>1, <1>5, <1>6

\* The status patch of a reconciliation.
LEMMA PatchKeepsHolder ==
    ASSUME LockInv, NEW r \in Runs, Reconciling(r),
           NEW p \in Phases \ {"absent"}, Patch(r, p), UNCHANGED created,
           api[r] \in Done => p \in Done,
           p \in Started => ~DestinationLocked(r)
    PROVE  EndedStays' /\ PassedList' /\ cached' = cached
  <1>1. CASE UNCHANGED log
    BY <1>1 DEF LockInv, HolderInv, EndedStays, PassedList, cached, Younger, Overlap
  <1>2. CASE Write(r, p)
    <2>1. p \in Started => \A a \in Runs : Younger(r, a) => cached[a] \in Done
      BY UnlockedMeansOldersEnded DEF LockInv
    <2> QED
      BY <1>2, <2>1, WriteKeepsHolder
  <1> QED
    BY <1>1, <1>2 DEF Patch

\* A step that gives no run a sender.
LEMMA JobsKept ==
    ASSUME LockInv, EndedStays', PassedList', cached' = cached, UNCHANGED created,
           \A o \in Runs : job[o] = "none" <=> job'[o] = "none"
    PROVE  HolderInv'
  <1>1. PassedJob'
    BY DEF LockInv, HolderInv, PassedJob, Younger, Overlap
  <1> QED
    BY <1>1 DEF HolderInv

\* A run that is reconciled without an ended Job has not ended.
LEMMA NotEndedWithoutReason ==
    ASSUME LockInv, NEW r \in Runs, Reconciling(r), jobSeen[r] \notin Ended
    PROVE  api[r] \notin Done
  <1>1. api[r] \notin Terminal
    <2>1. Len(log) \in 1..Len(log)
      BY ListNonempty DEF LockInv, QueueInv
    <2> QED
      BY <2>1 DEF LockInv, QueueInv, Undisturbed, EndHasReason, api
  <1> QED
    BY <1>1 DEF Reconciling, Done

LEMMA PatchStepsKeepHolder ==
    ASSUME LockInv, NEW r \in Runs,
           \/ WaitForDestination(r) \/ FailRun(r) \/ StartReceiver(r)
           \/ ReportSender(r)
    PROVE  HolderInv'
  <1>1. /\ {"Pending", "Failed", "StartingReceiver", "Running", "Succeeded"}
             \subseteq Phases \ {"absent"}
        /\ "Pending" \notin Started
        /\ {"Succeeded", "Failed"} \subseteq Done
    BY DEF Phases, Active, Waiting, Done, Terminal, Started
  <1>2. Reconciling(r) /\ UNCHANGED <<created, job>>
    BY DEF WaitForDestination, FailRun, StartReceiver, ReportSender
  <1>3. PICK p \in Phases \ {"absent"} :
          /\ Patch(r, p)
          /\ api[r] \in Done => p \in Done
          /\ p \in Started => ~DestinationLocked(r)
    <2>1. CASE WaitForDestination(r)
      <3>1. api[r] \notin Done
        BY <2>1, LockedMeansNotStarted DEF WaitForDestination
      <3> QED
        BY <1>1, <2>1, <3>1 DEF WaitForDestination
    <2>2. CASE FailRun(r)
      BY <1>1, <2>2 DEF FailRun
    <2>3. CASE StartReceiver(r)
      <3>1. api[r] \notin Done
        BY <1>2, <2>3, NotEndedWithoutReason DEF StartReceiver, Ended
      <3> QED
        BY <1>1, <2>3, <3>1 DEF StartReceiver
    <2>4. CASE ReportSender(r) /\ jobSeen[r] = "active"
      <3>1. api[r] \notin Done
        BY <1>2, <2>4, NotEndedWithoutReason DEF Ended
      <3> QED
        BY <1>1, <2>4, <3>1 DEF ReportSender
    <2>5. CASE ReportSender(r) /\ jobSeen[r] # "active"
      BY <1>1, <2>5 DEF ReportSender
    <2> QED
      BY <2>1, <2>2, <2>3, <2>4, <2>5
  <1> QED
    BY <1>2, <1>3, PatchKeepsHolder, JobsKept

LEMMA StartSenderKeepsHolder ==
    ASSUME LockInv, NEW r \in Runs, StartSender(r)
    PROVE  HolderInv'
  <1>1. api[r] \notin Done
    BY NotEndedWithoutReason DEF StartSender, Ended
  <1>2. "ReceiverReady" \in Phases \ {"absent"}
    BY DEF Phases, Active
  <1>3. EndedStays' /\ PassedList' /\ cached' = cached
    BY <1>1, <1>2, PatchKeepsHolder DEF StartSender
  <1>4. \A o \in Runs : o # r => job'[o] = job[o]
    BY DEF StartSender, LockInv, QueueInv, TypeOK
  <1>5. PassedJob'
    <2> SUFFICES ASSUME NEW a \in Runs, NEW b \in Runs, Younger(b, a),
                        job'[b] # "none"
                 PROVE  cached[a] \in Done
      BY <1>3 DEF PassedJob, StartSender, Younger, Overlap
    <2>1. CASE b = r
      BY <2>1, UnlockedMeansOldersEnded DEF StartSender, LockInv
    <2>2. CASE b # r
      BY <1>4, <2>2 DEF LockInv, HolderInv, PassedJob
    <2> QED
      BY <2>1, <2>2
  <1> QED
    BY <1>3, <1>5 DEF HolderInv

\* The new run is younger than all others and is in no earlier state.
LEMMA CreateKeepsHolder ==
    ASSUME LockInv, DistinctSeconds', NEW r \in Runs, Create(r)
    PROVE  HolderInv'
  <1> DEFINE n == Len(log)
  <1>0. NoPhase \in Phases /\ NoPhase \notin Started \cup Terminal \cup Done \cup {"absent"}
    BY NoPhaseDiffers
  <1>1. /\ log' \in Seq([Runs -> Phases]) /\ Len(log') \in 1..MaxLag
        /\ n \in Nat /\ n >= 1 /\ Len(log') = n + 1
        /\ \A i \in 1..n : log'[i] = log[i]
        /\ cached' = cached /\ api' = [api EXCEPT ![r] = NoPhase]
        /\ log'[n + 1] = api'
        /\ api \in [Runs -> Phases]
        /\ api = log[n] /\ n \in 1..n
    BY <1>0, WriteAppends, ListNonempty DEF LockInv, QueueInv, api, Create
  <1>2. /\ created \in [Runs -> Nat] /\ second \in Nat \ {0}
        /\ second' \in Nat \ {0} /\ second' >= second
        /\ created' = [created EXCEPT ![r] = second']
        /\ created[r] = 0
        /\ \A o \in Runs : created[o] <= second
    BY DEF Create, LockInv, QueueInv, TypeOK, CreationOrder
  <1>3. \A o \in Runs : log'[n + 1][o] = IF o = r THEN NoPhase ELSE log[n][o]
    BY <1>1
  <1>4. \A i \in 1..Len(log') : i \in 1..n \/ i = n + 1
    BY <1>1
  <1>5. \A i \in 1..n : log[i][r] = "absent"
    BY <1>2 DEF LockInv, QueueInv, CreationOrder
  <1>6. \A o \in Runs : created'[o] = IF o = r THEN second' ELSE created[o]
    BY <1>2
  <1>7. \A o \in Runs : o # r => created[o] < second'
    BY <1>2, <1>6 DEF DistinctSeconds
  <1>8. \A a, b \in Runs : Younger(b, a)' => a # r /\ (b # r => Younger(b, a))
    BY <1>2, <1>6, <1>7 DEF Younger, Overlap
  <1> HIDE DEF n
  <1>9. EndedStays'
    <2> SUFFICES ASSUME NEW i \in 1..Len(log'), NEW j \in 1..Len(log'),
                        NEW o \in Runs, i <= j, log'[i][o] \in Done
                 PROVE  log'[j][o] \in Done
      BY DEF EndedStays
    <2>1. CASE j \in 1..n
      <3>1. i \in 1..n
        BY <1>1, <2>1
      <3> QED
        BY <1>1, <2>1, <3>1 DEF LockInv, HolderInv, EndedStays, n
    <2>2. CASE j = n + 1 /\ i \in 1..n
      <3>1. i <= n /\ log[i][o] \in Done /\ o # r
        BY <1>0, <1>1, <1>5, <2>2 DEF Done, Terminal
      <3>2. log[n][o] \in Done
        BY <1>1, <2>2, <3>1 DEF LockInv, HolderInv, EndedStays, n
      <3> QED
        BY <1>3, <2>2, <3>1, <3>2
    <2>3. CASE j = n + 1 /\ i = n + 1
      BY <2>3
    <2> QED
      BY <1>4, <2>1, <2>2, <2>3
  <1>10. PassedList'
    <2> SUFFICES ASSUME NEW a \in Runs, NEW b \in Runs, NEW i \in 1..Len(log'),
                        Younger(b, a)', log'[i][b] \in Started
                 PROVE  cached[a] \in Done
      BY <1>1 DEF PassedList
    <2>1. b # r
      BY <1>0, <1>1, <1>3, <1>4, <1>5 DEF Started, Terminal
    <2> QED
      BY <1>1, <1>3, <1>4, <1>8, <2>1 DEF LockInv, HolderInv, PassedList, n
  <1>11. job[r] = "none"
    BY DEF LockInv, QueueInv, JobAfterCreation, Create
  <1>12. PassedJob'
    BY <1>1, <1>8, <1>11 DEF LockInv, HolderInv, PassedJob, Create
  <1> QED
    BY <1>9, <1>10, <1>12 DEF HolderInv

LEMMA DeleteKeepsHolder ==
    ASSUME LockInv, NEW r \in Runs, Delete(r)
    PROVE  HolderInv'
  <1>1. /\ "deleted" \in Phases \ {"absent"} /\ "deleted" \in Done
        /\ "deleted" \notin Started
    BY DEF Phases, Done, Started, Terminal
  <1>2. Write(r, "deleted") /\ UNCHANGED <<created, job>>
    BY DEF Delete
  <1>3. EndedStays' /\ PassedList' /\ cached' = cached
    BY <1>1, <1>2, WriteKeepsHolder
  <1> QED
    BY <1>2, <1>3, JobsKept

LEMMA JobStepsKeepHolder ==
    ASSUME LockInv, NEW r \in Runs, Refuse(r) \/ JobEnds(r) \/ DeliverJob(r)
    PROVE  HolderInv'
  <1>1. /\ UNCHANGED <<log, created>>
        /\ \A o \in Runs : job[o] = "none" <=> job'[o] = "none"
    BY DEF LockInv, QueueInv, TypeOK, Refuse, JobEnds, DeliverJob, JobStates
  <1>2. EndedStays' /\ PassedList' /\ cached' = cached
    BY <1>1 DEF LockInv, HolderInv, EndedStays, PassedList, cached, Younger, Overlap
  <1> QED
    BY <1>1, <1>2, JobsKept

LEMMA DeliverRunsKeepsHolder ==
    ASSUME LockInv, DeliverRuns
    PROVE  HolderInv'
  <1>1. /\ Len(log) \in Nat /\ Len(log) > 1 /\ Len(log') = Len(log) - 1
        /\ \A i \in 1..Len(log') : log'[i] = log[i + 1]
        /\ cached' = log[2]
    BY DeliveryDropsFirst, ListNonempty DEF LockInv, QueueInv, DeliverRuns
  <1>2. UNCHANGED <<created, job>>
    BY DEF DeliverRuns
  <1>3. \A i \in 1..Len(log') : i + 1 \in 1..Len(log)
    BY <1>1
  <1>4. \A a \in Runs : cached[a] \in Done => cached'[a] \in Done
    BY <1>1 DEF LockInv, HolderInv, EndedStays, cached
  <1>5. EndedStays'
    <2> SUFFICES ASSUME NEW i \in 1..Len(log'), NEW j \in 1..Len(log'),
                        NEW o \in Runs, i <= j, log'[i][o] \in Done
                 PROVE  log'[j][o] \in Done
      BY DEF EndedStays
    <2>1. i + 1 \in 1..Len(log) /\ j + 1 \in 1..Len(log) /\ i + 1 <= j + 1
      BY <1>3
    <2> QED
      BY <1>1, <2>1 DEF LockInv, HolderInv, EndedStays
  <1>6. PassedList'
    <2> SUFFICES ASSUME NEW a \in Runs, NEW b \in Runs, NEW i \in 1..Len(log'),
                        Younger(b, a), log'[i][b] \in Started
                 PROVE  cached'[a] \in Done
      BY <1>2 DEF PassedList, Younger, Overlap
    <2> QED
      BY <1>1, <1>3, <1>4 DEF LockInv, HolderInv, PassedList
  <1>7. PassedJob'
    BY <1>2, <1>4 DEF LockInv, HolderInv, PassedJob, Younger, Overlap
  <1> QED
    BY <1>5, <1>6, <1>7 DEF HolderInv

LEMMA HolderNext ==
    ASSUME LockInv, Undisturbed', [Next]_vars
    PROVE  HolderInv'
  <1>1. CASE UNCHANGED vars
    BY <1>1 DEF vars, LockInv, HolderInv, EndedStays, PassedList, PassedJob, Younger,
                Overlap, cached
  <1>2. CASE DeliverRuns
    BY <1>2, DeliverRunsKeepsHolder
  <1>3. ASSUME NEW r \in Runs, Reconcile(r)
        PROVE  HolderInv'
    BY <1>3, PatchStepsKeepHolder, StartSenderKeepsHolder DEF Reconcile
  <1>4. ASSUME NEW r \in Runs, Create(r) \/ Delete(r)
        PROVE  HolderInv'
    BY <1>4, CreateKeepsHolder, DeleteKeepsHolder DEF Undisturbed
  <1>5. ASSUME NEW r \in Runs, Refuse(r) \/ JobEnds(r) \/ DeliverJob(r)
        PROVE  HolderInv'
    BY <1>5, JobStepsKeepHolder
  <1> QED
    BY <1>1, <1>2, <1>3, <1>4, <1>5 DEF Next

LEMMA LockInvInit ==
    ASSUME Init
    PROVE  QueueInv /\ HolderInv
  <1> DEFINE start == [r \in Runs |-> "absent"]
  <1>1. start \in [Runs -> Phases]
    BY DEF Phases
  <1>2. /\ log = <<start>> /\ Len(log) = 1 /\ log[1] = start
        /\ log \in Seq([Runs -> Phases]) /\ 1..Len(log) = {1}
    BY <1>1 DEF Init
  <1>3. /\ cached = start /\ api = start
        /\ \A r \in Runs : start[r] = "absent"
    BY <1>2 DEF cached, api
  <1> HIDE DEF start
  <1>4. TypeOK
    BY <1>2, ConstantsAssumption DEF Init, TypeOK, JobStates
  <1>5. CreationOrder /\ JobAfterCreation
    BY <1>2, <1>3 DEF Init, CreationOrder, JobAfterCreation
  <1>6. EndedStays /\ DeletedStays
    BY <1>2 DEF EndedStays, DeletedStays
  <1>7. EndHasReason
    BY <1>2, <1>3 DEF Init, EndHasReason, Ended, Terminal
  <1>8. PassedList /\ PassedJob /\ InTurn
    BY DEF Init, PassedList, PassedJob, InTurn, Younger
  <1> QED
    BY <1>4, <1>5, <1>6, <1>7, <1>8 DEF QueueInv, HolderInv

-----------------------------------------------------------------------------
\* Two runs of one second stay two runs of one second, and a refusal stays.
LEMMA DisturbanceStays ==
    ASSUME TypeOK, [Next]_vars, Undisturbed'
    PROVE  Undisturbed
  <1>1. CASE UNCHANGED <<created, refused>>
    BY <1>1 DEF Undisturbed, DistinctSeconds
  <1>2. ASSUME NEW r \in Runs, Create(r)
        PROVE  Undisturbed
    BY <1>2 DEF Undisturbed, DistinctSeconds, TypeOK, Create
  <1>3. ASSUME NEW r \in Runs, Refuse(r)
        PROVE  Undisturbed
    BY <1>3 DEF Undisturbed, Refuse
  <1> QED
    BY <1>1, <1>2, <1>3
       DEF Next, vars, Reconcile, WaitForDestination, FailRun, StartReceiver,
           StartSender, ReportSender, Delete, JobEnds, DeliverRuns, DeliverJob

-----------------------------------------------------------------------------
\* The inductive invariant.  Without condition: types, the order of creation in
\* every state of the list, a lasting reason for every ended phase, and older
\* overlapping runs over before a younger one gets a sender.  Until two runs are
\* created within one second or one is refused: an ended run stays ended, and a
\* run past the lock is shown every older overlapping run as ended.
THEOREM LockInvariant ==
    Spec => [](QueueInv /\ (Undisturbed => HolderInv))
  <1>1. Init => QueueInv /\ (Undisturbed => HolderInv)
    BY LockInvInit
  <1>2. QueueInv /\ (Undisturbed => HolderInv) /\ [Next]_vars
          => (QueueInv /\ (Undisturbed => HolderInv))'
    <2> SUFFICES ASSUME QueueInv, Undisturbed => HolderInv, [Next]_vars
                 PROVE  QueueInv' /\ (Undisturbed' => HolderInv')
      OBVIOUS
    <2>1. QueueInv'
      BY QueueNext
    <2>2. ASSUME Undisturbed'
          PROVE  HolderInv'
      <3>1. Undisturbed
        BY <2>2, DisturbanceStays DEF QueueInv
      <3>2. LockInv
        BY <3>1 DEF LockInv
      <3> QED
        BY <2>2, <3>2, HolderNext
    <2> QED
      BY <2>1, <2>2
  <1> QED
    BY <1>1, <1>2, PTL DEF Spec

\* The types of the lock's state, from the same invariant.
THEOREM LockTypeCorrect ==
    Spec => []TypeOK
  <1>1. QueueInv => TypeOK
    BY DEF QueueInv
  <1> QED
    BY <1>1, LockInvariant, PTL

\* While a run that met no refusal receives, no younger overlapping run has a
\* sender: with any number of runs, any targets and any lag of the cached list,
\* and although stale reconciliations overwrite ended phases.
THEOREM MutualExclusion ==
    Spec => []ExclusiveReceivers
  <1>1. QueueInv => ExclusiveReceivers
    <2> SUFFICES ASSUME QueueInv, NEW a \in Runs, NEW b \in Runs, Overlap(a, b),
                        created[a] < created[b], a \notin refused, Receiving(a),
                        job[b] # "none"
                 PROVE  FALSE
      BY DEF ExclusiveReceivers
    <2>1. created[a] # 0 /\ created[a] \in Nat
      BY DEF QueueInv, TypeOK, JobAfterCreation, Receiving
    <2>2. Younger(b, a)
      BY <2>1 DEF Younger
    <2>3. job[a] \in Ended \/ api[a] = "deleted"
      BY <2>2 DEF QueueInv, InTurn
    <2> QED
      BY <2>3, ActiveDiffers DEF Receiving, Ended, Done
  <1> QED
    BY <1>1, LockInvariant, PTL

\* Until a second is shared or a lease or child refused, a run whose sender is at
\* work is not sent back to Pending: WaitForDestination finds the destination
\* taken only before the run has a sender.
THEOREM HolderStays ==
    Spec => HolderKeepsDestination
  <1>1. ASSUME LockInv, [Next]_vars
        PROVE  [\A r \in Runs : Receiving(r) /\ api'[r] = "Pending" =>
                  api[r] = "Pending"]_vars
    <2> SUFFICES ASSUME NEW r \in Runs, Receiving(r), api'[r] = "Pending",
                        Next
                 PROVE  api[r] = "Pending"
      BY <1>1 DEF vars, api
    <2>1. ASSUME NEW o \in Runs, NEW p \in Phases, Write(o, p), p # "Pending"
          PROVE  api[r] = "Pending"
      BY <1>1, <2>1, WriteAppends, ListNonempty DEF LockInv, QueueInv
    <2>2. ASSUME UNCHANGED log
          PROVE  api[r] = "Pending"
      BY <2>2 DEF api
    <2>3. /\ {"Failed", "Succeeded", "Running", "StartingReceiver",
              "ReceiverReady", "deleted"} \subseteq Phases \ {"Pending"}
      BY DEF Phases, Active, Done, Terminal
    <2>4. NoPhase \in Phases /\ NoPhase # "Pending"
      BY NoPhaseDiffers, Zenon DEF NoPhase
    <2>5. ASSUME NEW o \in Runs, Reconcile(o)
          PROVE  api[r] = "Pending"
      <3>1. CASE WaitForDestination(o)
        <4>1. o # r
          BY <1>1, <3>1, LockedMeansNotStarted
             DEF WaitForDestination, Receiving
        <4>2. "Pending" \in Phases
          BY DEF Phases, Active, Waiting
        <4>3. CASE Write(o, "Pending")
          BY <1>1, <4>1, <4>2, <4>3, WriteAppends, ListNonempty DEF LockInv, QueueInv
        <4> QED
          BY <2>2, <3>1, <4>3 DEF WaitForDestination, Patch
      <3>2. CASE FailRun(o)
        BY <2>1, <2>2, <2>3, <3>2 DEF FailRun, Patch
      <3>3. CASE StartReceiver(o)
        BY <2>1, <2>2, <2>3, <3>3 DEF StartReceiver, Patch
      <3>4. CASE StartSender(o)
        BY <2>1, <2>2, <2>3, <3>4 DEF StartSender, Patch
      <3>5. CASE ReportSender(o)
        BY <2>1, <2>2, <2>3, <3>5 DEF ReportSender, Patch
      <3> QED
        BY <2>5, <3>1, <3>2, <3>3, <3>4, <3>5 DEF Reconcile
    <2>6. ASSUME NEW o \in Runs, Create(o) \/ Delete(o)
          PROVE  api[r] = "Pending"
      BY <2>1, <2>3, <2>4, <2>6 DEF Create, Delete
    <2>7. ASSUME NEW o \in Runs, Refuse(o) \/ JobEnds(o) \/ DeliverJob(o)
          PROVE  api[r] = "Pending"
      BY <2>2, <2>7 DEF Refuse, JobEnds, DeliverJob
    <2>8. CASE DeliverRuns
      BY <1>1, <2>8, DeliveryDropsFirst DEF DeliverRuns, LockInv, QueueInv
    <2> QED
      BY <2>5, <2>6, <2>7, <2>8 DEF Next
  <1>2. QueueInv /\ (Undisturbed => HolderInv) /\ [Next]_vars =>
          [DistinctSeconds /\ refused = {} =>
             \A r \in Runs : Receiving(r) /\ api'[r] = "Pending" =>
                 api[r] = "Pending"]_vars
    BY <1>1 DEF LockInv, Undisturbed
  <1> QED
    BY <1>2, LockInvariant, PTL DEF Spec, HolderKeepsDestination
=============================================================================
