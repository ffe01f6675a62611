------------------------- MODULE SyncoidSessionProofs -------------------------
(***************************************************************************)
(* What the receiver's policy keeps, for any datasets, any run settings    *)
(* and any client: it may send any commands in any order, Syncoid's or     *)
(* not.                                                                    *)
(***************************************************************************)
EXTENDS SyncoidSession, TLAPS

\* What is left of a command has been admitted.
PendingAdmitted ==
    /\ pending \in Seq(Pipelines)
    /\ \A i \in 1..Len(pending) : PipelineAllowed(pending[i], policy)

IInv ==
    /\ spec \in Specs
    /\ zfs \in [Datasets -> DatasetStates]
    /\ PendingAdmitted

\* The step of a pipeline that acts.
Acting == Head(pending)[Len(Head(pending))]

-----------------------------------------------------------------------------
LEMMA ChildOfChild ==
  ASSUME NEW a \in Seq(STRING), NEW b \in Seq(STRING), NEW c \in Seq(STRING),
         DatasetOrChild(a, b), DatasetOrChild(b, c)
  PROVE  DatasetOrChild(a, c)
<1>1. /\ Len(a) >= Len(b) /\ Len(b) >= Len(c)
      /\ SubSeq(a, 1, Len(b)) = b /\ SubSeq(b, 1, Len(c)) = c
  BY DEF DatasetOrChild
<1>2. Len(SubSeq(a, 1, Len(c))) = Len(c)
  BY <1>1
<1>3. \A i \in 1..Len(c) : SubSeq(a, 1, Len(c))[i] = c[i]
  <2> SUFFICES ASSUME NEW i \in 1..Len(c) PROVE SubSeq(a, 1, Len(c))[i] = c[i]
    OBVIOUS
  <2>1. SubSeq(a, 1, Len(c))[i] = a[i]
    BY <1>1
  <2>2. SubSeq(a, 1, Len(b))[i] = a[i]
    BY <1>1
  <2>3. SubSeq(b, 1, Len(c))[i] = b[i]
    BY <1>1
  <2> QED
    BY <1>1, <2>1, <2>2, <2>3
<1>4. SubSeq(a, 1, Len(c)) \in Seq(STRING)
  BY <1>1
<1>5. SubSeq(a, 1, Len(c)) = c
  BY <1>2, <1>3, <1>4
<1> QED
  BY <1>1, <1>5 DEF DatasetOrChild

LEMMA TargetIsItsOwn == DatasetOrChild(Target, Target)
<1>1. Target \in Seq(STRING)
  BY ConstantsAssumption
<1> QED
  BY <1>1 DEF DatasetOrChild

\* What the policy says of the step that acts.
LEMMA ActingAllowed ==
  ASSUME IInv, pending # <<>>
  PROVE  /\ Acting \in Steps
         /\ Acting.name = "zfs receive" => ReceiveAllowed(Acting, policy)
         /\ Acting.name = "zfs destroy" => DestroyAllowed(Acting, policy)
<1> DEFINE p == Head(pending)
<1>1. p \in Pipelines /\ PipelineAllowed(p, policy)
  BY DEF IInv, PendingAdmitted
<1>2. p \in Seq(Steps) /\ Len(p) \in Nat \ {0}
  BY <1>1 DEF Pipelines
<1>3. p[Len(p)] \in Steps
  BY <1>2
<1>4. ASSUME p[Len(p)].name = "zfs receive"
      PROVE  ReceiveAllowed(p[Len(p)], policy)
  BY <1>1, <1>4 DEF PipelineAllowed, FeatureCheckAllowed, ReceivePipelineAllowed, QueryAllowed
<1>5. ASSUME p[Len(p)].name = "zfs destroy"
      PROVE  DestroyAllowed(p[Len(p)], policy)
  BY <1>1, <1>5 DEF PipelineAllowed, FeatureCheckAllowed, ReceivePipelineAllowed, QueryAllowed
<1> QED
  BY <1>3, <1>4, <1>5 DEF Acting

\* The policy of a run's settings.
LEMMA PolicyMeans ==
  ASSUME spec \in Specs
  PROVE  /\ policy.allowMount => spec.receiveUnmounted = "false"
         /\ policy.allowDestroy => spec.forceDelete = "true"
         /\ policy.allowRollback => spec.noRollback = "false"
         /\ policy.receiveResumable => spec.receiveResumable # "false"
         /\ policy.allowTargetSnapshotDestroy => spec.deleteTargetSnapshots = "true"
         /\ policy.allowSyncSnapshotDestroy => spec.noSyncSnap # "true"
         /\ policy.syncSnapshotIdentifier = Relationship
BY DEF Specs, Flag, policy, options, ReceiverPolicy, Normalize, BoolDefault

-----------------------------------------------------------------------------
(* The invariant.                                                           *)

LEMMA InitEstablishes == Init => IInv
<1> SUFFICES ASSUME Init PROVE IInv
  OBVIOUS
<1>1. PICK state \in DatasetStates :
        zfs = [d \in Datasets |-> IF d = Target THEN state
                                 ELSE [Absent EXCEPT !.exists =
                                         DatasetOrChild(d, Target) => state.exists]]
  BY DEF Init
<1>2. \A e \in BOOLEAN : [Absent EXCEPT !.exists = e] \in DatasetStates
  BY DEF Absent, DatasetStates
<1>3. zfs \in [Datasets -> DatasetStates]
  BY <1>1, <1>2
<1>4. spec \in Specs /\ pending = <<>>
  BY DEF Init
<1> QED
  BY <1>3, <1>4 DEF IInv, PendingAdmitted

LEMMA PendingKept ==
  ASSUME PendingAdmitted, pending # <<>>, UNCHANGED spec,
         pending' = Tail(pending) \/ pending' = <<>>
  PROVE  PendingAdmitted'
<1>1. policy' = policy
  BY DEF policy, options
<1>2. CASE pending' = <<>>
  BY <1>2 DEF PendingAdmitted
<1>3. CASE pending' = Tail(pending)
  <2>1. pending' \in Seq(Pipelines) /\ Len(pending') = Len(pending) - 1
    BY <1>3 DEF PendingAdmitted
  <2>2. \A i \in 1..Len(pending') : i + 1 \in 1..Len(pending)
                                   /\ pending'[i] = pending[i + 1]
    BY <1>3, <2>1 DEF PendingAdmitted
  <2> QED
    BY <1>1, <2>1, <2>2 DEF PendingAdmitted
<1> QED
  BY <1>2, <1>3

\* What may be done to a dataset without leaving its type.
LEMMA DatasetChanges ==
  ASSUME NEW s \in DatasetStates
  PROVE  /\ s.snapshots \subseteq Snapshots
         /\ [[s EXCEPT !.exists = TRUE] EXCEPT !.partial = TRUE] \in DatasetStates
         /\ [s EXCEPT !.partial = FALSE] \in DatasetStates
         /\ \A gone : [s EXCEPT !.snapshots = @ \ gone] \in DatasetStates
<1>1. s \in [exists : BOOLEAN, snapshots : SUBSET Snapshots,
             partial : BOOLEAN, mounted : BOOLEAN]
  BY DEF DatasetStates
<1>2. [s EXCEPT !.partial = FALSE] \in DatasetStates
  BY <1>1 DEF DatasetStates
<1>3. ASSUME NEW gone PROVE [s EXCEPT !.snapshots = @ \ gone] \in DatasetStates
  BY <1>1 DEF DatasetStates
<1>4. [[s EXCEPT !.exists = TRUE] EXCEPT !.partial = TRUE] \in DatasetStates
  BY <1>1 DEF DatasetStates
<1> QED
  BY <1>1, <1>2, <1>3, <1>4

LEMMA DatasetsAreRecords ==
  ASSUME IInv
  PROVE  zfs \in [Datasets -> [exists : BOOLEAN, snapshots : SUBSET Snapshots,
                              partial : BOOLEAN, mounted : BOOLEAN]]
BY DEF IInv, DatasetStates

\* What a stream makes of a dataset is a dataset, and is there; without -F nothing
\* is lost, and with -u nothing gets mounted.
LEMMA ReceivedMeans ==
  ASSUME IInv, NEW d \in Datasets, NEW flags, NEW s \in Received(d, flags)
  PROVE  /\ s \in DatasetStates /\ s.exists /\ ~s.partial
         /\ s.snapshots \subseteq zfs[d].snapshots \cup Source
         /\ "-F" \notin flags => zfs[d].snapshots \subseteq s.snapshots
         /\ "-u" \in flags => (s.mounted => zfs[d].mounted)
<1> DEFINE mounts == zfs[d].mounted \/ "-u" \notin flags
<1>1. zfs[d].snapshots \subseteq Snapshots /\ zfs[d].mounted \in BOOLEAN
  BY DatasetsAreRecords
<1>2. PICK kept \in SUBSET zfs[d].snapshots :
        /\ "-F" \notin flags => kept = zfs[d].snapshots
        /\ s = [exists |-> TRUE, snapshots |-> kept \cup Source, partial |-> FALSE,
                mounted |-> mounts]
  BY DEF Received
<1>3. mounts \in BOOLEAN
  BY <1>1
<1>4. "-u" \in flags => (mounts => zfs[d].mounted)
  OBVIOUS
<1> HIDE DEF mounts
<1>5. s.exists /\ ~s.partial /\ s.snapshots = kept \cup Source /\ s.mounted = mounts
  BY <1>2
<1>6. s \in DatasetStates
  BY <1>1, <1>2, <1>3 DEF DatasetStates, Snapshots
<1>7. "-u" \in flags => (s.mounted => zfs[d].mounted)
  BY <1>4, <1>5, Zenon
<1> QED
  BY <1>2, <1>5, <1>6, <1>7

\* What it may do to a dataset below the target.
LEMMA ReplicatedMeans ==
  ASSUME IInv, NEW d \in Datasets, NEW flags, NEW s \in Replicated(d, flags)
  PROVE  /\ s \in DatasetStates
         /\ "-F" \notin flags => (zfs[d].exists => s.exists)
         /\ "-u" \in flags => (s.mounted => zfs[d].mounted)
<1>1. zfs[d] \in DatasetStates /\ Absent \in DatasetStates /\ ~Absent.mounted
  BY DEF IInv, Absent, DatasetStates
<1>2. \/ s = zfs[d]
      \/ s \in Received(d, flags)
      \/ "-F" \in flags /\ s = Absent
  BY DEF Replicated
<1>3. CASE s \in Received(d, flags)
  BY <1>3, ReceivedMeans
<1>4. CASE s = zfs[d]
  BY <1>1, <1>4
<1>5. CASE "-F" \in flags /\ s = Absent
  BY <1>1, <1>5
<1> QED
  BY <1>2, <1>3, <1>4, <1>5

\* What a receive into the target that ends well leaves.
Streamed(flags) ==
    /\ zfs' = [c \in Datasets |-> zfs'[c]]
    /\ zfs'[Target] \in Received(Target, flags)
    /\ \A c \in Children(Target) \ {Target} : zfs'[c] \in Replicated(c, flags)
    /\ \A c \in Datasets \ Children(Target) : zfs'[c] = zfs[c]

LEMMA ReceiveForms ==
  ASSUME NEW step, Receive(step), step.dataset = Target
  PROVE  \/ UNCHANGED zfs /\ (outcome' = "partial" => zfs[Target].partial)
         \/ /\ "-s" \in step.flags /\ outcome' # "partial"
            /\ zfs' = [zfs EXCEPT ![Target].exists = TRUE, ![Target].partial = TRUE]
         \/ outcome' = "ok" /\ Streamed(step.flags)
<1>1. Target \in Datasets /\ Target \in Children(Target)
      /\ Children(Target) \subseteq Datasets
  BY ConstantsAssumption, TargetIsItsOwn DEF Children
<1>2. ASSUME StreamInto(Target, step.flags) PROVE Streamed(step.flags)
  <2> DEFINE below == Children(Target) \ {Target}
  <2>1. PICK received \in Received(Target, step.flags),
             others \in [below -> UNION {Replicated(c, step.flags) : c \in below}] :
          /\ \A c \in below : others[c] \in Replicated(c, step.flags)
          /\ zfs' = [c \in Datasets |-> IF c = Target THEN received
                                       ELSE IF c \in below THEN others[c]
                                       ELSE zfs[c]]
    BY <1>2 DEF StreamInto
  <2>2. zfs' = [c \in Datasets |-> zfs'[c]]
    BY <2>1
  <2>3. zfs'[Target] = received
    BY <1>1, <2>1
  <2>4. \A c \in below : zfs'[c] = others[c]
    BY <1>1, <2>1
  <2>5. \A c \in Datasets \ Children(Target) : zfs'[c] = zfs[c]
    BY <1>1, <2>1
  <2> QED
    BY <2>1, <2>2, <2>3, <2>4, <2>5 DEF Streamed
<1> QED
  BY <1>2 DEF Receive

\* What running a step does to the datasets keeps their type.
LEMMA ExecuteTyped ==
  ASSUME IInv, Execute
  PROVE  zfs' \in [Datasets -> DatasetStates]
<1>1. /\ zfs \in [Datasets -> DatasetStates]
      /\ pending # <<>> /\ spec \in Specs
  BY DEF IInv, Execute
<1>2. Acting \in Steps
  BY ActingAllowed, <1>1
<1>3. Target \in Datasets
  BY ConstantsAssumption
<1>4. \A d \in Datasets : zfs[d] \in DatasetStates
  BY <1>1
<1>5. CASE Acting.name = "zfs receive" /\ Receive(Acting)
  <2>1. Acting.dataset = Target
    BY <1>1, <1>5, ActingAllowed DEF ReceiveAllowed
  <2>3. CASE UNCHANGED zfs
    BY <1>1, <2>3
  <2>4. CASE Streamed(Acting.flags)
    BY <1>1, <1>3, <2>4, ReceivedMeans, ReplicatedMeans DEF Children, Streamed
  <2>5. CASE zfs' = [zfs EXCEPT ![Target].exists = TRUE, ![Target].partial = TRUE]
    <3>1. [[zfs[Target] EXCEPT !.exists = TRUE] EXCEPT !.partial = TRUE] \in DatasetStates
      BY <1>3, <1>4, DatasetChanges
    <3>2. zfs' = [zfs EXCEPT ![Target] =
                    [[zfs[Target] EXCEPT !.exists = TRUE] EXCEPT !.partial = TRUE]]
      BY <1>1, <1>3, <2>5
    <3> QED
      BY <1>1, <3>1, <3>2
  <2> QED
    BY <1>5, <2>1, <2>3, <2>4, <2>5, ReceiveForms
<1>6. CASE Acting.name = "zfs receive" /\ AbortReceive(Acting)
  <2>1. Acting.dataset = Target
    BY <1>1, <1>6, ActingAllowed DEF ReceiveAllowed
  <2>2. [zfs[Target] EXCEPT !.partial = FALSE] \in DatasetStates
    BY <1>3, <1>4, DatasetChanges
  <2>3. Absent \in DatasetStates
    BY DEF Absent, DatasetStates
  <2> QED
    BY <1>1, <1>3, <1>6, <2>1, <2>2, <2>3 DEF AbortReceive
<1>7. CASE Acting.name = "zfs destroy" /\ Destroy(Acting)
  <2>1. CASE UNCHANGED zfs
    BY <1>1, <2>1
  <2>2. CASE /\ zfs[Acting.dataset].exists
             /\ zfs' = [zfs EXCEPT ![Acting.dataset].snapshots = @ \ Acting.snapshots]
    <3>1. CASE Acting.dataset \in Datasets
      <4>1. [zfs[Acting.dataset] EXCEPT !.snapshots = @ \ Acting.snapshots]
              \in DatasetStates
        BY <1>4, <2>2, <3>1, DatasetChanges
      <4> QED
        BY <1>1, <2>2, <3>1, <4>1
    <3>2. CASE Acting.dataset \notin Datasets
      BY <1>1, <2>2, <3>2
    <3> QED
      BY <3>1, <3>2
  <2>3. CASE zfs' = [c \in Datasets |-> IF c \in Children(Acting.dataset) THEN Absent
                                       ELSE zfs[c]]
    <3>1. Absent \in DatasetStates
      BY DEF DatasetStates, Absent
    <3> QED
      BY <1>4, <2>3, <3>1
  <2> QED
    BY <1>7, <2>1, <2>2, <2>3 DEF Destroy
<1>8. CASE Look
  BY <1>1, <1>8 DEF Look
<1> QED
  BY <1>5, <1>6, <1>7, <1>8 DEF Execute, Acting

LEMMA NextPreserves == IInv /\ [ClientNext]_vars => IInv'
<1> SUFFICES ASSUME IInv, [ClientNext]_vars PROVE IInv'
  OBVIOUS
<1>1. CASE Client
  <2>1. UNCHANGED <<spec, zfs>> /\ policy' = policy
    BY <1>1 DEF Client, policy, options
  <2>2. PICK command \in Commands : Send(command)
    BY <1>1 DEF Client
  <2>3. command \in Seq(Pipelines)
    BY ConstantsAssumption
  <2>4. CASE pending' = command /\ Authorized(command, policy)
    BY <2>1, <2>3, <2>4 DEF IInv, PendingAdmitted, Authorized
  <2>5. CASE pending' = <<>>
    BY <2>1, <2>5 DEF IInv, PendingAdmitted
  <2> QED
    BY <2>2, <2>4, <2>5 DEF Send
<1>2. CASE Execute
  <2>1. UNCHANGED spec /\ pending # <<>> /\ (pending' = Tail(pending) \/ pending' = <<>>)
    BY <1>2 DEF Execute
  <2>2. PendingAdmitted'
    BY <2>1, PendingKept DEF IInv
  <2> QED
    BY <1>2, <2>1, <2>2, ExecuteTyped DEF IInv
<1>3. CASE UNCHANGED vars
  BY <1>3 DEF vars, IInv, PendingAdmitted, policy, options
<1> QED
  BY <1>1, <1>2, <1>3 DEF ClientNext

\* Whatever a client sends, what the receiver is about to run has been admitted by
\* the policy of the run (authorizeReceiverCommand before executeReceiverCommandPlan).
THEOREM AdmittedOnly == ClientSpec => []IInv
BY InitEstablishes, NextPreserves, PTL DEF ClientSpec

-----------------------------------------------------------------------------
(* What a client cannot do.                                                 *)

\* Running a step changes the target, or what is below it, and nothing else.
LEMMA ExecuteInside ==
  ASSUME IInv, Execute, NEW d \in Datasets, zfs'[d] # zfs[d]
  PROVE  DatasetOrChild(d, Target)
<1>1. zfs \in [Datasets -> DatasetStates] /\ pending # <<>>
  BY DEF IInv, Execute
<1>2. Datasets \subseteq Seq(STRING) /\ Target \in Datasets
  BY ConstantsAssumption
<1>3. CASE Acting.name = "zfs receive" /\ (Receive(Acting) \/ AbortReceive(Acting))
  <2>1. Acting.dataset = Target
    BY <1>1, <1>3, ActingAllowed DEF ReceiveAllowed
  <2>2. d = Target \/ d \in Children(Target)
    <3>1. CASE Receive(Acting)
      BY <1>1, <1>2, <2>1, <3>1, ReceiveForms DEF Streamed
    <3>2. CASE AbortReceive(Acting)
      BY <1>1, <2>1, <3>2 DEF AbortReceive
    <3> QED
      BY <1>3, <3>1, <3>2
  <2> QED
    BY <2>2, TargetIsItsOwn DEF Children
<1>4. CASE Acting.name = "zfs destroy" /\ Destroy(Acting)
  <2>1. Acting \in Steps /\ DestroyAllowed(Acting, policy)
    BY <1>1, <1>4, ActingAllowed
  <2>2. CASE Acting.snapshots # {}
    <3>1. Acting.dataset = Target
      BY <2>1, <2>2 DEF DestroyAllowed, SnapshotDestroyAllowed
    <3>2. d = Target
      BY <1>1, <1>4, <2>2, <3>1 DEF Destroy
    <3> QED
      BY <3>2, TargetIsItsOwn
  <2>3. CASE Acting.snapshots = {}
    <3>1. DatasetOrChild(Acting.dataset, Target)
      BY <2>1, <2>3 DEF DestroyAllowed
    <3>2. DatasetOrChild(d, Acting.dataset)
      BY <1>1, <1>4, <2>3 DEF Destroy, Children
    <3>3. Acting.dataset \in Seq(STRING)
      <4>1. Acting.dataset \in Datasets \cup {<<>>} /\ <<>> \in Seq(STRING)
        BY <2>1 DEF Steps
      <4> QED
        BY <1>2, <4>1
    <3> QED
      BY <1>2, <3>1, <3>2, <3>3, ChildOfChild
  <2> QED
    BY <2>2, <2>3
<1>5. CASE Look
  BY <1>5 DEF Look
<1> QED
  BY <1>3, <1>4, <1>5 DEF Execute, Acting

\* Whatever a client sends, only the run's target and the datasets below it change
\* (authorizeReceiverCommand, DatasetOrChild).
THEOREM NothingOutsideTheTarget == ClientSpec => OtherDatasetsUntouched
<1>1. ASSUME IInv, [ClientNext]_vars, NEW d \in Datasets, zfs'[d] # zfs[d]
      PROVE  DatasetOrChild(d, Target)
  BY <1>1, ExecuteInside DEF ClientNext, Client, vars
<1>2. IInv /\ [ClientNext]_vars
        => [\A d \in Datasets : zfs'[d] # zfs[d] => DatasetOrChild(d, Target)]_vars
  BY <1>1
<1> QED
  BY <1>2, AdmittedOnly, PTL DEF ClientSpec, OtherDatasetsUntouched

\* What a receive into the target may do to it, and to a dataset below it.
LEMMA ReceiveEffect ==
  ASSUME NEW step, IInv, Receive(step), step.dataset = Target, NEW d \in Datasets
  PROVE  /\ "-F" \notin step.flags =>
              zfs[Target].snapshots \subseteq zfs'[Target].snapshots
         /\ zfs[d].exists /\ ~zfs'[d].exists => d # Target /\ "-F" \in step.flags
         /\ "-u" \in step.flags => (zfs'[d].mounted => zfs[d].mounted)
<1>1. /\ zfs \in [Datasets -> [exists : BOOLEAN, snapshots : SUBSET Snapshots,
                             partial : BOOLEAN, mounted : BOOLEAN]]
      /\ Target \in Datasets
  BY ConstantsAssumption, DatasetsAreRecords
<1>2. CASE UNCHANGED zfs
  BY <1>2
<1>3. CASE zfs' = [zfs EXCEPT ![Target].exists = TRUE, ![Target].partial = TRUE]
  <2>1. zfs'[Target].snapshots = zfs[Target].snapshots
    BY <1>1, <1>3
  <2>2. zfs[d].exists => zfs'[d].exists
    BY <1>1, <1>3
  <2>3. zfs'[d].mounted = zfs[d].mounted
    BY <1>1, <1>3
  <2> QED
    BY <2>1, <2>2, <2>3
<1>4. CASE Streamed(step.flags)
  <2>1. zfs'[Target] \in Received(Target, step.flags)
    BY <1>4 DEF Streamed
  <2>2. CASE d = Target
    BY <1>1, <2>1, <2>2, ReceivedMeans
  <2>3. CASE d # Target /\ d \in Children(Target)
    <3>1. zfs'[d] \in Replicated(d, step.flags)
      BY <1>4, <2>3 DEF Streamed
    <3> QED
      BY <1>1, <2>1, <2>3, <3>1, ReceivedMeans, ReplicatedMeans
  <2>4. CASE d # Target /\ d \notin Children(Target)
    <3>1. zfs'[d] = zfs[d]
      BY <1>4, <2>4 DEF Streamed
    <3> QED
      BY <1>1, <2>1, <3>1, ReceivedMeans
  <2> QED
    BY <2>2, <2>3, <2>4
<1> QED
  BY <1>2, <1>3, <1>4, ReceiveForms

\* A snapshot that a step removes is the relationship's own, or the settings ask
\* for a rollback, a forced destroy or a mirror of the source.
LEMMA ExecuteKeeps ==
  ASSUME IInv, Execute, NEW s \in zfs[Target].snapshots \ zfs'[Target].snapshots
  PROVE  \/ Owner(s) = Relationship /\ spec.noSyncSnap # "true"
         \/ spec.noRollback = "false"
         \/ spec.forceDelete = "true"
         \/ spec.deleteTargetSnapshots = "true"
<1>1. /\ zfs \in [Datasets -> [exists : BOOLEAN, snapshots : SUBSET Snapshots,
                             partial : BOOLEAN, mounted : BOOLEAN]]
      /\ pending # <<>> /\ spec \in Specs
  BY DatasetsAreRecords DEF IInv, Execute
<1>2. Target \in Datasets
  BY ConstantsAssumption
<1>3. CASE Acting.name = "zfs receive" /\ Receive(Acting)
  <2>1. ReceiveAllowed(Acting, policy) /\ Acting.dataset = Target
    BY <1>1, <1>3, ActingAllowed DEF ReceiveAllowed
  <2>2. "-F" \in Acting.flags
    BY <1>2, <1>3, <2>1, ReceiveEffect
  <2>3. policy.allowRollback
    BY <2>1, <2>2 DEF ReceiveAllowed
  <2> QED
    BY <1>1, <2>3, PolicyMeans
<1>4. CASE Acting.name = "zfs receive" /\ AbortReceive(Acting)
  <2>1. Acting.dataset = Target
    BY <1>1, <1>4, ActingAllowed DEF ReceiveAllowed
  <2>2. UNCHANGED zfs \/ zfs' = [zfs EXCEPT ![Target].partial = FALSE]
        \/ zfs[Target].snapshots = {}
    BY <1>4, <2>1 DEF AbortReceive
  <2>3. CASE zfs' = [zfs EXCEPT ![Target].partial = FALSE]
    BY <1>1, <1>2, <2>3
  <2> QED
    BY <2>2, <2>3
<1>5. CASE Acting.name = "zfs destroy" /\ Destroy(Acting)
  <2>1. Acting \in Steps /\ DestroyAllowed(Acting, policy)
    BY <1>1, <1>5, ActingAllowed
  <2>2. CASE Acting.snapshots # {}
    <3>1. SnapshotDestroyAllowed(Acting, policy)
      BY <2>1, <2>2 DEF DestroyAllowed
    <3>2. \/ UNCHANGED zfs
          \/ zfs' = [zfs EXCEPT ![Target].snapshots = @ \ Acting.snapshots]
      BY <1>5, <2>2, <3>1 DEF Destroy, SnapshotDestroyAllowed
    <3>3. s \in Acting.snapshots
      BY <1>1, <1>2, <3>2
    <3> QED
      BY <1>1, <3>1, <3>3, PolicyMeans DEF SnapshotDestroyAllowed
  <2>3. CASE Acting.snapshots = {}
    BY <1>1, <2>1, <2>3, PolicyMeans DEF DestroyAllowed
  <2> QED
    BY <2>2, <2>3
<1>6. CASE Look
  BY <1>6 DEF Look
<1> QED
  BY <1>3, <1>4, <1>5, <1>6 DEF Execute, Acting

\* Whatever a client sends, it removes no snapshot of another owner from the target
\* unless the run's settings ask for it (snapshotDestroyAllowed, Translate).
THEOREM OthersSnapshotsKept == ClientSpec => ForeignSnapshotsKept
<1> DEFINE Asked(s) == \/ Owner(s) = Relationship /\ spec.noSyncSnap # "true"
                       \/ spec.noRollback = "false"
                       \/ spec.forceDelete = "true"
                       \/ spec.deleteTargetSnapshots = "true"
<1>1. ASSUME IInv, [ClientNext]_vars,
             NEW s \in zfs[Target].snapshots \ zfs'[Target].snapshots
      PROVE  Asked(s)
  <2>1. CASE Execute
    BY <1>1, <2>1, ExecuteKeeps
  <2>2. CASE Client \/ UNCHANGED vars
    BY <1>1, <2>2 DEF Client, vars
  <2> QED
    BY <1>1, <2>1, <2>2 DEF ClientNext
<1>2. IInv /\ [ClientNext]_vars
        => [\A s \in zfs[Target].snapshots \ zfs'[Target].snapshots : Asked(s)]_vars
  BY <1>1
<1> QED
  BY <1>2, AdmittedOnly, PTL DEF ClientSpec, ForeignSnapshotsKept

\* A step that mounts or destroys a dataset does so at the wish of the settings.
LEMMA ExecuteAsked ==
  ASSUME IInv, Execute, NEW d \in Datasets
  PROVE  /\ zfs'[d].mounted /\ ~zfs[d].mounted => spec.receiveUnmounted = "false"
         /\ zfs[d].exists /\ ~zfs'[d].exists =>
              \/ spec.forceDelete = "true"
              \/ /\ d = Target /\ zfs[d].partial /\ zfs[d].snapshots = {}
                 /\ spec.receiveResumable # "false"
              \/ d # Target /\ spec.noRollback = "false"
<1>1. /\ zfs \in [Datasets -> [exists : BOOLEAN, snapshots : SUBSET Snapshots,
                             partial : BOOLEAN, mounted : BOOLEAN]]
      /\ pending # <<>> /\ spec \in Specs
  BY DatasetsAreRecords DEF IInv, Execute
<1>2. Target \in Datasets
  BY ConstantsAssumption
<1>3. zfs[d] \in [exists : BOOLEAN, snapshots : SUBSET Snapshots,
                 partial : BOOLEAN, mounted : BOOLEAN]
  BY <1>1
<1>4. CASE Acting.name = "zfs receive" /\ Acting.flags # {"-A"} /\ Receive(Acting)
  <2>1. ReceiveAllowed(Acting, policy) /\ Acting.dataset = Target
    BY <1>1, <1>4, ActingAllowed DEF ReceiveAllowed
  <2>2. ASSUME zfs[d].exists, ~zfs'[d].exists
        PROVE  d # Target /\ policy.allowRollback
    <3>1. d # Target /\ "-F" \in Acting.flags
      BY <1>4, <2>1, <2>2, ReceiveEffect
    <3> QED
      BY <2>1, <3>1 DEF ReceiveAllowed
  <2>3. ASSUME zfs'[d].mounted, ~zfs[d].mounted PROVE "-u" \notin Acting.flags
    BY <1>4, <2>1, <2>3, ReceiveEffect
  <2>4. ASSUME "-u" \notin Acting.flags, Acting.flags # {"-A"} PROVE policy.allowMount
    BY <2>1, <2>4 DEF ReceiveAllowed
  <2> QED
    BY <1>1, <1>4, <2>2, <2>3, <2>4, PolicyMeans
<1>5. CASE Acting.name = "zfs receive" /\ Acting.flags = {"-A"} /\ AbortReceive(Acting)
  <2>1. ReceiveAllowed(Acting, policy) /\ Acting.dataset = Target
    BY <1>1, <1>5, ActingAllowed DEF ReceiveAllowed
  <2>2. policy.receiveResumable
    BY <1>5, <2>1 DEF ReceiveAllowed
  <2>3. spec.receiveResumable # "false"
    BY <1>1, <2>2, PolicyMeans
  <2>4. CASE UNCHANGED zfs
    BY <2>4
  <2>5. CASE zfs' = [zfs EXCEPT ![Target].partial = FALSE]
    BY <1>1, <1>2, <1>3, <2>5
  <2>6. CASE /\ zfs[Target].partial /\ zfs[Target].snapshots = {}
             /\ zfs' = [zfs EXCEPT ![Target] = Absent]
    BY <1>1, <1>2, <2>3, <2>6 DEF Absent
  <2> QED
    BY <1>5, <2>1, <2>4, <2>5, <2>6 DEF AbortReceive
<1>6. CASE Acting.name = "zfs destroy" /\ Destroy(Acting)
  <2>1. Acting \in Steps /\ DestroyAllowed(Acting, policy)
    BY <1>1, <1>6, ActingAllowed
  <2>2. zfs'[d].mounted => zfs[d].mounted
    <3>1. CASE zfs' = [zfs EXCEPT ![Acting.dataset].snapshots = @ \ Acting.snapshots]
      BY <1>1, <3>1
    <3>2. CASE zfs' = [c \in Datasets |-> IF c \in Children(Acting.dataset) THEN Absent
                                         ELSE zfs[c]]
      BY <3>2 DEF Absent
    <3> QED
      BY <1>6, <3>1, <3>2 DEF Destroy
  <2>3. ASSUME zfs[d].exists, ~zfs'[d].exists PROVE Acting.snapshots = {}
    BY <1>1, <1>6, <2>3 DEF Destroy
  <2> QED
    BY <1>1, <2>1, <2>2, <2>3, PolicyMeans DEF DestroyAllowed
<1>7. CASE Look
  BY <1>7 DEF Look
<1> QED
  BY <1>4, <1>5, <1>6, <1>7 DEF Execute, Acting

\* Whatever a client sends, a dataset is mounted, and one that exists destroyed, only
\* at the wish of the run's settings: forceDelete for a destroy, a resumable receive
\* for giving up the target's first receive, a rollback for the datasets below the
\* target (validateZFSReceiveStep, zfsDestroyAllowed).
THEOREM OnlyWhatWasAsked == ClientSpec => MountAndDestroyAsked
<1> DEFINE Asked(d) ==
      /\ zfs'[d].mounted /\ ~zfs[d].mounted => spec.receiveUnmounted = "false"
      /\ zfs[d].exists /\ ~zfs'[d].exists =>
           \/ spec.forceDelete = "true"
           \/ /\ d = Target /\ zfs[d].partial /\ zfs[d].snapshots = {}
              /\ spec.receiveResumable # "false"
           \/ d # Target /\ spec.noRollback = "false"
<1>1. ASSUME IInv, [ClientNext]_vars, NEW d \in Datasets
      PROVE  Asked(d)
  <2>1. CASE Execute
    BY <1>1, <2>1, ExecuteAsked
  <2>2. CASE Client \/ UNCHANGED vars
    BY <1>1, <2>2 DEF Client, vars
  <2> QED
    BY <1>1, <2>1, <2>2 DEF ClientNext
<1>2. IInv /\ [ClientNext]_vars => [\A d \in Datasets : Asked(d)]_vars
  BY <1>1
<1> QED
  BY <1>2, AdmittedOnly, PTL DEF ClientSpec, MountAndDestroyAsked
=============================================================================
