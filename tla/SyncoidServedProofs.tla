------------------------- MODULE SyncoidServedProofs -------------------------
(***************************************************************************)
(* The two sides of the contract agree, for any settings of the run, any   *)
(* datasets and snapshots and any course of the session: Syncoid, started  *)
(* with the sender's half of Translate, sends nothing that the receiver's  *)
(* half refuses.                                                           *)
(*                                                                         *)
(* The invariant says of each place in syncdataset which settings lead to  *)
(* it, and that the situations in which the halves disagree, absent at the *)
(* start, do not come up on the way.                                       *)
(***************************************************************************)
EXTENDS SyncoidSessionProofs, FiniteSetTheorems

\* The types, and what is left of an admitted command.
TypeInv == TypeOK /\ PendingAdmitted

\* At the start, none of the situations in which the halves disagree.
Agreed == \A situation \in DOMAIN Disagrees : ~Disagrees[situation]

\* The settings that lead Syncoid to where it is.
PlaceInv ==
    /\ at \in {"resume", "abort"} => policy.receiveResumable
    /\ at \in {"overwrite", "recreate"} => policy.allowDestroy
    /\ at = "mirror" => policy.allowTargetSnapshotDestroy
    /\ at \in {"reset", "again"} => policy.receiveResumable
    /\ resume => policy.receiveResumable
    /\ at # "mirror" =>
         \A s \in todo : Owner(s) = Relationship /\ policy.allowSyncSnapshotDestroy

\* Without the drift at the start there is none later.
NoDriftInv ==
    /\ ~policy.receiveResumable => ~zfs[Target].partial /\ outcome # "partial"
    /\ policy.allowDestroy /\ ~policy.allowTargetSnapshotDestroy =>
         zfs[Target].snapshots \cap Clash = {} /\ seen.snapshots \cap Clash = {}
    /\ policy.compression \in Tools \cup {None}

ServedInv ==
    /\ TypeInv
    /\ PlaceInv
    /\ NoDriftInv
    /\ NothingRefused

-----------------------------------------------------------------------------
(* The commands are commands.                                               *)

LEMMA StepTyped ==
  ASSUME NEW name \in Words, NEW flags \in SUBSET Words, NEW dataset \in Datasets,
         NEW snapshots \in SUBSET Snapshots, NEW redirect \in BOOLEAN
  PROVE  MakeStep(name, flags, dataset, snapshots, redirect) \in Steps
BY WordsAssumption DEF MakeStep, Steps

LEMMA FilterTyped ==
  ASSUME NEW name \in Words, NEW flags \in SUBSET Words
  PROVE  Filter(name, flags) \in Steps /\ ~Filter(name, flags).redirect
BY WordsAssumption DEF Filter, MakeStep, Steps

\* A command that consists of one step.
LEMMA SingleTyped ==
  ASSUME NEW step \in Steps
  PROVE  /\ <<step>> \in Pipelines
         /\ << <<step>> >> \in Seq(Pipelines)
         /\ Len(<< <<step>> >>) = 1
         /\ << <<step>> >>[1] = <<step>>
         /\ <<step>>[1] = step /\ Len(<<step>>) = 1
<1>1. <<step>> \in Seq(Steps) /\ <<step>> # <<>>
  OBVIOUS
<1>2. <<step>> \in Pipelines
  BY <1>1 DEF Pipelines
<1> QED
  BY <1>2

LEMMA DestroyTyped ==
  ASSUME NEW flags \in SUBSET Words, NEW snapshots \in SUBSET Snapshots
  PROVE  DestroyCommand(flags, snapshots) \in Seq(Pipelines)
<1>1. Target \in Datasets
  BY ConstantsAssumption
<1>2. "zfs destroy" \in Words
  BY DEF Words
<1>3. MakeStep("zfs destroy", flags, Target, snapshots, FALSE) \in Steps
  BY <1>1, <1>2, StepTyped
<1> QED
  BY <1>3, SingleTyped DEF DestroyCommand

LEMMA AbortTyped ==
  << <<MakeStep("zfs receive", {"-A"}, Target, {}, FALSE)>> >> \in Seq(Pipelines)
<1>1. Target \in Datasets
  BY ConstantsAssumption
<1>2. "zfs receive" \in Words /\ {"-A"} \in SUBSET Words
  BY DEF Words
<1>3. MakeStep("zfs receive", {"-A"}, Target, {}, FALSE) \in Steps
  BY <1>1, <1>2, StepTyped
<1> QED
  BY <1>3, SingleTyped

\* What compressargset takes for a method is one of the decompressors that
\* compressionSpecs names for it.
LEMMA DecompressorServed ==
  ASSUME NEW c \in Compressors
  PROVE  /\ SenderCompression(c) # None
         /\ Decompressor[SenderCompression(c)] \in Steps
         /\ ~Decompressor[SenderCompression(c)].redirect
         /\ DecompressorAllowed(Decompressor[SenderCompression(c)], c)
<1> DEFINE m == SenderCompression(c)
<1>1. m = CompressionSpecs[c].sender /\ m \in {SenderCompression(k) : k \in Compressors}
  BY DEF SenderCompression
<1>2. c \in {"gzip", "pigz", "zstd", "zstdmt", "xz", "lzop", "lz4"}
  BY DEF Compressors, CompressionSpecs
<1>3. /\ c = "gzip"   => m = "gzip" /\ Decompressor[m] = Filter("zcat", {})
      /\ c = "pigz"   => m = "pigz-fast" /\ Decompressor[m] = Filter("pigz", {"-dc"})
      /\ c = "zstd"   => m = "zstd-fast" /\ Decompressor[m] = Filter("zstd", {"-dc"})
      /\ c = "zstdmt" => m = "zstdmt-fast" /\ Decompressor[m] = Filter("zstdmt", {"-dc"})
      /\ c = "xz"     => m = "xz" /\ Decompressor[m] = Filter("xz", {"-d"})
      /\ c = "lzop"   => m = "lzo" /\ Decompressor[m] = Filter("lzop", {"-dfc"})
      /\ c = "lz4"    => m = "lz4" /\ Decompressor[m] = Filter("lz4", {"-dc"})
  BY <1>1 DEF CompressionSpecs, Decompressor
<1>4. m # None
  BY <1>2, <1>3 DEF None
<1>5. Decompressor[m] \in Steps /\ ~Decompressor[m].redirect
  <2>1. \E name \in Words, flags \in SUBSET Words : Decompressor[m] = Filter(name, flags)
    BY <1>2, <1>3 DEF Words
  <2> QED
    BY <2>1, FilterTyped
<1>6. DecompressorAllowed(Decompressor[m], c)
  BY <1>2, <1>3 DEF Filter, MakeStep, DecompressorAllowed, CompressionSpecs
<1> QED
  BY <1>4, <1>5, <1>6

\* Each of Syncoid's switches is given for the permission that it calls for.
LEMMA OptionsMean ==
  ASSUME spec \in Specs
  PROVE  /\ Given("--no-sync-snap") <=> ~policy.allowSyncSnapshotDestroy
         /\ Given("--no-rollback") <=> ~policy.allowRollback
         /\ Given("--delete-target-snapshots") <=> policy.allowTargetSnapshotDestroy
         /\ Given("--recvoptions=u") <=> policy.receiveUnmounted
         /\ policy.allowMount <=> ~policy.receiveUnmounted
         /\ Given("--no-resume") <=> ~policy.receiveResumable
         /\ Given("--force-delete") <=> policy.allowDestroy
<1> DEFINE o == options
<1>1. /\ policy.allowSyncSnapshotDestroy = ~o.noSyncSnap
      /\ policy.allowRollback = ~o.noRollback
      /\ policy.allowTargetSnapshotDestroy = o.deleteTargetSnapshots
      /\ policy.receiveUnmounted = o.receiveUnmounted
      /\ policy.allowMount = ~o.receiveUnmounted
      /\ policy.receiveResumable = o.receiveResumable
      /\ policy.allowDestroy = o.forceDelete
  BY DEF policy, ReceiverPolicy
<1>2. args.switches = (IF o.noSyncSnap THEN {"--no-sync-snap"} ELSE {})
        \cup (IF o.noRollback THEN {"--no-rollback"} ELSE {})
        \cup (IF o.deleteTargetSnapshots THEN {"--delete-target-snapshots"} ELSE {})
        \cup (IF o.receiveUnmounted THEN {"--recvoptions=u"} ELSE {})
        \cup (IF o.receiveResumable THEN {} ELSE {"--no-resume"})
        \cup (IF o.forceDelete THEN {"--force-delete"} ELSE {})
  BY DEF args, SenderArguments
<1> QED
  BY <1>1, <1>2 DEF Given

LEMMA NamesMean ==
  /\ args.identifier = Relationship /\ policy.syncSnapshotIdentifier = Relationship
  /\ args.compress = SenderCompression(options.compression)
  /\ policy.compression = options.compression
BY DEF args, SenderArguments, policy, ReceiverPolicy

\* Syncoid compresses with a method of the table only, and then with the one that
\* the policy expects.
LEMMA CompressesMeans ==
  /\ Compresses => options.compression \in Compressors
  /\ spec \in Specs /\ ~Compresses /\ policy.compression \in Tools \cup {None}
       => policy.compression = None
<1>1. Compresses => options.compression \in Compressors
  BY NamesMean DEF Compresses, SenderCompression
<1>2. ASSUME spec \in Specs, ~Compresses, policy.compression \in Tools,
             policy.compression # None
      PROVE  FALSE
  <2>1. options.compression \in Compressors
    BY <1>2, NamesMean DEF options, Normalize, Specs
  <2>2. args.compress # None
    BY <2>1, DecompressorServed, NamesMean
  <2> QED
    BY <1>2, <2>2, NamesMean DEF Compresses
<1> QED
  BY <1>1, <1>2

\* The parts of ReceiveCommand.
ReceiveFlags == (IF Given("--recvoptions=u") THEN {"-u"} ELSE {})
           \cup (IF resume THEN {"-s"} ELSE {})
           \cup (IF Given("--no-rollback") THEN {} ELSE {"-F"})
Buffer   == Filter("mbuffer", {"-q", "-s", "-m"})
Receiver == MakeStep("zfs receive", ReceiveFlags, Target, {}, TRUE)
ReceivePipeline == <<Buffer>>
                   \o (IF Compresses THEN <<Decompressor[args.compress]>> ELSE <<>>)
                   \o <<Receiver>>

LEMMA ReceiveParts ==
  /\ ReceiveCommand = <<ReceivePipeline>>
  /\ ReceivePipeline \in Pipelines
  /\ ReceivePipeline[1] = Buffer
  /\ ReceivePipeline[Len(ReceivePipeline)] = Receiver
  /\ Len(ReceivePipeline) = IF Compresses THEN 3 ELSE 2
  /\ Compresses => ReceivePipeline[2] = Decompressor[args.compress]
<1>1. Buffer \in Steps
  BY FilterTyped DEF Buffer, Words
<1>2. Target \in Datasets /\ ReceiveFlags \subseteq Words /\ "zfs receive" \in Words
  BY ConstantsAssumption DEF ReceiveFlags, Words
<1>3. Receiver \in Steps
  BY <1>2, StepTyped DEF Receiver
<1>4. Compresses => Decompressor[args.compress] \in Steps
  BY CompressesMeans, DecompressorServed, NamesMean
<1>5. /\ ReceivePipeline \in Seq(Steps)
      /\ Len(ReceivePipeline) = IF Compresses THEN 3 ELSE 2
      /\ ReceivePipeline[1] = Buffer
      /\ ReceivePipeline[Len(ReceivePipeline)] = Receiver
      /\ Compresses => ReceivePipeline[2] = Decompressor[args.compress]
  <2>1. CASE Compresses
    <3>1. ReceivePipeline = <<Buffer>> \o <<Decompressor[args.compress]>> \o <<Receiver>>
      BY <2>1 DEF ReceivePipeline
    <3> QED
      BY <1>1, <1>3, <1>4, <2>1, <3>1
  <2>2. CASE ~Compresses
    <3>1. ReceivePipeline = <<Buffer>> \o <<>> \o <<Receiver>>
      BY <2>2 DEF ReceivePipeline
    <3> QED
      BY <1>1, <1>3, <2>2, <3>1
  <2> QED
    BY <2>1, <2>2
<1>6. ReceivePipeline \in Pipelines
  BY <1>5 DEF Pipelines
<1>7. ReceiveCommand = <<ReceivePipeline>>
  BY DEF ReceiveCommand, ReceivePipeline, Receiver, Buffer, ReceiveFlags
<1> QED
  BY <1>5, <1>6, <1>7

LEMMA ReceiveTyped == ReceiveCommand \in Seq(Pipelines)
BY ReceiveParts

-----------------------------------------------------------------------------
(* The types.                                                               *)

\* Sending keeps them, whether the command is admitted or refused.
LEMMA SendTyped ==
  ASSUME TypeInv, NEW command \in Seq(Pipelines), Send(command), UNCHANGED spec
  PROVE  /\ PendingAdmitted'
         /\ outcome' \in {"none", "failed"}
         /\ refused' \in BOOLEAN
<1>1. policy' = policy
  BY DEF policy, options
<1>2. CASE Authorized(command, policy)
  <2>1. pending' = command /\ outcome' = "none" /\ refused' = refused
    BY <1>2 DEF Send
  <2>2. \A i \in 1..Len(command) : PipelineAllowed(command[i], policy)
    BY <1>2 DEF Authorized
  <2> QED
    BY <1>1, <2>1, <2>2 DEF PendingAdmitted, TypeInv, TypeOK
<1>3. CASE ~Authorized(command, policy)
  BY <1>1, <1>3 DEF Send, PendingAdmitted
<1> QED
  BY <1>2, <1>3

\* The commands of one batch of pruneoldsyncsnaps.
LEMMA PruneTyped ==
  ASSUME TypeInv, todo # {},
         NEW batch \in [1..(IF Cardinality(todo) < PruneBatch THEN Cardinality(todo)
                            ELSE PruneBatch) -> todo]
  PROVE  LET command == [i \in DOMAIN batch |->
                           <<MakeStep("zfs destroy", {}, Target, {batch[i]}, FALSE)>>]
         IN  /\ command \in Seq(Pipelines)
             /\ Len(command) <= PruneBatch
             /\ PruneBatch > 0 => Len(command) > 0
             /\ \A i \in 1..Len(command) :
                  /\ batch[i] \in todo
                  /\ command[i] =
                       <<MakeStep("zfs destroy", {}, Target, {batch[i]}, FALSE)>>
<1> DEFINE n == IF Cardinality(todo) < PruneBatch THEN Cardinality(todo) ELSE PruneBatch
           Prune(i) == <<MakeStep("zfs destroy", {}, Target, {batch[i]}, FALSE)>>
           command == [i \in DOMAIN batch |-> Prune(i)]
<1>1. todo \subseteq Snapshots /\ IsFiniteSet(Snapshots)
  BY ConstantsAssumption, FS_Union DEF TypeInv, TypeOK, Snapshots
<1>2. IsFiniteSet(todo)
  BY <1>1, FS_Subset
<1>3. Cardinality(todo) \in Nat \ {0}
  BY <1>2, FS_CardinalityType, FS_EmptySet
<1>4. n \in Nat /\ n <= PruneBatch /\ (PruneBatch > 0 => n > 0)
  <2>1. PruneBatch \in Nat
    BY ConstantsAssumption
  <2> QED
    BY <1>3, <2>1
<1>5. DOMAIN batch = 1..n /\ \A i \in 1..n : batch[i] \in todo
  OBVIOUS
<1>6. ASSUME NEW i \in 1..n PROVE Prune(i) \in Pipelines
  <2>1. {batch[i]} \in SUBSET Snapshots
    BY <1>1, <1>5, <1>6
  <2>2. Target \in Datasets /\ "zfs destroy" \in Words /\ {} \in SUBSET Words
    BY ConstantsAssumption DEF Words
  <2>3. MakeStep("zfs destroy", {}, Target, {batch[i]}, FALSE) \in Steps
    BY <2>1, <2>2, StepTyped
  <2> QED
    BY <2>3, SingleTyped
<1> HIDE DEF n, Prune
<1>7. command = [i \in 1..n |-> Prune(i)]
  BY <1>5
<1>8. command \in Seq(Pipelines) /\ Len(command) = n
  <2> HIDE DEF command
  <2>1. command \in [1..n -> Pipelines]
    BY <1>6, <1>7
  <2> QED
    BY <1>4, <2>1
<1>9. \A i \in 1..n : command[i] = Prune(i)
  BY <1>7
<1> QED
  BY <1>4, <1>5, <1>8, <1>9 DEF Prune

Outcomes == {"none", "ok", "failed", "partial", "exists", "gone"}
Places   == {"start", "probe", "full", "resume", "abort", "incremental", "reset", "again",
             "overwrite", "recreate", "prune", "pruning", "mirror", "done"}

LEMMA InitTyped == Init => TypeInv
<1> SUFFICES ASSUME Init PROVE TypeInv
  OBVIOUS
<1>1. IInv
  BY InitEstablishes
<1>2. seen \in DatasetStates
  BY DEF Init, Absent, DatasetStates
<1> QED
  BY <1>1, <1>2 DEF IInv, Init, TypeInv, TypeOK

\* A command that keeps the receiver's datasets and Syncoid's place.
LEMMA SendsTyped ==
  ASSUME TypeInv, NEW place, NEW command \in Seq(Pipelines), Sends(place, command)
  PROVE  TypeInv'
<1>1. UNCHANGED <<spec, zfs, at, seen, todo, resume>> /\ Send(command)
  BY DEF Sends, syncoid
<1>2. PendingAdmitted' /\ outcome' \in {"none", "failed"} /\ refused' \in BOOLEAN
  BY <1>1, SendTyped
<1> QED
  BY <1>1, <1>2 DEF TypeInv, TypeOK

LEMMA ExecuteOutcome ==
  ASSUME Execute
  PROVE  outcome' \in Outcomes
BY DEF Execute, Receive, AbortReceive, Destroy, Look, Outcomes

LEMMA NextTyped == TypeInv /\ [SyncoidNext]_vars => TypeInv'
<1> SUFFICES ASSUME TypeInv, [SyncoidNext]_vars PROVE TypeInv'
  OBVIOUS
<1>1. /\ spec \in Specs /\ zfs \in [Datasets -> DatasetStates]
      /\ outcome \in Outcomes /\ at \in Places
      /\ seen \in DatasetStates /\ todo \subseteq Snapshots
      /\ resume \in BOOLEAN /\ refused \in BOOLEAN
      /\ PendingAdmitted /\ Target \in Datasets
  BY ConstantsAssumption DEF TypeInv, TypeOK, Outcomes, Places
<1>2. ASSUME UNCHANGED <<spec, pending>> PROVE PendingAdmitted'
  BY <1>1, <1>2 DEF PendingAdmitted, policy, options
<1>3. CASE Probe
  <2>1. at' \in Places /\ refused' \in BOOLEAN
    BY <1>1, <1>3 DEF Probe, Places
  <2>2. seen' \in DatasetStates /\ outcome' = "none"
        /\ UNCHANGED <<spec, zfs, pending, todo, resume>>
    BY <1>1, <1>3 DEF Probe, Observed
  <2> QED
    BY <1>1, <1>2, <2>1, <2>2 DEF TypeInv, TypeOK, Places
<1>4. CASE SendReceive
  BY <1>4, ReceiveTyped, SendsTyped DEF SendReceive
<1>5. CASE SendAbort
  BY <1>5, AbortTyped, SendsTyped DEF SendAbort
<1>6. CASE SendOverwrite
  <2>1. PICK s \in seen.snapshots \cap Clash : Sends("overwrite", DestroyCommand({}, {s}))
    BY <1>6 DEF SendOverwrite
  <2>2. {s} \in SUBSET Snapshots
    BY <1>1, DatasetChanges
  <2> QED
    BY <2>1, <2>2, DestroyTyped, SendsTyped
<1>7. CASE SendRecreate
  <2>1. {"-r"} \in SUBSET Words
    BY DEF Words
  <2> QED
    BY <1>7, <2>1, DestroyTyped, SendsTyped DEF SendRecreate
<1>8. CASE Proceed
  <2>1. at' \in Places
    BY <1>8 DEF Proceed, Continue, Places
  <2> QED
    BY <1>1, <1>2, <1>8, <2>1 DEF Proceed, TypeInv, TypeOK, Places
<1>9. CASE StartPrune
  <2>1. seen.snapshots \subseteq Snapshots
    BY <1>1, DatasetChanges
  <2>2. todo' \subseteq Snapshots
    BY <1>9, <2>1 DEF StartPrune
  <2> QED
    BY <1>1, <1>2, <1>9, <2>2 DEF StartPrune, TypeInv, TypeOK
<1>10. CASE SendPrune
  <2>1. /\ todo # {} /\ UNCHANGED <<spec, zfs, at, seen, resume>>
        /\ todo' \subseteq todo
    BY <1>10 DEF SendPrune
  <2>2. PICK batch \in [1..(IF Cardinality(todo) < PruneBatch THEN Cardinality(todo)
                            ELSE PruneBatch) -> todo] :
          Send([i \in DOMAIN batch |->
                  <<MakeStep("zfs destroy", {}, Target, {batch[i]}, FALSE)>>])
    BY <1>10 DEF SendPrune
  <2>3. PendingAdmitted' /\ outcome' \in {"none", "failed"} /\ refused' \in BOOLEAN
    BY <2>1, <2>2, PruneTyped, SendTyped
  <2> QED
    BY <1>1, <2>1, <2>3 DEF TypeInv, TypeOK
<1>11. CASE EndPrune
  <2>1. at' \in Places /\ todo' \subseteq Snapshots
    BY <1>1, <1>11, DatasetChanges DEF EndPrune, Places
  <2> QED
    BY <1>1, <1>2, <1>11, <2>1 DEF EndPrune, TypeInv, TypeOK, Places
<1>12. CASE SendMirror
  <2>1. PICK batch \in (SUBSET todo) \ {{}} :
          Send(DestroyCommand({}, batch)) /\ todo' = todo \ batch
    BY <1>12 DEF SendMirror
  <2>2. UNCHANGED <<spec, zfs, at, seen, resume>> /\ batch \in SUBSET Snapshots
    BY <1>1, <1>12, <2>1 DEF SendMirror
  <2>3. DestroyCommand({}, batch) \in Seq(Pipelines)
    BY <2>2, DestroyTyped
  <2>4. PendingAdmitted' /\ outcome' \in {"none", "failed"} /\ refused' \in BOOLEAN
    BY <2>1, <2>2, <2>3, SendTyped
  <2> QED
    BY <1>1, <2>1, <2>2, <2>4 DEF TypeInv, TypeOK
<1>15. CASE EndMirror
  BY <1>1, <1>2, <1>15 DEF EndMirror, TypeInv, TypeOK
<1>16. CASE CheckCommands
  <2>1. resume' \in BOOLEAN
    BY <1>1, <1>16 DEF CheckCommands, Given
  <2>2. at' \in Places /\ refused' \in BOOLEAN
        /\ UNCHANGED <<spec, zfs, pending, outcome, seen, todo>>
    BY <1>1, <1>16 DEF CheckCommands, Places
  <2> QED
    BY <1>1, <1>2, <2>1, <2>2 DEF TypeInv, TypeOK, Places
<1>13. CASE Execute
  <2>1. /\ UNCHANGED <<spec, at, seen, todo, resume, refused>> /\ pending # <<>>
        /\ pending' = Tail(pending) \/ pending' = <<>>
    BY <1>13 DEF Execute, syncoid
  <2>2. PendingAdmitted'
    BY <1>1, <2>1, PendingKept
  <2>3. zfs' \in [Datasets -> DatasetStates]
    BY <1>1, <1>13, ExecuteTyped DEF IInv
  <2>4. outcome' \in Outcomes
    BY <1>13, ExecuteOutcome
  <2> QED
    BY <1>1, <2>1, <2>2, <2>3, <2>4 DEF TypeInv, TypeOK, Outcomes
<1>14. CASE Done \/ UNCHANGED vars
  <2>1. UNCHANGED vars
    BY <1>14 DEF Done
  <2> QED
    BY <1>1, <1>2, <2>1 DEF vars, TypeInv, TypeOK
<1> QED
  BY <1>3, <1>4, <1>5, <1>6, <1>7, <1>8, <1>9, <1>10, <1>11, <1>12, <1>13, <1>14, <1>15,
     <1>16 DEF SyncoidNext

\* Syncoid keeps to its places, the datasets stay datasets (no snapshot and no
\* interrupted receive without a dataset), and what the receiver still has to run of
\* a command was admitted (syncdataset; executeReceiverCommandPlan).
THEOREM SessionTyped == SyncoidSpec => []TypeInv
BY InitTyped, NextTyped, PTL DEF SyncoidSpec

\* In particular the session's types are as declared, refusals included.
THEOREM SessionTypeCorrect == SyncoidSpec => []TypeOK
<1>1. TypeInv => TypeOK
  BY DEF TypeInv
<1> QED
  BY <1>1, SessionTyped, PTL

-----------------------------------------------------------------------------
(* Each command is admitted, where Syncoid sends it.                        *)

LEMMA SingleAdmitted ==
  ASSUME NEW steps, PipelineAllowed(steps, policy), PruneBatch \in 1..MaxBatch
  PROVE  Authorized(<<steps>>, policy)
<1>1. /\ <<steps>> \in Seq({steps}) /\ Len(<<steps>>) = 1
      /\ \A i \in 1..Len(<<steps>>) : <<steps>>[i] = steps
  OBVIOUS
<1>2. 1 \in 1..MaxBatch
  <2>1. MaxBatch \in Nat /\ PruneBatch \in Nat
    BY ConstantsAssumption
  <2> QED
    BY <2>1
<1> QED
  BY <1>1, <1>2 DEF Authorized

\* The forms of validateReceivePipeline that Syncoid uses.
ReceiveForm(steps) ==
    CASE Len(steps) = 1 -> TRUE
      [] Len(steps) = 2 -> \/ MbufferAllowed(steps[1]) /\ policy.compression = None
                           \/ DecompressorStepAllowed(steps[1], policy)
      [] Len(steps) = 3 -> /\ MbufferAllowed(steps[1])
                           /\ DecompressorStepAllowed(steps[2], policy)
      [] OTHER -> FALSE

LEMMA FormAlone == ASSUME NEW steps, Len(steps) = 1 PROVE ReceiveForm(steps)
BY DEF ReceiveForm

LEMMA FormBuffered ==
  ASSUME NEW steps, Len(steps) = 2, MbufferAllowed(steps[1]), policy.compression = None
  PROVE  ReceiveForm(steps)
BY DEF ReceiveForm

LEMMA FormCompressed ==
  ASSUME NEW steps, Len(steps) = 3, MbufferAllowed(steps[1]),
         DecompressorStepAllowed(steps[2], policy)
  PROVE  ReceiveForm(steps)
BY DEF ReceiveForm

LEMMA PipelineServed ==
  ASSUME NEW steps, steps[Len(steps)].name = "zfs receive",
         ReceiveAllowed(steps[Len(steps)], policy), ReceiveForm(steps)
  PROVE  PipelineAllowed(steps, policy)
<1>1. ReceivePipelineAllowed(steps, policy)
  BY DEF ReceivePipelineAllowed, ReceiveForm
<1> QED
  BY <1>1 DEF PipelineAllowed

LEMMA StepAdmitted ==
  ASSUME NEW step, PruneBatch \in 1..MaxBatch,
         \/ step.name = "zfs receive" /\ ReceiveAllowed(step, policy)
         \/ step.name = "zfs destroy" /\ DestroyAllowed(step, policy)
         \/ QueryAllowed(step, policy)
  PROVE  Authorized(<< <<step>> >>, policy)
<1>1. <<step>>[1] = step /\ Len(<<step>>) = 1
  OBVIOUS
<1>2. CASE step.name = "zfs receive" /\ ReceiveAllowed(step, policy)
  <2>1. PipelineAllowed(<<step>>, policy)
    BY <1>1, <1>2, FormAlone, PipelineServed
  <2> QED
    BY <2>1, SingleAdmitted
<1>3. CASE \/ step.name = "zfs destroy" /\ DestroyAllowed(step, policy)
           \/ QueryAllowed(step, policy)
  <2>1. PipelineAllowed(<<step>>, policy)
    BY <1>1, <1>3 DEF PipelineAllowed
  <2> QED
    BY <2>1, SingleAdmitted
<1> QED
  BY <1>2, <1>3

LEMMA QueriesAdmitted ==
  ASSUME spec \in Specs, PruneBatch \in 1..MaxBatch
  PROVE  \A q \in CheckQueries \cup Queries : Authorized(q, policy)
<1>1. ASSUME NEW name \in {"exit", "echo", "ps"}
      PROVE  Authorized(<< <<Filter(name, {})>> >>, policy)
  <2>1. QueryAllowed(Filter(name, {}), policy)
    BY DEF QueryAllowed, Filter, MakeStep
  <2> QED
    BY <2>1, StepAdmitted
<1>2. ASSUME NEW tool, tool = "mbuffer" \/ (tool = policy.compression /\ tool # None)
      PROVE  Authorized(<< <<Filter("command -v", {tool})>> >>, policy)
  <2>1. QueryAllowed(Filter("command -v", {tool}), policy)
    BY <1>2 DEF QueryAllowed, Filter, MakeStep
  <2> QED
    BY <2>1, StepAdmitted
<1>3. ASSUME NEW p \in {"name", "guid,creation", "type,guid,creation", "used",
                        "receive_resume_token"}
      PROVE  Authorized(<< <<MakeStep("zfs get", {p}, Target, {}, FALSE)>> >>, policy)
  <2>1. QueryAllowed(MakeStep("zfs get", {p}, Target, {}, FALSE), policy)
    BY DEF QueryAllowed, MakeStep
  <2> QED
    BY <2>1, StepAdmitted
<1>4. Authorized(<< <<MakeStep("zpool get", {}, <<Target[1]>>, {}, FALSE)>> >>, policy)
  <2>1. QueryAllowed(MakeStep("zpool get", {}, <<Target[1]>>, {}, FALSE), policy)
    BY DEF QueryAllowed, MakeStep
  <2> QED
    BY <2>1, StepAdmitted
<1>5. args.compress # None => options.compression = policy.compression
                              /\ options.compression # None
  <2>1. None \notin Compressors
    BY DEF None, Compressors, CompressionSpecs
  <2> QED
    BY <2>1, NamesMean DEF SenderCompression
<1> QED
  BY <1>1, <1>2, <1>3, <1>4, <1>5 DEF CheckQueries, Queries

LEMMA ReceiveAdmitted ==
  ASSUME spec \in Specs, policy.compression \in Tools \cup {None},
         resume => policy.receiveResumable, PruneBatch \in 1..MaxBatch
  PROVE  Authorized(ReceiveCommand, policy)
<1> DEFINE p == ReceivePipeline
<1>1. Receiver.name = "zfs receive" /\ Receiver.dataset = Target
      /\ Receiver.flags = ReceiveFlags
  BY DEF Receiver, MakeStep
<1>2. ReceiveAllowed(Receiver, policy)
  <2>1. /\ ReceiveFlags \subseteq {"-u", "-s", "-F"}
        /\ "-u" \in ReceiveFlags <=> Given("--recvoptions=u")
        /\ "-s" \in ReceiveFlags <=> resume
        /\ "-F" \in ReceiveFlags <=> ~Given("--no-rollback")
    BY DEF ReceiveFlags
  <2> QED
    BY <1>1, <2>1, OptionsMean DEF ReceiveAllowed
<1>3. MbufferAllowed(Buffer)
  BY DEF MbufferAllowed, Buffer, Filter, MakeStep
<1>4. CASE Compresses
  <2>1. DecompressorStepAllowed(Decompressor[args.compress], policy)
    BY <1>4, CompressesMeans, DecompressorServed, NamesMean DEF DecompressorStepAllowed
  <2>2. Len(p) = 3 /\ p[1] = Buffer /\ p[2] = Decompressor[args.compress]
        /\ p[Len(p)] = Receiver
    BY <1>4, ReceiveParts
  <2>3. PipelineAllowed(p, policy)
    BY <1>1, <1>2, <1>3, <2>1, <2>2, FormCompressed, PipelineServed
  <2> QED
    BY <2>3, ReceiveParts, SingleAdmitted
<1>5. CASE ~Compresses
  <2>1. policy.compression = None
    BY <1>5, CompressesMeans
  <2>2. Len(p) = 2 /\ p[1] = Buffer /\ p[Len(p)] = Receiver
    BY <1>5, ReceiveParts
  <2>3. PipelineAllowed(p, policy)
    BY <1>1, <1>2, <1>3, <2>1, <2>2, FormBuffered, PipelineServed
  <2> QED
    BY <2>3, ReceiveParts, SingleAdmitted
<1> QED
  BY <1>4, <1>5

LEMMA AbortAdmitted ==
  ASSUME policy.receiveResumable, PruneBatch \in 1..MaxBatch
  PROVE  Authorized(<< <<MakeStep("zfs receive", {"-A"}, Target, {}, FALSE)>> >>, policy)
<1> DEFINE step == MakeStep("zfs receive", {"-A"}, Target, {}, FALSE)
<1>1. step.name = "zfs receive" /\ ReceiveAllowed(step, policy)
  BY DEF MakeStep, ReceiveAllowed
<1> QED
  BY <1>1, StepAdmitted

LEMMA RecreateAdmitted ==
  ASSUME policy.allowDestroy, PruneBatch \in 1..MaxBatch
  PROVE  Authorized(DestroyCommand({"-r"}, {}), policy)
<1> DEFINE step == MakeStep("zfs destroy", {"-r"}, Target, {}, FALSE)
<1>1. step.name = "zfs destroy" /\ DestroyAllowed(step, policy)
  BY TargetIsItsOwn DEF MakeStep, DestroyAllowed
<1> QED
  BY <1>1, StepAdmitted DEF DestroyCommand

LEMMA SnapshotsAdmitted ==
  ASSUME policy.allowTargetSnapshotDestroy, NEW snapshots, snapshots # {},
         PruneBatch \in 1..MaxBatch
  PROVE  Authorized(DestroyCommand({}, snapshots), policy)
<1> DEFINE step == MakeStep("zfs destroy", {}, Target, snapshots, FALSE)
<1>1. step.name = "zfs destroy" /\ DestroyAllowed(step, policy)
  BY DEF MakeStep, DestroyAllowed, SnapshotDestroyAllowed
<1> QED
  BY <1>1, StepAdmitted DEF DestroyCommand

\* A batch of pruneoldsyncsnaps: the relationship's own snapshots, no more of them
\* than the receiver takes in one command.
LEMMA PruneAdmitted ==
  ASSUME TypeInv, todo # {}, PruneBatch \in 1..MaxBatch,
         policy.allowSyncSnapshotDestroy, \A s \in todo : Owner(s) = Relationship,
         NEW batch \in [1..(IF Cardinality(todo) < PruneBatch THEN Cardinality(todo)
                            ELSE PruneBatch) -> todo]
  PROVE  Authorized([i \in DOMAIN batch |->
                       <<MakeStep("zfs destroy", {}, Target, {batch[i]}, FALSE)>>], policy)
<1> DEFINE command == [i \in DOMAIN batch |->
                         <<MakeStep("zfs destroy", {}, Target, {batch[i]}, FALSE)>>]
<1>1. /\ command \in Seq(Pipelines) /\ Len(command) <= PruneBatch
      /\ PruneBatch > 0 => Len(command) > 0
      /\ \A i \in 1..Len(command) :
           /\ batch[i] \in todo
           /\ command[i] = <<MakeStep("zfs destroy", {}, Target, {batch[i]}, FALSE)>>
  BY PruneTyped
<1> HIDE DEF command
<1>2. MaxBatch \in Nat /\ PruneBatch \in Nat
  BY ConstantsAssumption
<1>3. Len(command) \in 1..MaxBatch
  <2>1. command \in Seq(Pipelines)
    BY <1>1
  <2>2. Len(command) \in Nat
    BY <2>1
  <2>3. Len(command) <= PruneBatch /\ (PruneBatch > 0 => Len(command) > 0)
    BY <1>1
  <2> QED
    BY <1>2, <2>2, <2>3
<1>4. ASSUME NEW i \in 1..Len(command)
      PROVE  PipelineAllowed(command[i], policy) /\ IsDestroy(command[i])
  <2> DEFINE step == MakeStep("zfs destroy", {}, Target, {batch[i]}, FALSE)
  <2>1. step.name = "zfs destroy" /\ step.flags = {} /\ ~step.redirect
        /\ step.dataset = Target /\ step.snapshots = {batch[i]}
    BY DEF MakeStep
  <2>2. Owner(batch[i]) = policy.syncSnapshotIdentifier
    BY <1>1, <1>4, NamesMean
  <2>3. DestroyAllowed(step, policy)
    BY <2>1, <2>2 DEF DestroyAllowed, SnapshotDestroyAllowed
  <2>4. command[i] = <<step>>
    BY <1>1, <1>4
  <2> HIDE DEF step
  <2>5. Len(command[i]) = 1 /\ command[i][1] = step
    BY <2>4
  <2> QED
    BY <2>1, <2>3, <2>5 DEF PipelineAllowed, IsDestroy
<1> QED
  BY <1>3, <1>4 DEF Authorized, command

-----------------------------------------------------------------------------
(* Nothing is refused.                                                      *)

LEMMA InitServed == Init /\ Agreed => ServedInv
<1> SUFFICES ASSUME Init, Agreed PROVE ServedInv
  OBVIOUS
<1>1. TypeInv
  BY InitTyped
<1>2. /\ ~(zfs[Target].partial /\ ~options.receiveResumable)
      /\ ~(/\ zfs[Target].snapshots \cap Clash # {}
           /\ options.forceDelete /\ ~options.deleteTargetSnapshots)
      /\ options.compression \in Tools \cup {None}
  BY DEF Agreed, Disagrees
<1>3. /\ policy.receiveResumable = options.receiveResumable
      /\ policy.allowDestroy = options.forceDelete
      /\ policy.allowTargetSnapshotDestroy = options.deleteTargetSnapshots
      /\ policy.compression = options.compression
  BY DEF policy, ReceiverPolicy
<1>4. NoDriftInv
  BY <1>2, <1>3 DEF NoDriftInv, Init, Absent
<1>5. PlaceInv /\ NothingRefused
  BY DEF Init, PlaceInv, NothingRefused
<1> QED
  BY <1>1, <1>4, <1>5 DEF ServedInv

LEMMA AdmittedIsServed ==
  ASSUME NEW command, Authorized(command, policy), Send(command)
  PROVE  refused' = refused /\ outcome' = "none"
BY DEF Send

\* Running an admitted command leaves no interrupted receive behind unless the run
\* has receives that can be resumed, and brings no snapshot with a conflicting name.
LEMMA ExecuteNoDrift ==
  ASSUME TypeInv, Execute
  PROVE  /\ ~policy.receiveResumable /\ ~zfs[Target].partial =>
              ~zfs'[Target].partial /\ outcome' # "partial"
         /\ zfs'[Target].snapshots \cap Clash \subseteq zfs[Target].snapshots
<1>1. IInv /\ pending # <<>>
  BY DEF TypeInv, TypeOK, IInv, Execute
<1>2. /\ zfs \in [Datasets -> [exists : BOOLEAN, snapshots : SUBSET Snapshots,
                             partial : BOOLEAN, mounted : BOOLEAN]]
      /\ Target \in Datasets /\ Source \cap Clash = {}
  BY <1>1, ConstantsAssumption, DatasetsAreRecords
<1>3. CASE Acting.name = "zfs receive" /\ Receive(Acting)
  <2>1. ReceiveAllowed(Acting, policy) /\ Acting.dataset = Target
    BY <1>1, <1>3, ActingAllowed DEF ReceiveAllowed
  <2>2. "-s" \in Acting.flags => policy.receiveResumable
    BY <2>1 DEF ReceiveAllowed
  <2>3. CASE UNCHANGED zfs /\ (outcome' = "partial" => zfs[Target].partial)
    BY <2>3
  <2>4. CASE /\ "-s" \in Acting.flags
             /\ zfs' = [zfs EXCEPT ![Target].exists = TRUE, ![Target].partial = TRUE]
    <3>1. zfs'[Target].snapshots = zfs[Target].snapshots
      BY <1>2, <2>4
    <3> QED
      BY <2>2, <2>4, <3>1
  <2>5. CASE outcome' = "ok" /\ Streamed(Acting.flags)
    <3>1. zfs'[Target] \in Received(Target, Acting.flags)
      BY <2>5 DEF Streamed
    <3>2. /\ ~zfs'[Target].partial
          /\ zfs'[Target].snapshots \subseteq zfs[Target].snapshots \cup Source
      BY <1>1, <1>2, <3>1, ReceivedMeans
    <3> QED
      BY <1>2, <2>5, <3>2
  <2> QED
    BY <1>3, <2>1, <2>3, <2>4, <2>5, ReceiveForms
<1>4. CASE Acting.name = "zfs receive" /\ AbortReceive(Acting)
  <2>1. Acting.dataset = Target
    BY <1>1, <1>4, ActingAllowed DEF ReceiveAllowed
  <2>2. outcome' # "partial"
    BY <1>4 DEF AbortReceive
  <2>3. CASE UNCHANGED zfs
    BY <2>2, <2>3
  <2>4. CASE zfs' = [zfs EXCEPT ![Target].partial = FALSE]
    <3>1. ~zfs'[Target].partial /\ zfs'[Target].snapshots = zfs[Target].snapshots
      BY <1>2, <2>4
    <3> QED
      BY <2>2, <3>1
  <2>5. CASE zfs' = [zfs EXCEPT ![Target] = Absent]
    <3>1. zfs'[Target] = Absent
      BY <1>2, <2>5
    <3> QED
      BY <2>2, <3>1 DEF Absent
  <2> QED
    BY <1>4, <2>1, <2>3, <2>4, <2>5 DEF AbortReceive
<1>5. CASE Acting.name = "zfs destroy" /\ Destroy(Acting)
  <2>1. outcome' # "partial"
    BY <1>5 DEF Destroy
  <2>2. CASE UNCHANGED zfs
    BY <2>1, <2>2
  <2>3. CASE zfs' = [zfs EXCEPT ![Acting.dataset].snapshots = @ \ Acting.snapshots]
    <3>1. zfs'[Target].partial = zfs[Target].partial
      BY <1>2, <2>3
    <3>2. zfs'[Target].snapshots \subseteq zfs[Target].snapshots
      BY <1>2, <2>3
    <3> QED
      BY <2>1, <3>1, <3>2
  <2>4. CASE zfs' = [c \in Datasets |-> IF c \in Children(Acting.dataset) THEN Absent
                                       ELSE zfs[c]]
    <3>1. zfs'[Target] \in {Absent, zfs[Target]}
      BY <1>2, <2>4
    <3> QED
      BY <2>1, <3>1 DEF Absent
  <2> QED
    BY <1>5, <2>2, <2>3, <2>4 DEF Destroy
<1>6. CASE Look
  BY <1>6 DEF Look
<1> QED
  BY <1>3, <1>4, <1>5, <1>6 DEF Execute, Acting

\* A step that sends an admitted command, and one that leaves most alone.
LEMMA KeptServed ==
  ASSUME ServedInv, UNCHANGED <<spec, zfs, at, seen, resume, refused>>, todo' \subseteq todo,
         outcome' = "none" \/ outcome' = outcome
  PROVE  PlaceInv' /\ NoDriftInv' /\ NothingRefused'
<1>1. policy' = policy
  BY DEF policy, options
<1> QED
  BY <1>1 DEF ServedInv, PlaceInv, NoDriftInv, NothingRefused

LEMMA SendsServed ==
  ASSUME ServedInv, NEW place, NEW command, Authorized(command, policy),
         Sends(place, command)
  PROVE  PlaceInv' /\ NoDriftInv' /\ NothingRefused'
<1>1. UNCHANGED <<spec, zfs, at, seen, todo, resume>> /\ Send(command)
  BY DEF Sends, syncoid
<1> QED
  BY <1>1, AdmittedIsServed, KeptServed

LEMMA NextServed ==
  ASSUME PruneBatch \in 1..MaxBatch
  PROVE  ServedInv /\ [SyncoidNext]_vars => ServedInv'
<1> SUFFICES ASSUME ServedInv, [SyncoidNext]_vars
             PROVE  PlaceInv' /\ NoDriftInv' /\ NothingRefused'
  BY NextTyped DEF ServedInv
<1>1. TypeInv /\ spec \in Specs /\ todo \subseteq Snapshots
      /\ PlaceInv /\ NoDriftInv /\ NothingRefused
  BY DEF ServedInv, TypeInv, TypeOK
<1>2. ASSUME UNCHANGED spec PROVE policy' = policy
  BY <1>2 DEF policy, options
<1>3. CASE Probe
  <2>1. /\ UNCHANGED <<spec, zfs, pending, todo, resume>> /\ seen' = zfs[Target]
        /\ outcome' = "none" /\ policy' = policy
    BY <1>2, <1>3 DEF Probe, Observed
  <2>2. refused' = refused
    BY <1>1, <1>3, QueriesAdmitted DEF Probe
  <2>3. /\ at' \in {"full", "resume", "recreate", "done", "incremental"}
        /\ at' = "resume" => resume
        /\ at' = "recreate" => Given("--force-delete")
    BY <1>3 DEF Probe
  <2>4. PlaceInv'
    BY <1>1, <1>3, <2>1, <2>3, OptionsMean DEF PlaceInv, Probe
  <2>5. NoDriftInv'
    BY <1>1, <2>1 DEF NoDriftInv
  <2> QED
    BY <1>1, <2>2, <2>4, <2>5 DEF NothingRefused
<1>4. CASE SendReceive
  <2>1. Authorized(ReceiveCommand, policy)
    BY <1>1, ReceiveAdmitted DEF NoDriftInv, PlaceInv
  <2> QED
    BY <1>4, <2>1, SendsServed DEF SendReceive
<1>5. CASE SendAbort
  <2> DEFINE command == << <<MakeStep("zfs receive", {"-A"}, Target, {}, FALSE)>> >>
  <2>1. PICK place \in {"abort", "reset"} : Sends(place, command)
    BY <1>5 DEF SendAbort
  <2>2. policy.receiveResumable
    BY <1>1, <2>1 DEF Sends, PlaceInv
  <2>3. Authorized(command, policy)
    BY <2>2, AbortAdmitted
  <2> HIDE DEF command
  <2> QED
    BY <2>1, <2>3, SendsServed
<1>6. CASE SendOverwrite
  <2>1. PICK s \in seen.snapshots \cap Clash : Sends("overwrite", DestroyCommand({}, {s}))
    BY <1>6 DEF SendOverwrite
  <2>2. policy.allowDestroy
    BY <1>1, <2>1 DEF Sends, PlaceInv
  <2>3. policy.allowTargetSnapshotDestroy
    BY <1>1, <2>2 DEF NoDriftInv
  <2>4. Authorized(DestroyCommand({}, {s}), policy)
    BY <2>3, SnapshotsAdmitted
  <2> QED
    BY <2>1, <2>4, SendsServed
<1>7. CASE SendRecreate
  <2>1. Sends("recreate", DestroyCommand({"-r"}, {})) /\ policy.allowDestroy
    BY <1>1, <1>7 DEF SendRecreate, Sends, PlaceInv
  <2> QED
    BY <2>1, RecreateAdmitted, SendsServed
<1>8. CASE Proceed
  <2>1. /\ UNCHANGED <<spec, zfs, pending, seen, todo, resume, refused>>
        /\ outcome' = "none" /\ policy' = policy /\ at # "mirror"
    BY <1>2, <1>8 DEF Proceed
  <2>2. /\ at' \in {"prune", "again", "probe", "abort", "reset", "overwrite", "done"}
        /\ at' = "again" => at = "reset"
        /\ at' = "abort" => at = "resume"
        /\ at' = "reset" => outcome = "partial"
        /\ at' = "overwrite" => Given("--force-delete")
    BY <1>8 DEF Proceed, Continue
  <2>3. PlaceInv'
    <3>1. at' \in {"reset", "again"} => policy.receiveResumable
      BY <1>1, <2>2, OptionsMean DEF PlaceInv, NoDriftInv
    <3> QED
      BY <1>1, <2>1, <2>2, <3>1, OptionsMean DEF PlaceInv
  <2>4. NoDriftInv'
    BY <1>1, <2>1 DEF NoDriftInv
  <2> QED
    BY <1>1, <2>1, <2>3, <2>4 DEF NothingRefused
<1>9. CASE StartPrune
  <2>1. /\ UNCHANGED <<spec, zfs, pending, outcome, seen, resume, refused>>
        /\ at' = "pruning"
        /\ policy' = policy
    BY <1>2, <1>9 DEF StartPrune
  <2>2. \A s \in todo' : Owner(s) = args.identifier /\ ~Given("--no-sync-snap")
    BY <1>9 DEF StartPrune
  <2>3. PlaceInv'
    BY <1>1, <2>1, <2>2, OptionsMean, NamesMean DEF PlaceInv
  <2> QED
    BY <1>1, <2>1, <2>3 DEF NoDriftInv, NothingRefused
<1>10. CASE SendPrune
  <2>1. /\ todo # {} /\ at = "pruning" /\ todo' \subseteq todo
        /\ UNCHANGED <<spec, zfs, at, seen, resume>>
    BY <1>10 DEF SendPrune
  <2>2. PICK batch \in [1..(IF Cardinality(todo) < PruneBatch THEN Cardinality(todo)
                            ELSE PruneBatch) -> todo] :
          Send([i \in DOMAIN batch |->
                  <<MakeStep("zfs destroy", {}, Target, {batch[i]}, FALSE)>>])
    BY <1>10 DEF SendPrune
  <2>3. policy.allowSyncSnapshotDestroy /\ \A s \in todo : Owner(s) = Relationship
    BY <1>1, <2>1 DEF PlaceInv
  <2>4. refused' = refused /\ outcome' = "none"
    BY <1>1, <2>1, <2>2, <2>3, PruneAdmitted, AdmittedIsServed
  <2> QED
    BY <2>1, <2>4, KeptServed
<1>11. CASE EndPrune
  <2>1. /\ UNCHANGED <<spec, zfs, pending, seen, resume, refused>> /\ outcome' = "none"
        /\ policy' = policy /\ at = "pruning"
        /\ \/ at' = "mirror" /\ Given("--delete-target-snapshots")
           \/ at' = "done" /\ todo' = todo
    BY <1>2, <1>11 DEF EndPrune
  <2>2. PlaceInv'
    BY <1>1, <2>1, OptionsMean DEF PlaceInv
  <2> QED
    BY <1>1, <2>1, <2>2 DEF NoDriftInv, NothingRefused
<1>12. CASE SendMirror
  <2>1. PICK batch \in (SUBSET todo) \ {{}} :
          Send(DestroyCommand({}, batch)) /\ todo' = todo \ batch
    BY <1>12 DEF SendMirror
  <2>2. UNCHANGED <<spec, zfs, at, seen, resume>> /\ policy.allowTargetSnapshotDestroy
    BY <1>1, <1>12 DEF SendMirror, PlaceInv
  <2>3. Authorized(DestroyCommand({}, batch), policy)
    BY <2>1, <2>2, SnapshotsAdmitted
  <2>4. refused' = refused /\ outcome' = "none"
    BY <2>1, <2>3, AdmittedIsServed
  <2> QED
    BY <2>1, <2>2, <2>4, KeptServed
<1>15. CASE EndMirror
  <2>1. /\ UNCHANGED <<spec, zfs, pending, seen, todo, resume, refused>> /\ todo = {}
        /\ outcome' = "none" /\ at' = "done" /\ policy' = policy
    BY <1>2, <1>15 DEF EndMirror
  <2> QED
    BY <1>1, <2>1 DEF PlaceInv, NoDriftInv, NothingRefused
<1>16. CASE CheckCommands
  <2>1. /\ UNCHANGED <<spec, zfs, pending, outcome, seen, todo>> /\ policy' = policy
        /\ at = "start" /\ at' \in {"done", "probe"}
    BY <1>2, <1>16 DEF CheckCommands
  <2>2. refused' = refused /\ resume' \in {FALSE, ~Given("--no-resume")}
    BY <1>1, <1>16, QueriesAdmitted DEF CheckCommands
  <2>3. resume' => policy.receiveResumable
    BY <1>1, <2>2, OptionsMean
  <2>4. PlaceInv'
    BY <1>1, <2>1, <2>3 DEF PlaceInv
  <2> QED
    BY <1>1, <2>1, <2>2, <2>4 DEF NoDriftInv, NothingRefused
<1>13. CASE Execute
  <2>1. UNCHANGED <<spec, at, seen, todo, resume, refused>> /\ policy' = policy
    BY <1>2, <1>13 DEF Execute, syncoid
  <2>2. PlaceInv'
    BY <1>1, <2>1 DEF PlaceInv
  <2>3. NoDriftInv'
    BY <1>1, <1>13, <2>1, ExecuteNoDrift DEF NoDriftInv
  <2> QED
    BY <1>1, <2>1, <2>2, <2>3 DEF NothingRefused
<1>14. CASE Done \/ UNCHANGED vars
  BY <1>14, KeptServed DEF Done, vars
<1> QED
  BY <1>3, <1>4, <1>5, <1>6, <1>7, <1>8, <1>9, <1>10, <1>11, <1>12, <1>13, <1>14, <1>15,
     <1>16 DEF SyncoidNext

\* Syncoid's behaviour and the receive permission do not drift apart: for any
\* settings and any course of the session the receiver refuses no command, unless
\* the session begins in one of the three situations of Disagrees (a leftover of a
\* resumable receive, a conflicting name, a missing compressor).  Syncoid prunes up
\* to eleven snapshots with a command and maxReceiverDestroyBatchCommand is 32: the bound on
\* PruneBatch is what the two have to keep (Translate; authorizeReceiverCommand).
THEOREM ContractServed ==
  ASSUME PruneBatch \in 1..MaxBatch
  PROVE  SyncoidSpec /\ Agreed => []NothingRefused
<1>1. ServedInv => NothingRefused
  BY DEF ServedInv
<1>2. ServedInv /\ [SyncoidNext]_vars => ServedInv'
  BY NextServed
<1> QED
  BY <1>1, <1>2, InitServed, PTL DEF SyncoidSpec

\* The same for the sessions of the contract, where nothing is out of step.
THEOREM NoDriftNothingRefused ==
  ASSUME PruneBatch \in 1..MaxBatch, Drift = {}
  PROVE  SyncoidSpec => []NothingRefused
<1>1. Init => Agreed
  BY DEF Init, Agreed
<1> QED
  BY <1>1, ContractServed, PTL DEF SyncoidSpec

-----------------------------------------------------------------------------
(* What Syncoid itself does at the receiver.                                *)

\* Whatever happens in the session, Syncoid changes nothing outside the target,
\* removes no snapshot of another owner, and mounts and destroys nothing, unless the
\* run's settings ask for it; a reset of the target's first, interrupted receive is
\* the one destroy that comes with resumable receives (syncdataset,
\* resetreceivestate, Translate, authorizeReceiverCommand).
THEOREM SyncoidKeepsItsPlace ==
  SyncoidSpec => OtherDatasetsUntouched /\ ForeignSnapshotsKept /\ MountAndDestroyAsked
<1> DEFINE Outside == \A d \in Datasets : zfs'[d] # zfs[d] => DatasetOrChild(d, Target)
           Foreign == \A s \in zfs[Target].snapshots \ zfs'[Target].snapshots :
                        \/ Owner(s) = Relationship /\ spec.noSyncSnap # "true"
                        \/ spec.noRollback = "false"
                        \/ spec.forceDelete = "true"
                        \/ spec.deleteTargetSnapshots = "true"
           Asked == \A d \in Datasets :
                      /\ zfs'[d].mounted /\ ~zfs[d].mounted =>
                           spec.receiveUnmounted = "false"
                      /\ zfs[d].exists /\ ~zfs'[d].exists =>
                           \/ spec.forceDelete = "true"
                           \/ /\ d = Target /\ zfs[d].partial /\ zfs[d].snapshots = {}
                              /\ spec.receiveResumable # "false"
                           \/ d # Target /\ spec.noRollback = "false"
<1>1. ASSUME TypeInv, [SyncoidNext]_vars
      PROVE  Outside /\ Foreign /\ Asked
  <2>1. IInv
    BY <1>1 DEF TypeInv, TypeOK, IInv
  <2>2. CASE Execute
    BY <2>1, <2>2, ExecuteInside, ExecuteKeeps, ExecuteAsked
  <2>3. CASE UNCHANGED zfs
    BY <2>3
  <2>4. Execute \/ UNCHANGED zfs
    BY <1>1 DEF SyncoidNext, Probe, SendReceive, SendAbort, SendOverwrite, SendRecreate,
                Sends, Proceed, StartPrune, SendPrune, EndPrune, SendMirror,
                EndMirror, CheckCommands, Done, vars
  <2> QED
    BY <2>2, <2>3, <2>4
<1>2. TypeInv /\ [SyncoidNext]_vars => [Outside]_vars /\ [Foreign]_vars /\ [Asked]_vars
  BY <1>1
<1> QED
  BY <1>2, SessionTyped, PTL DEF SyncoidSpec, OtherDatasetsUntouched,
     ForeignSnapshotsKept, MountAndDestroyAsked
=============================================================================
