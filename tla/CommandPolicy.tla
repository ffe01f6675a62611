----------------------------- MODULE CommandPolicy -----------------------------
(***************************************************************************)
(* authorizeReceiverCommand: which commands a receiver runs for a grant.   *)
(*                                                                         *)
(* A command is what the tokenizer and the parser make of it: a sequence   *)
(* of pipelines (the parts between semicolons), each a sequence of steps.  *)
(* A dataset is the sequence of the parts of its name.                     *)
(***************************************************************************)
EXTENDS Naturals, Sequences, SyncoidContract

CONSTANTS
    Owner(_),   \* the relationship in a sync snapshot's name, if it has one
    MaxBatch    \* maxReceiverDestroyBatchCommand

\* A step: its name with the subcommand, its options, the dataset and the
\* snapshots that it is about, and whether stderr goes to stdout.
MakeStep(name, flags, dataset, snapshots, redirect) ==
    [name |-> name, flags |-> flags, dataset |-> dataset,
     snapshots |-> snapshots, redirect |-> redirect]

Filter(name, flags) == MakeStep(name, flags, <<>>, {}, FALSE)

-----------------------------------------------------------------------------
\* replication.DatasetOrChild, for valid names.
DatasetOrChild(value, target) ==
    /\ Len(value) >= Len(target)
    /\ SubSeq(value, 1, Len(target)) = target

\* Mutant: one snapshot of the run's own is enough.
SomeSnapshotAllowed(step, policy) ==
    /\ step.dataset = Target
    /\ \E s \in step.snapshots :
         \/ policy.allowTargetSnapshotDestroy
         \/ /\ policy.allowSyncSnapshotDestroy
            /\ Owner(s) = policy.syncSnapshotIdentifier

\* snapshotDestroyAllowed, with SnapshotOwnedByIdentifier.
SnapshotDestroyAllowed(step, policy) ==
    /\ step.dataset = Target
    /\ \A s \in step.snapshots :
         \/ policy.allowTargetSnapshotDestroy
         \/ /\ policy.allowSyncSnapshotDestroy
            /\ Owner(s) = policy.syncSnapshotIdentifier

\* Mutant: the dataset is compared from the wrong side.
DestroyOfParent(step, policy) ==
    /\ ~step.redirect
    /\ IF step.snapshots # {}
         THEN step.flags = {} /\ SnapshotDestroyAllowed(step, policy)
         ELSE /\ step.flags \subseteq {"-r"}
              /\ policy.allowDestroy /\ DatasetOrChild(Target, step.dataset)

\* zfsDestroyAllowed.
DestroyAllowed(step, policy) ==
    /\ ~step.redirect
    /\ IF step.snapshots # {}
         THEN step.flags = {} /\ SnapshotDestroyAllowed(step, policy)
         ELSE /\ step.flags \subseteq {"-r"}
              /\ policy.allowDestroy /\ DatasetOrChild(step.dataset, Target)

\* validateZFSReceiveStep.
ReceiveAllowed(step, policy) ==
    /\ step.dataset = Target
    /\ \/ step.flags = {"-A"} /\ policy.receiveResumable
       \/ /\ step.flags \subseteq {"-u", "-s", "-F"}
          /\ "-u" \in step.flags => policy.receiveUnmounted
          /\ "-s" \in step.flags => policy.receiveResumable
          /\ "-F" \in step.flags => policy.allowRollback
          /\ "-u" \in step.flags \/ policy.allowMount

\* validateMbufferStep; the values of its options are not modelled.
MbufferAllowed(step) ==
    /\ step.name = "mbuffer" /\ ~step.redirect
    /\ step.flags \subseteq {"-q", "-Q", "-s", "-m", "-P"}

\* validateDecompressorStep.
DecompressorStepAllowed(step, policy) ==
    ~step.redirect /\ DecompressorAllowed(step, policy.compression)

\* validateReceivePipeline: mbuffer, then the decompressor of the policy's
\* method, then zfs receive, alone or behind one or both of the others.
ReceivePipelineAllowed(steps, policy) ==
    LET last == steps[Len(steps)]
    IN  /\ last.name = "zfs receive"
        /\ ReceiveAllowed(last, policy)
        /\ CASE Len(steps) = 1 -> TRUE
             [] Len(steps) = 2 ->
                  \/ MbufferAllowed(steps[1]) /\ policy.compression = None
                  \/ DecompressorStepAllowed(steps[1], policy)
             [] Len(steps) = 3 ->
                  /\ MbufferAllowed(steps[1])
                  /\ DecompressorStepAllowed(steps[2], policy)
             [] OTHER -> FALSE

\* The commands that only look: zfs get in five forms, the pool's resume feature,
\* command -v, ps, echo and exit.
QueryAllowed(step, policy) ==
    /\ ~step.redirect
    /\ \/ /\ step.name = "zfs get" /\ step.dataset = Target
          /\ step.flags \in {{"name"}, {"receive_resume_token"}, {"guid,creation"},
                             {"type,guid,creation"}, {"used"}}
       \/ step.name = "zpool get" /\ step.dataset = <<Target[1]>>
       \/ /\ step.name = "command -v"
          /\ \E tool \in {"mbuffer"} \cup ({policy.compression} \ {None}) :
               step.flags = {tool}
       \/ step.name \in {"ps", "echo", "exit"}

\* validateZpoolFeatureCheck: the pool's feature, searched for at the receiver.
FeatureCheckAllowed(steps, policy) ==
    /\ Len(steps) = 2
    /\ steps[1].name = "zpool get" /\ QueryAllowed(steps[1], policy)
    /\ steps[2].name = "grep" /\ steps[2].redirect

\* authorizeReceiverCommand for a command without semicolons.
PipelineAllowed(steps, policy) ==
    \/ FeatureCheckAllowed(steps, policy)
    \/ ReceivePipelineAllowed(steps, policy)
    \/ /\ Len(steps) = 1
       /\ \/ steps[1].name = "zfs destroy" /\ DestroyAllowed(steps[1], policy)
          \/ QueryAllowed(steps[1], policy)

IsDestroy(steps) == Len(steps) = 1 /\ steps[1].name = "zfs destroy"

\* authorizeReceiverCommand: a batch consists of a few destroys.
Authorized(command, policy) ==
    /\ Len(command) \in 1..MaxBatch
    /\ \A i \in 1..Len(command) : PipelineAllowed(command[i], policy)
    /\ Len(command) > 1 => \A i \in 1..Len(command) : IsDestroy(command[i])
=============================================================================
