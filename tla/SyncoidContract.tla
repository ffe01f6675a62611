---------------------------- MODULE SyncoidContract ----------------------------
(***************************************************************************)
(* The Syncoid Replication Contract: what Translate makes of a run's       *)
(* Syncoid settings, for the sender (Syncoid's arguments) and for the      *)
(* receiver (the policy of its grant).                                     *)
(***************************************************************************)
EXTENDS FiniteSets

CONSTANTS
    Target,        \* the run's target dataset
    Relationship   \* relationshipIdentifier: the digest of the run's two ends

-----------------------------------------------------------------------------
(* Compression.                                                             *)

None == "none"

\* compressionSpecs: Syncoid's name of the method, and the decompressors that
\* the receiver accepts, each with its arguments.
CompressionSpecs ==
    [gzip   |-> [sender |-> "gzip",
                 decompressors |-> {<<"gzip", {"-dc"}>>, <<"zcat", {}>>}],
     pigz   |-> [sender |-> "pigz-fast", decompressors |-> {<<"pigz", {"-dc"}>>}],
     zstd   |-> [sender |-> "zstd-fast", decompressors |-> {<<"zstd", {"-dc"}>>}],
     zstdmt |-> [sender |-> "zstdmt-fast",
                 decompressors |-> {<<"zstdmt", {"-dc"}>>}],
     xz     |-> [sender |-> "xz",
                 decompressors |-> {<<"xz", {"-d"}>>, <<"xz", {"-dc"}>>,
                                    <<"xz", {"-d", "-c"}>>}],
     lzop   |-> [sender |-> "lzo",
                 decompressors |-> {<<"lzop", {"-dfc"}>>, <<"lzop", {"-dc"}>>}],
     lz4    |-> [sender |-> "lz4", decompressors |-> {<<"lz4", {"-dc"}>>}]]

Compressors == DOMAIN CompressionSpecs

SenderCompression(compression) ==
    IF compression \in Compressors THEN CompressionSpecs[compression].sender ELSE None

\* Mutant: the decompressor is the method's own program.
SameProgram(step, compression) == step.name = compression

DecompressorAllowed(step, compression) ==
    /\ compression \in Compressors
    /\ <<step.name, step.flags>> \in CompressionSpecs[compression].decompressors

-----------------------------------------------------------------------------
(* The settings.                                                            *)

Flag == {"unset", "true", "false"}

\* SyncoidSpec of the API; the CRD admits no other compression.
Specs == [noSyncSnap : Flag, noRollback : Flag, forceDelete : Flag,
          deleteTargetSnapshots : Flag, receiveUnmounted : Flag,
          receiveResumable : Flag, compress : {"", None} \cup Compressors]

\* Mutant: what is not set is false.
TrueOnlyIfSet(value, fallback) == value = "true"

BoolDefault(value, fallback) == IF value = "unset" THEN fallback ELSE value = "true"

\* normalize.
Normalize(spec) ==
    [noSyncSnap            |-> BoolDefault(spec.noSyncSnap, FALSE),
     noRollback            |-> BoolDefault(spec.noRollback, TRUE),
     forceDelete           |-> BoolDefault(spec.forceDelete, FALSE),
     deleteTargetSnapshots |-> BoolDefault(spec.deleteTargetSnapshots, FALSE),
     receiveUnmounted      |-> BoolDefault(spec.receiveUnmounted, TRUE),
     receiveResumable      |-> BoolDefault(spec.receiveResumable, TRUE),
     compression           |-> IF spec.compress = "" THEN None ELSE spec.compress]

\* The receiver's side of Translate.
ReceiverPolicy(options) ==
    [receiveUnmounted           |-> options.receiveUnmounted,
     receiveResumable           |-> options.receiveResumable,
     allowRollback              |-> ~options.noRollback,
     allowDestroy               |-> options.forceDelete,
     allowMount                 |-> ~options.receiveUnmounted,
     allowSyncSnapshotDestroy   |-> ~options.noSyncSnap,
     allowTargetSnapshotDestroy |-> options.deleteTargetSnapshots,
     syncSnapshotIdentifier     |-> Relationship,
     compression                |-> options.compression]

\* The sender's side: the arguments that decide what Syncoid does at the target.
SenderArguments(options) ==
    [switches   |-> (IF options.noSyncSnap THEN {"--no-sync-snap"} ELSE {})
               \cup (IF options.noRollback THEN {"--no-rollback"} ELSE {})
               \cup (IF options.deleteTargetSnapshots
                       THEN {"--delete-target-snapshots"} ELSE {})
               \cup (IF options.receiveUnmounted THEN {"--recvoptions=u"} ELSE {})
               \cup (IF options.receiveResumable THEN {} ELSE {"--no-resume"})
               \cup (IF options.forceDelete THEN {"--force-delete"} ELSE {}),
     compress   |-> SenderCompression(options.compression),
     identifier |-> Relationship]
=============================================================================
