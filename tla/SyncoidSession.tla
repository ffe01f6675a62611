---------------------------- MODULE SyncoidSession ----------------------------
(***************************************************************************)
(* A sender's session with the receiver: Syncoid 2.3.0, started with the   *)
(* arguments of the contract, sends commands; the receiver runs those that *)
(* the policy of the contract admits.                                      *)
(*                                                                         *)
(* syncdataset decides from what it has read of the target (`seen`), and   *)
(* from how its commands end.  It may call itself: after a resumed         *)
(* receive, after a reset, and after destroying what is in its way.        *)
(***************************************************************************)
EXTENDS CommandPolicy

CONSTANTS
    Datasets,    \* the receiver's datasets
    Source,      \* snapshots of the source dataset, the newest one included
    Newest,      \* the snapshot to get to
    TargetOnly,  \* snapshots that only the target may have
    Clash,       \* those of TargetOnly with the name of one of the source
    Compressions,\* bound: the settings of `compress` that are looked at
    Tools,       \* the compressors of the release image
    PruneBatch,  \* snapshots that one pruning command destroys
    MirrorBatch, \* snapshots that one mirroring command destroys
    Drift,       \* situations in which the two sides of the contract disagree
    Commands     \* what a client with the grant's key may send

Snapshots == Source \cup TargetOnly

\* The steps that a command may consist of.
Steps == [name : STRING, flags : SUBSET STRING, dataset : Datasets \cup {<<>>},
          snapshots : SUBSET Snapshots, redirect : BOOLEAN]
Pipelines == Seq(Steps) \ {<<>>}

ASSUME ConstantsAssumption ==
    /\ Target \in Datasets
    /\ \A d \in Datasets : d \in Seq(STRING) /\ Len(d) > 0
    /\ Newest \in Source
    /\ Clash \subseteq TargetOnly
    /\ Source \cap TargetOnly = {}
    /\ IsFiniteSet(Source) /\ IsFiniteSet(TargetOnly)
    /\ Compressions \subseteq {"", None} \cup Compressors
    /\ PruneBatch \in Nat /\ MirrorBatch \in Nat /\ MaxBatch \in Nat
    /\ Commands \subseteq Seq(Pipelines)
    /\ Drift \subseteq {"leftover", "clash", "tool"}

\* The words of the commands that Syncoid sends to be run are strings, which the
\* provers do not know of a string in quotes.
Words == {"zfs receive", "zfs destroy", "mbuffer", "zcat", "pigz", "zstd", "zstdmt", "xz",
          "lzop", "lz4", "-A", "-F", "-d", "-dc", "-dfc", "-m", "-q", "-r", "-s", "-u"}

ASSUME WordsAssumption == Words \subseteq STRING

VARIABLES
    spec,     \* the run's Syncoid settings
    zfs,      \* the receiver's datasets
    pending,  \* pipelines of the admitted command that are still to run
    outcome,  \* how the command ended
    at,       \* where Syncoid is
    seen,     \* what it has read of the target
    todo,     \* snapshots still to be pruned, or to be destroyed at the target
    resume,   \* it makes receives resumable
    refused   \* the receiver has refused a command

syncoid == <<at, seen, todo, resume>>
vars == <<spec, zfs, pending, outcome, at, seen, todo, resume, refused>>

options == Normalize(spec)
policy  == ReceiverPolicy(options)
args    == SenderArguments(options)

\* A dataset: its snapshots, the state of an interrupted resumable receive, and
\* whether it is mounted.
Absent == [exists |-> FALSE, snapshots |-> {}, partial |-> FALSE, mounted |-> FALSE]
DatasetStates == {s \in [exists : BOOLEAN, snapshots : SUBSET Snapshots,
                         partial : BOOLEAN, mounted : BOOLEAN] :
                    s.exists \/ (s.snapshots = {} /\ ~s.partial /\ ~s.mounted)}

TypeOK ==
    /\ spec \in Specs
    /\ zfs \in [Datasets -> DatasetStates]
    /\ outcome \in {"none", "ok", "failed", "partial", "exists", "gone"}
    /\ at \in {"start", "probe", "full", "resume", "abort", "incremental", "reset", "again",
               "overwrite", "recreate", "prune", "pruning", "mirror", "done"}
    /\ seen \in DatasetStates
    /\ todo \subseteq Snapshots
    /\ resume \in BOOLEAN
    /\ refused \in BOOLEAN

-----------------------------------------------------------------------------
(* ZFS.  What running one step does to the datasets, and how it may end.    *)

Children(d) == {c \in Datasets : DatasetOrChild(c, d)}

\* What a stream that is received may make of a dataset: its snapshots are there,
\* and with -F those that are not the source's may be gone.
Received(d, flags) ==
    {[exists |-> TRUE, snapshots |-> kept \cup Source, partial |-> FALSE,
      mounted |-> zfs[d].mounted \/ "-u" \notin flags] :
        kept \in IF "-F" \in flags THEN SUBSET zfs[d].snapshots ELSE {zfs[d].snapshots}}

\* The receiver does not see what the stream holds.  A replication stream has
\* datasets below the target in it too, and with -F those that it lacks are
\* destroyed.
Replicated(d, flags) ==
    {zfs[d]} \cup Received(d, flags) \cup (IF "-F" \in flags THEN {Absent} ELSE {})

StreamInto(d, flags) ==
    LET below == Children(d) \ {d}
    IN  \E received \in Received(d, flags),
           others \in [below -> UNION {Replicated(c, flags) : c \in below}] :
          /\ \A c \in below : others[c] \in Replicated(c, flags)
          /\ zfs' = [c \in Datasets |-> IF c = d THEN received
                                       ELSE IF c \in below THEN others[c]
                                       ELSE zfs[c]]

\* A receive that fails leaves its state behind if it is resumable.
Receive(step) ==
    LET d   == step.dataset
        old == zfs[d]
    IN  \/ /\ old.snapshots \cap Clash = {}
           /\ ~old.partial \/ "-s" \in step.flags
           /\ StreamInto(d, step.flags)
           /\ outcome' = "ok"
        \/ /\ \/ UNCHANGED zfs
              \/ /\ "-s" \in step.flags
                 /\ zfs' = [zfs EXCEPT ![d].exists = TRUE, ![d].partial = TRUE]
           /\ outcome' \in {"failed", "gone"}
        \/ /\ old.partial /\ "-s" \notin step.flags
           /\ outcome' = "partial" /\ UNCHANGED zfs
        \/ /\ old.snapshots \cap Clash # {}
           /\ outcome' = "exists" /\ UNCHANGED zfs

\* A destroy may fail; without -r it does if anything depends on the dataset.
Destroy(step) ==
    \/ outcome' = "failed" /\ UNCHANGED zfs
    \/ /\ zfs[step.dataset].exists
       /\ step.snapshots # {}
       /\ zfs' = [zfs EXCEPT ![step.dataset].snapshots = @ \ step.snapshots]
       /\ outcome' = "ok"
    \/ /\ zfs[step.dataset].exists
       /\ step.snapshots = {}
       /\ "-r" \in step.flags \/
            /\ zfs[step.dataset].snapshots = {}
            /\ \A c \in Children(step.dataset) : zfs[c].exists => c = step.dataset
       /\ zfs' = [c \in Datasets |-> IF c \in Children(step.dataset) THEN Absent
                                     ELSE zfs[c]]
       /\ outcome' = "ok"

\* zfs receive -A fails if there is no state of an interrupted receive.  A dataset
\* that only the interrupted receive has made goes with the state.
AbortReceive(step) ==
    LET d == step.dataset
    IN  \/ outcome' = "failed" /\ UNCHANGED zfs
        \/ /\ zfs[d].partial
           /\ \/ zfs' = [zfs EXCEPT ![d].partial = FALSE]
              \/ /\ zfs[d].snapshots = {}
                 /\ \A c \in Children(d) : zfs[c].exists => c = d
                 /\ zfs' = [zfs EXCEPT ![d] = Absent]
           /\ outcome' = "ok"

\* The other commands only look.
Look == outcome' \in {"ok", "failed"} /\ UNCHANGED zfs

-----------------------------------------------------------------------------
(* The receiver.                                                            *)

\* Admission: a command that the policy does not admit is refused.
Send(command) ==
    IF Authorized(command, policy)
      THEN pending' = command /\ outcome' = "none" /\ UNCHANGED refused
      ELSE pending' = <<>> /\ outcome' = "failed" /\ refused' = TRUE

\* executeReceiverCommandPlan: the next pipeline; a failure ends the batch.
Execute ==
    /\ pending # <<>>
    /\ LET step == Head(pending)[Len(Head(pending))]
       IN  \/ step.name = "zfs receive" /\ step.flags # {"-A"} /\ Receive(step)
           \/ step.name = "zfs receive" /\ step.flags = {"-A"} /\ AbortReceive(step)
           \/ step.name = "zfs destroy" /\ Destroy(step)
           \/ step.name \notin {"zfs receive", "zfs destroy"} /\ Look
    /\ pending' = IF outcome' = "ok" THEN Tail(pending) ELSE <<>>
    /\ UNCHANGED <<spec, syncoid, refused>>

-----------------------------------------------------------------------------
(* Syncoid.                                                                 *)

Idle == pending = <<>>

Given(switch) == switch \in args.switches

\* compressargset: the decompressor of a method; no method, no decompressor.
Decompressor ==
    [method \in {SenderCompression(c) : c \in Compressors} |->
       CASE method = "gzip"        -> Filter("zcat", {})
         [] method = "pigz-fast"   -> Filter("pigz", {"-dc"})
         [] method = "zstd-fast"   -> Filter("zstd", {"-dc"})
         [] method = "zstdmt-fast" -> Filter("zstdmt", {"-dc"})
         [] method = "xz"          -> Filter("xz", {"-d"})
         [] method = "lzo"         -> Filter("lzop", {"-dfc"})
         [] method = "lz4"         -> Filter("lz4", {"-dc"})]

\* checkcommands: without the compressor on both sides Syncoid does not compress.
Compresses == args.compress # None /\ options.compression \in Tools

\* buildsynccmd, the part that runs at the target.
ReceiveCommand ==
    LET flags == (IF Given("--recvoptions=u") THEN {"-u"} ELSE {})
            \cup (IF resume THEN {"-s"} ELSE {})
            \cup (IF Given("--no-rollback") THEN {} ELSE {"-F"})
    IN  << <<Filter("mbuffer", {"-q", "-s", "-m"})>>
           \o (IF Compresses THEN <<Decompressor[args.compress]>> ELSE <<>>)
           \o <<MakeStep("zfs receive", flags, Target, {}, TRUE)>> >>

DestroyCommand(flags, snapshots) ==
    << <<MakeStep("zfs destroy", flags, Target, snapshots, FALSE)>> >>

\* getssh and checkcommands: what Syncoid asks once, the compressor and the pool's
\* feature only if it means to use them.
CheckQueries ==
    {<< <<Filter(name, {})>> >> : name \in {"exit", "echo"}}
    \cup {<< <<Filter("command -v", {"mbuffer"})>> >>}
    \cup (IF args.compress = None THEN {}
          ELSE {<< <<Filter("command -v", {options.compression})>> >>})
    \cup (IF Given("--no-resume") THEN {}
          ELSE {<< <<MakeStep("zpool get", {}, <<Target[1]>>, {}, FALSE)>> >>})

\* iszfsbusy, targetexists, getreceivetoken, getsnaps with its fallback, and the
\* target's size: what it asks before it decides what to send.
Queries ==
    {<< <<Filter("ps", {})>> >>}
    \cup {<< <<MakeStep("zfs get", {p}, Target, {}, FALSE)>> >> :
            p \in {"name", "guid,creation", "type,guid,creation", "used"}}
    \cup (IF resume
            THEN {<< <<MakeStep("zfs get", {"receive_resume_token"}, Target, {}, FALSE)>> >>}
            ELSE {})

\* The main program before syncdataset.  Without the feature in the pools of both
\* sides, or without an answer, Syncoid does not resume.
CheckCommands ==
    /\ at = "start" /\ Idle
    /\ IF \E q \in CheckQueries : ~Authorized(q, policy)
         THEN refused' = TRUE /\ at' = "done" /\ UNCHANGED resume
         ELSE /\ at' = "probe" /\ UNCHANGED refused
              /\ resume' \in {FALSE, ~Given("--no-resume")}
    /\ UNCHANGED <<spec, zfs, pending, outcome, seen, todo>>

\* Mutant: the list of snapshots is not emptied before the target is read again.
ObservedWithOldSnapshots == [zfs[Target] EXCEPT !.snapshots = @ \cup seen.snapshots]

\* targetexists, getreceivetoken and getsnaps of the target.
Observed == zfs[Target]

\* The beginning of syncdataset, up to the decision what to send.
Probe ==
    /\ at = "probe" /\ Idle
    /\ seen' = Observed
    /\ IF \E q \in Queries : ~Authorized(q, policy)
         THEN refused' = TRUE /\ at' = "done"
         ELSE /\ UNCHANGED refused
              /\ at' = CASE ~zfs[Target].exists -> "full"
                         [] zfs[Target].partial /\ resume -> "resume"
                         [] zfs[Target].snapshots \cap Source = {} ->
                              IF Given("--force-delete") /\ Len(Target) > 1
                                THEN "recreate" ELSE "done"
                         [] Newest \in zfs[Target].snapshots -> "done"
                         [] OTHER -> "incremental"
    /\ outcome' = "none"
    /\ UNCHANGED <<spec, zfs, pending, todo, resume>>

\* A step that sends a command and waits for its end.
Sends(place, command) ==
    /\ at = place /\ Idle /\ outcome = "none"
    /\ Send(command)
    /\ UNCHANGED <<spec, zfs, syncoid>>

SendReceive == \E place \in {"full", "resume", "incremental", "again"} :
                 Sends(place, ReceiveCommand)

\* resetreceivestate.
SendAbort == \E place \in {"abort", "reset"} :
               Sends(place, << <<MakeStep("zfs receive", {"-A"}, Target, {}, FALSE)>> >>)

\* The conflicting snapshot named in the error, and the whole target.
SendOverwrite == \E s \in seen.snapshots \cap Clash :
                   Sends("overwrite", DestroyCommand({}, {s}))
SendRecreate  == Sends("recreate", DestroyCommand({"-r"}, {}))

\* What syncdataset does next, given how the command ended.
Continue(place, ended) ==
    CASE ended = "ok" /\ place \in {"full", "incremental", "again"} -> "prune"
      [] ended = "ok" /\ place = "reset" -> "again"
      [] ended = "ok" /\ place \in {"resume", "abort", "overwrite", "recreate"} ->
           "probe"
      [] ended = "gone" /\ place = "resume" -> "abort"
      [] ended = "partial" /\ place = "incremental" /\ ~resume -> "reset"
      [] ended = "exists" /\ place = "incremental" /\ Given("--force-delete") ->
           "overwrite"
      [] OTHER -> "done"

Proceed ==
    /\ at \in {"full", "resume", "abort", "incremental", "reset", "again",
               "overwrite", "recreate"}
    /\ Idle /\ outcome # "none"
    /\ at' = Continue(at, outcome)
    /\ outcome' = "none"
    /\ UNCHANGED <<spec, zfs, pending, seen, todo, resume, refused>>

\* pruneoldsyncsnaps: the relationship's sync snapshots that it has seen.
StartPrune ==
    /\ at = "prune" /\ Idle
    /\ todo' = IF Given("--no-sync-snap") THEN {}
               ELSE {s \in seen.snapshots \ {Newest} : Owner(s) = args.identifier}
    /\ at' = "pruning"
    /\ UNCHANGED <<spec, zfs, pending, outcome, seen, resume, refused>>

\* One command destroys up to PruneBatch of them, whether they are still there or
\* not; a failure is only logged.
SendPrune ==
    /\ at = "pruning" /\ Idle /\ todo # {}
    /\ \E batch \in [1..(IF Cardinality(todo) < PruneBatch THEN Cardinality(todo)
                         ELSE PruneBatch) -> todo] :
         /\ \A i, j \in DOMAIN batch : batch[i] = batch[j] => i = j
         /\ Send([i \in DOMAIN batch |->
                    <<MakeStep("zfs destroy", {}, Target, {batch[i]}, FALSE)>>])
         /\ todo' = todo \ {batch[i] : i \in DOMAIN batch}
    /\ UNCHANGED <<spec, zfs, at, seen, resume>>

\* --delete-target-snapshots: the names that the source does not have.
EndPrune ==
    /\ at = "pruning" /\ Idle /\ todo = {}
    /\ IF Given("--delete-target-snapshots")
         THEN at' = "mirror" /\ todo' = zfs[Target].snapshots \ (Source \cup Clash)
         ELSE at' = "done" /\ UNCHANGED todo
    /\ outcome' = "none"
    /\ UNCHANGED <<spec, zfs, pending, seen, resume, refused>>

\* One destroy names up to MirrorBatch of them; a failure is only logged.
SendMirror ==
    /\ at = "mirror" /\ Idle
    /\ \E batch \in (SUBSET todo) \ {{}} :
         /\ batch = todo \/ Cardinality(batch) = MirrorBatch
         /\ Cardinality(batch) <= MirrorBatch
         /\ Send(DestroyCommand({}, batch))
         /\ todo' = todo \ batch
    /\ UNCHANGED <<spec, zfs, at, seen, resume>>

EndMirror ==
    /\ at = "mirror" /\ Idle /\ todo = {}
    /\ at' = "done"
    /\ outcome' = "none"
    /\ UNCHANGED <<spec, zfs, pending, seen, todo, resume, refused>>

-----------------------------------------------------------------------------
\* A setting of the run and a state of the target for which Syncoid sends what
\* the policy of the contract does not admit.
Disagrees ==
    [leftover |-> zfs[Target].partial /\ ~options.receiveResumable,
     clash    |-> /\ zfs[Target].snapshots \cap Clash # {}
                  /\ options.forceDelete /\ ~options.deleteTargetSnapshots,
     tool     |-> options.compression \notin Tools \cup {None}]

Init ==
    /\ spec \in {s \in Specs : s.compress \in Compressions}
    /\ \E state \in DatasetStates :
         /\ Newest \notin state.snapshots
         /\ ~state.mounted
         /\ zfs = [d \in Datasets |-> IF d = Target THEN state
                                      ELSE [Absent EXCEPT !.exists =
                                              DatasetOrChild(d, Target) => state.exists]]
    /\ \A situation \in DOMAIN Disagrees \ Drift : ~Disagrees[situation]
    /\ pending = <<>>
    /\ outcome = "none"
    /\ at = "start"
    /\ seen = Absent
    /\ todo = {}
    /\ resume = FALSE
    /\ refused = FALSE

Done == at = "done" /\ Idle /\ UNCHANGED vars

SyncoidNext ==
    \/ CheckCommands
    \/ Probe
    \/ SendReceive
    \/ SendAbort
    \/ SendOverwrite
    \/ SendRecreate
    \/ Proceed
    \/ StartPrune
    \/ SendPrune
    \/ EndPrune
    \/ SendMirror
    \/ EndMirror
    \/ Execute
    \/ Done

SyncoidSpec == Init /\ [][SyncoidNext]_vars

\* Whoever has the key of the grant: it sends commands of its own choice.
Client ==
    /\ Idle
    /\ \E command \in Commands : Send(command)
    /\ UNCHANGED <<spec, zfs, syncoid>>

ClientNext == Client \/ Execute

ClientSpec == Init /\ [][ClientNext]_vars

-----------------------------------------------------------------------------
(* Properties.                                                              *)

\* Syncoid behaviour and receive permission do not drift: the receiver refuses
\* no command that Syncoid sends with the arguments of the contract.
NothingRefused == ~refused

\* Only the target, and what is below it, ever changes.
OtherDatasetsUntouched ==
    [][\A d \in Datasets : zfs'[d] # zfs[d] => DatasetOrChild(d, Target)]_vars

\* A snapshot that the relationship does not own survives, unless the run's
\* settings ask for a rollback, for a target that may be destroyed, or for the
\* deletion of the snapshots that only the target has.
ForeignSnapshotsKept ==
    [][\A s \in zfs[Target].snapshots \ zfs'[Target].snapshots :
         \/ Owner(s) = Relationship /\ spec.noSyncSnap # "true"
         \/ spec.noRollback = "false"
         \/ spec.forceDelete = "true"
         \/ spec.deleteTargetSnapshots = "true"]_vars

\* A dataset is mounted by a receive only if the run says so.  One that exists is
\* destroyed only if the run says so, and in two more cases: giving up an
\* interrupted resumable receive takes the target with it if it has no snapshot yet,
\* and a receive that may roll back takes datasets below the target.
MountAndDestroyAsked ==
    [][\A d \in Datasets :
         /\ zfs'[d].mounted /\ ~zfs[d].mounted => spec.receiveUnmounted = "false"
         /\ zfs[d].exists /\ ~zfs'[d].exists =>
              \/ spec.forceDelete = "true"
              \/ /\ d = Target /\ zfs[d].partial /\ zfs[d].snapshots = {}
                 /\ spec.receiveResumable # "false"
              \/ d # Target /\ spec.noRollback = "false"]_vars
=============================================================================
