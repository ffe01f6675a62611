--------------------------- MODULE MCSyncoidSession ---------------------------
(***************************************************************************)
(* SyncoidSession for TLC: the names, and a client that sends any of a     *)
(* universe of commands.                                                   *)
(***************************************************************************)
EXTENDS SyncoidSession

MCTarget   == <<"tank", "a">>
MCDatasets == {<<"tank">>, MCTarget, <<"tank", "a", "b">>}

\* own0 to own2 are sync snapshots of the relationship, other0 is one of another
\* relationship with the same target; the clash has the name of a source snapshot.
MCOwner(s) == CASE s \in {"own0", "own1", "own2"} -> "zrc-own"
                [] s = "other0" -> "zrc-other"
                [] OTHER -> "user"

\* Receives with every set of options, destroys of datasets and of snapshots, the
\* check of the pool's feature, and batches of two destroys, for every dataset.
ClientReceives ==
    {<< <<MakeStep("zfs receive", flags, d, {}, FALSE)>> >> :
       flags \in SUBSET {"-u", "-s", "-F"} \cup {{"-A"}}, d \in Datasets}

ClientDestroys ==
    {<<MakeStep("zfs destroy", flags, d, snapshots, FALSE)>> :
       flags \in {{}, {"-r"}}, d \in Datasets, snapshots \in SUBSET Snapshots}

ClientBatches ==
    {<<d, e>> : d \in {c \in ClientDestroys : c[1].dataset = Target /\
                                              Cardinality(c[1].snapshots) < 2},
                e \in {c \in ClientDestroys : c[1].flags = {} /\
                                              Cardinality(c[1].snapshots) = 1}}

MCCommands == ClientReceives \cup {<<d>> : d \in ClientDestroys} \cup ClientBatches
              \cup {<< <<MakeStep("zpool get", {}, <<Target[1]>>, {}, FALSE),
                          MakeStep("grep", {}, <<>>, {}, TRUE)>> >>}
=============================================================================
