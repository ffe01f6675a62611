SPECIFICATION ClientSpec
CONSTANTS
    Target <- MCTarget
    Datasets <- MCDatasets
    Owner <- MCOwner
    Relationship = "zrc-own"
    Source = {"own2"}
    Newest = "own2"
    TargetOnly = {"own0", "other0"}
    Clash = {}
    Compressions = {""}
    Tools = {"gzip", "lzop"}
    MaxBatch = 2
    PruneBatch = 2
    MirrorBatch = 1
    Commands <- MCCommands
    Drift = {}
PROPERTY OtherDatasetsUntouched
PROPERTY ForeignSnapshotsKept
PROPERTY MountAndDestroyAsked
