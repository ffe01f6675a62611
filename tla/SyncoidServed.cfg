SPECIFICATION SyncoidSpec
CONSTANTS
    Target <- MCTarget
    Datasets <- MCDatasets
    Owner <- MCOwner
    Relationship = "zrc-own"
    Source = {"own1", "own2"}
    Newest = "own2"
    TargetOnly = {"own0", "user0", "clash0"}
    Clash = {"clash0"}
    Compressions = {"", "gzip", "lzop"}
    Tools = {"gzip", "lzop"}
    MaxBatch = 2
    PruneBatch = 2
    MirrorBatch = 1
    Commands = {}
    Drift = {}
INVARIANT TypeOK
INVARIANT NothingRefused
