SPECIFICATION MCSpec
CONSTANTS
    Self = chat
    NoOwner = none
    Owners = {chat}
    Paths = {"stream", "merged"}
    Outputs <- TwoOutputs
    MaxID = 2
    MaxVersion = 1
    PageSize = 1
    Options <- Mixed
    MaxCrashes = 1
    MaxResets = 1
    MaxDeletes = 0
    Posts = {"a", "b", "c"}
    Topic = "topic"
    Manifests <- MCManifests
    Worlds <- MCWorlds
    MaxInterrupts = 2
    Items <- MCItems
    Zips = {"z"}
    MaxTrouble = 2
    Peers <- MCPeers
    MaxEdits = 2
    MaxStops = 2
    Payloads = {"text", "file", "audio", "video"}
    ReadTries = 3
INVARIANTS
    AtMostOnce
    ReceiptsInOrder
    OneRequestPerReplacement
    NoHastyVerified
    SavedOnce
PROPERTIES
    PendingIsFinished
    CatchesUp
    FolderKept
    UpdateConverges
ACTION_CONSTRAINT ResetFirst
CHECK_DEADLOCK FALSE
