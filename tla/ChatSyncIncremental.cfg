SPECIFICATION Spec
CONSTANTS
    Self = chat
    NoOwner = none
    Owners = {chat}
    Paths = {"stream", "merged"}
    Outputs <- TwoOutputs
    MaxID = 2
    MaxVersion = 2
    PageSize = 2
    Options <- PlainRefresh
    MaxCrashes = 2
    MaxResets = 0
    MaxDeletes = 1
INVARIANTS TypeOK JournalDurable BoundaryCovered NoRepeats JournalResumable ReadableIsCommitted
PROPERTIES ImplementsArchive
