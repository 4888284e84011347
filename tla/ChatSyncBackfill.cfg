SPECIFICATION Spec
CONSTANTS
    Self = chat
    NoOwner = none
    Owners = {chat}
    Paths = {"stream", "merged"}
    Outputs <- OneOutput
    MaxID = 3
    MaxVersion = 1
    PageSize = 2
    Options <- Unreconciled
    MaxCrashes = 2
    MaxResets = 1
    MaxDeletes = 0
INVARIANTS BackfillCovered ReadableIsComplete
ACTION_CONSTRAINT ResetEarly
CHECK_DEADLOCK FALSE
