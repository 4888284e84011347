SPECIFICATION Spec
CONSTANTS
    Self = chat
    NoOwner = none
    Owners = {chat}
    Paths = {"stream", "merged"}
    Outputs <- OneOutput
    MaxID = 3
    MaxVersion = 1
    PageSize = 2
    Options <- PlainLate
    MaxCrashes = 0
    MaxResets = 0
    MaxDeletes = 0
INVARIANTS BoundaryCovered
