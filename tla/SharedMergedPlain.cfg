SPECIFICATION Spec
CONSTANTS
    NoOwner = none
    MaxID = 1
    MaxVersion = 1
    PageSize = 2
    Options <- PlainOnly
    MaxCrashes = 1
    MaxResets = 0
    MaxDeletes = 0
INVARIANTS CommittedInMerged ReadableMergedIsCommitted
