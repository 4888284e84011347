SPECIFICATION Spec
CONSTANTS
    NumDialogs = 2
    MaxDay = 3
    MaxMessages = 3
    MaxTroubles = 1
    DialogPage = 1
    PageSize = 2
    Options <- WholeDays
    CalmListing = TRUE
INVARIANTS ReportsComplete CheckpointHonest
PROPERTIES ReportsInOrder
