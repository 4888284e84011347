SPECIFICATION Spec
CONSTANTS
    NumDialogs = 2
    MaxDay = 2
    MaxMessages = 3
    MaxTroubles = 0
    DialogPage = 1
    PageSize = 2
    Options <- Catchups
    CalmListing = FALSE
INVARIANT ReportsComplete
