SPECIFICATION RepetitionSpec
CONSTANTS
    MaxNow = 4
    Ids = {"d1", "d2"}
    Scopes = {"s", "t"}
    Settings = {"o1", "o2"}
    Refs = {"r1"}
    MaxCrashes = 1
    MaxID = 3
    Hidden = {2}
    RecentLimit = 1
    MaxLines = 5
    MaxKills = 2
    Workers = {"w", "x"}
    Targets = {"a", "b", "c"}
    Batches <- MCBatches
    MaxChanges = 1
    MaxHalts = 1
    Accounts = {"me", "other"}
    Chats = {"c", "d"}
    MaxPosts = 2
    MaxBreaks = 1
    Lengths = {3, 6}
    LongMedia = 4
    LeadingSilence = 2
    LeadIn = 1
    Window = 4
    Overlap = 2
    Tolerance = 1
    Context = 1
    RecoveryMax = 3
    MinSpeech = 2
    Tokens = {"a", "b"}
    Others = {"x", "y"}
    Break = "/"
    Fillers <- LinesOnly
    MaxTokens = 7
    MaxGaps = 1
    MinRepeats = 2
    MinSpan = 4
    MaxBlock = 2
    Callers = {"p", "q", "r"}
    Spacing = 1
    Waits = {1, 3}
    Attempts = 3
    MaxTime = 4
    Requests = {"j", "k"}
    MaxStarts = 3
INVARIANT CutOrKept
CHECK_DEADLOCK FALSE
