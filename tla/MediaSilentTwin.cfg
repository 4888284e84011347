SPECIFICATION Spec
CONSTANTS
    Callers <- TwoCallers
    Tasks <- SixTasks
    Large = {"d"}
    None = "none"
    Driver = "walk"
    Pages <- TwoPages
    Key <- Keyed
    Extra <- OneExtra
    Earlier <- SomeCached
    QueueCapacity = 1
    Modes = {"stream", "daily"}
INVARIANT VoicesExplained
