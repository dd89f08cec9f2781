SPECIFICATION Spec
CHECK_DEADLOCK FALSE
CONSTANTS
    Writers = {"w1", "w2"}
    Browsers = {"b1"}
    ChannelCap = 2
    MaxChanges = 3
    MaxVisits = 1
    QueueCap = 2
    MaxAttempts = 3
    MaxEvents = 4
    Records <- MCRecords
    Session = "a"
    Limit = 2
    HistoryCap = 4
    Limits <- MCLimits
INVARIANTS
    
    DeliveredInOrder
    PagesAreComplete
    PurgeGivesNothing
PROPERTY HooksSettle
