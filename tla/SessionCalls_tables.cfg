SPECIFICATION TablesSpec
CONSTANTS
    Calls = {c1}
    Operators = {o1, o2}
    NoOwner = NoOwner
    Requests = {r1, r2}
    NoCall = NoCall
    NoRecord = NoRecord
    Legs = {"web", "ws"}
    RTC = {"web"}
    NoLeg = NoLeg
    MaxTakes = 2
    MaxBusy = 2
CHECK_DEADLOCK FALSE
INVARIANTS
    
    NoneLost
    OpenIsAttached
    DropEndsCall
    
    
