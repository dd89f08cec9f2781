SPECIFICATION Spec
CONSTANTS
    Calls = {c1}
    Operators = {o1, o2}
    NoOwner = NoOwner
    Requests = {r1, r2}
    NoCall = NoCall
    NoRecord = NoRecord
CHECK_DEADLOCK FALSE
INVARIANT EndedNotListed
