SPECIFICATION Spec
CHECK_DEADLOCK FALSE
CONSTANTS
    Sessions = {"a"}
    Requests = {"r"}
    MaxDevices = 2
    MaxRestarts = 0
INVARIANT CallsUseClient
