SPECIFICATION Spec
CHECK_DEADLOCK FALSE
CONSTANTS
    Sessions = {"a", "b"}
    Requests = {"r"}
    MaxDevices = 2
    MaxRestarts = 1
  
PROPERTY Remembered
