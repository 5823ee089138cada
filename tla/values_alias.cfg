SPECIFICATION Spec
CONSTANTS
    Refused = Refused
    Panic = Panic
    Usage = Usage
    MaxText = 1
    MaxLine = 1
INVARIANT
    DocumentedIsUsed
CHECK_DEADLOCK FALSE
