SPECIFICATION Spec
CONSTANTS
    Refused = Refused
    Panic = Panic
    Usage = Usage
    MaxText = 5
    MaxLine = 4
INVARIANTS
    PagesCoverFile
    ViewedIsFound
    OutsideIsKept
    TailIsTheEnd
    MarkersRoundTrip
    GivenIsUsed
CHECK_DEADLOCK FALSE
