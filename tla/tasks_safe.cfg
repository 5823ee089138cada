SPECIFICATION Spec
CONSTANTS
    Tasks = {t1, t2}
    Managers = {m1}
    Codes <- TwoCodes
    Missing = Missing
    None = None
SYMMETRY Symmetry
CHECK_DEADLOCK FALSE
INVARIANTS
    WatchedUntilDone
    DoneChanClosedOnce
    ResultIsTheCommands
    OutcomeRecorded
    StatusIsTrue
    IInv
PROPERTIES
    LifecycleSafe
