SPECIFICATION FairSpec
CONSTANTS
    Tasks = {t1}
    Managers = {m1, m2}
    Codes <- TwoCodes
    Missing = Missing
    None = None
CHECK_DEADLOCK FALSE
PROPERTIES
    LifecycleSpec
    RunReturns
    KilledIsDone
