SPECIFICATION Spec
CONSTANTS
    Tasks = {t1}
    Managers = {m1}
    Codes <- TwoCodes
    Missing = Missing
    None = None
CHECK_DEADLOCK FALSE
INVARIANTS
    ReportedCodeIsTheCommands
