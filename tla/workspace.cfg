SPECIFICATION BootedSpec
CONSTANTS
    Callers = {g1}
    Tools = {"disconnect"}
    Links = {l1}
    Hosts = {hA}
    Conns = {k1, k2}
    Ids = {t1}
    None = None
    Root = Root
    Torn = Torn
INVARIANTS
    WaitsInOrder
    IInv
PROPERTIES
    CallsReturn
    ForwardingEnds
