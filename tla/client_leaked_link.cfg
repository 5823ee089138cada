SPECIFICATION Spec
CONSTANTS
    g1 = g1
    g2 = g2
    Callers = {g1, g2}
    Tools <- SharedTools
    Hosts = {hA}
    Conns = {k1, k2}
    None = None
    Root = Root
    Torn = Torn
SYMMETRY Symmetry
INVARIANT
    NoLeakedConnection
