SPECIFICATION Spec
CONSTANTS
    g1 = g1
    g2 = g2
    Callers = {g1}
    Tools <- SoloTools
    Hosts = {hA, hB}
    Conns = {k1, k2, k3}
    None = None
    Root = Root
    Torn = Torn
SYMMETRY Symmetry
INVARIANTS
    LinkFollowsConfig
    StoredStateFollowsConfig
    CallCarriesItsHostsState
    SoloInv
PROPERTY
    ReplacesSameHost
