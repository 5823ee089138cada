SPECIFICATION FairSpec
CONSTANTS
    Ids = {t1, t2}
    Closers = {c1, c2}
    None = None
INVARIANTS
    ListedIsListening
    LoopServesUntilClosed
    IInv
PROPERTIES
    BookSpec
    ClosedLoopsEnd
    ClosesReturn
