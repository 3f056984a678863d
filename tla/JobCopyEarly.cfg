\* One failed fetch: the copies are made too early.
SPECIFICATION Spec
CONSTANTS
    c1 = c1  c2 = c2  c3 = c3  o1 = o1  o2 = o2  w1 = w1  w2 = w2  f1 = f1  f2 = f2
    NoChunk = NoChunk  NoOwner = NoOwner  NoFile = NoFile
    Files = {f1}
    Chunks = {c1, c2}
    FileOf <- OneFile
    Owners = {o1, o2}
    Offers <- AllOffers
    Workers = {w1, w2}
    MaxConn = 1
    RareCount = 2
    Pieces = 1
    CanExceed = FALSE
    FaultKinds = {"tracker", "connect", "grow", "shake", "request", "content", "close"}
    MaxFaults = 1
    Allowed = {"start"}
    MaxCmds = 1
SYMMETRY ThreadSymmetry
INVARIANTS CopyAfterComplete
CHECK_DEADLOCK FALSE
