\* One job of three chunks whose network, tracker and peers fail.
SPECIFICATION Spec
CONSTANTS
    c1 = c1  c2 = c2  c3 = c3  o1 = o1  o2 = o2  w1 = w1  w2 = w2  f1 = f1  f2 = f2
    NoChunk = NoChunk  NoOwner = NoOwner  NoFile = NoFile
    Files = {f1}
    Chunks = {c1,c2,c3}
    FileOf <- ThreeChunks
    Owners = {o1, o2}
    Offers <- MostOffers
    Workers = {w1, w2}
    MaxConn = 2
    RareCount = 2
    Pieces = 1
    CanExceed = FALSE
    FaultKinds = {"tracker", "connect", "grow", "shake", "request", "content", "close"}
    MaxFaults = 1
    Allowed = {"start"}
    MaxCmds = 2
SYMMETRY ChunkSymmetry
INVARIANTS TypeOK OnePlace DoneIsWritten SockExclusive LossIsLeak ClientsConnected PoolHasRoom
           MissedNeedsDead
PROPERTIES NoOwnerLast LedgerSpec
CHECK_DEADLOCK FALSE
