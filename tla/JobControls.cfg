\* One job whose user stops, pauses, resumes and removes it; nothing else fails.
SPECIFICATION RemovalSpec
CONSTANTS
    c1 = c1  c2 = c2  c3 = c3  o1 = o1  o2 = o2  w1 = w1  w2 = w2  f1 = f1  f2 = f2
    NoChunk = NoChunk  NoOwner = NoOwner  NoFile = NoFile
    Files = {f1, f2}
    Chunks = {c1, c2}
    FileOf <- TwoFiles
    Owners = {o1}
    Offers <- AllOffers
    Workers = {w1, w2}
    MaxConn = 2
    RareCount = 2
    Pieces = 2
    CanExceed = TRUE
    FaultKinds = {"tracker", "connect", "grow", "shake", "request", "content", "close"}
    MaxFaults = 0
    Allowed = {"start", "resume", "stop", "pause", "remove"}
    MaxCmds = 4
PROPERTIES RemovedEnds
CHECK_DEADLOCK FALSE
