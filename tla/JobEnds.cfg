\* One run of a job that nobody interrupts, with a failure, a tracker that may name
\* nobody, and peers that may lack a chunk.
SPECIFICATION FairSpec
CONSTANTS
    c1 = c1  c2 = c2  c3 = c3  o1 = o1  o2 = o2  w1 = w1  w2 = w2  f1 = f1  f2 = f2
    NoChunk = NoChunk  NoOwner = NoOwner  NoFile = NoFile
    Files = {f1}
    Chunks = {c1, c2}
    FileOf <- OneFile
    Owners = {o1, o2}
    Offers <- SomeOffers
    Workers = {w1, w2}
    MaxConn = 2
    RareCount = 2
    Pieces = 1
    CanExceed = TRUE
    FaultKinds = {"tracker", "connect", "grow", "shake", "request", "content", "close"}
    MaxFaults = 1
    Allowed = {"start"}
    MaxCmds = 1
INVARIANTS CopyUndisturbed
 
CHECK_DEADLOCK FALSE
