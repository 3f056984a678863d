\* Two peers that leave chunks unread, close, and ask for what is not there, handlers that
\* read less than a request, and fewer threads than requests.
SPECIFICATION FairSpec
CONSTANTS
    k1 = k1  k2 = k2
    Conns = {k1, k2}
    Kinds = {"chunk", "unknown", "empty", "hand"}
    Threads = 2
    Pieces = 2
    Buffer = 1
    MaxRequests = 3
    MaxTurns = 1
INVARIANTS TypeOK InStep NothingFreedUsed
PROPERTIES SocketKept ChunkArrives
CHECK_DEADLOCK FALSE
