\* A job's thread and the report routine on one socket, reads of any length.
SPECIFICATION FairSpec
CONSTANTS
    job = job  other = other
    Threads = {job, other}
    Queriers = {job}
    Handler = Handler
    Blank = Blank  Nothing = Nothing
    Longest = 2
    MaxAsks <- Twice
INVARIANTS TypeOK OwnersAreAnswers
PROPERTIES ExchangeProceeds ExchangeEnds LinkIsCall
CHECK_DEADLOCK FALSE
