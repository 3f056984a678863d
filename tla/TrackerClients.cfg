\* Three clients that come and go, report and ask, while the tracker stops and restarts.
SPECIFICATION Spec
CONSTANTS
    a = a  b = b  d = d  f = f  k1 = k1  k2 = k2
    NoClient = NoClient  Gone = Gone  NoReply = NoReply
    Clients = {a, b, d}
    Files = {f}
    Conns = {k1, k2}
    Percents = {0, 50}
    Needs = {1, 20}
    MaxStops = 1
    MaxFaults = 1
SYMMETRY ClientSymmetry
INVARIANTS TypeOK OnlineHasHandler HiddenNeedsOverlap AnswerFits
PROPERTIES AnswersUsable EmptyMeansNone
CHECK_DEADLOCK FALSE
