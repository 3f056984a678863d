--------------------------- MODULE ChunkSelector ---------------------------
(***************************************************************************)
(* The entries of the chunk queue of a download (chunk_selector.cc).       *)
(*                                                                         *)
(* A ChunkInfo names a chunk, says how it came into the queue, and carries *)
(* the owners that could serve it and a priority, both computed once, when *)
(* the entry is built.  The module has no state: Job keeps the queue.      *)
(***************************************************************************)
EXTENDS Integers, FiniteSets

CONSTANT RareCount    \* fewer owners than this make a chunk rare (5 in the code)

ASSUME RareCountAssumption == RareCount \in 1..10

\* ChunkSelector::Priority
HIGHEST     == 20
NORMAL      == 10
UNAVAILABLE == 0

\* The statuses of ChunkStatus that are ever assigned.
ChunkStatus == {"FREE", "FAILED", "NOOWNER"}

\* The baseline each report function hands to get_priority.
FlatBaseline == [FREE |-> 0, FAILED |-> 0 - NORMAL, NOOWNER |-> 0 - NORMAL]
Baseline     == [FREE |-> 0, FAILED |-> 0 - NORMAL, NOOWNER |-> 0 - HIGHEST]

\* get_priority for a chunk that n owners hold: rare chunks first.
Rarity(n) == IF n = 0 THEN UNAVAILABLE
             ELSE IF n < RareCount THEN HIGHEST - n
             ELSE NORMAL

Priority(n, status) == Rarity(n) + Baseline[status]

\* A ChunkInfo for chunk c, built when the owners in clients hold c.
ChunkInfo(c, status, clients) ==
    [chunk    |-> c,
     status   |-> status,
     clients  |-> clients,
     priority |-> Priority(Cardinality(clients), status)]

\* The entries the priority queue may return first; equal ones in any order.
Top(queue) == {e \in queue : \A x \in queue : x.priority <= e.priority}
=============================================================================
