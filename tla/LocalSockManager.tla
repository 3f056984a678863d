-------------------------- MODULE LocalSockManager --------------------------
(***************************************************************************)
(* The list of connections LocalSockManager keeps for one peer             *)
(* (local_sock_manager.cc).  A list is a sequence that only ever grows: no *)
(* function of the class removes a socket.  The module has no state: its   *)
(* operators relate a list to the list an operation leaves.                *)
(*                                                                         *)
(* health is the state of the connection behind the socket:                *)
(*   "ok"      in step with the peer's handler                             *)
(*   "dirty"   bytes of an abandoned chunk are still unread                *)
(*   "closed"  the peer has closed it, and this side has not noticed       *)
(*   "reset"   this side has noticed: peerAddress() throws                 *)
(*   "null"    the null pointer get_idle_client_sock stores when           *)
(*             make_connection fails                                       *)
(***************************************************************************)
EXTENDS Naturals, Sequences

CONSTANT MaxConn      \* MAX_CONNECTION_PER_CLIENT (10 in the code)

ASSUME MaxConnAssumption == MaxConn \in Nat \ {0}

Health == {"ok", "dirty", "closed", "reset", "null"}
Broken == {"closed", "reset"}
Sock   == [st : {"IDLE", "USED"}, health : Health]

IsConnected(list) == list # << >>

IsIdle(list, i) == i \in DOMAIN list /\ list[i].st = "IDLE"

\* find_if with IdleSockSelector: the first idle socket of the list.
IsFirstIdle(list, i) == IsIdle(list, i) /\ \A j \in 1..(i - 1) : ~IsIdle(list, j)

NoneIdle(list) == \A i \in DOMAIN list : ~IsIdle(list, i)

\* get_idle_client_sock may open one more connection.
MayGrowTight(list) == NoneIdle(list) /\ list # << >> /\ Len(list) < MaxConn
MayGrow(list)      == NoneIdle(list) /\ list # << >> /\ Len(list) <= MaxConn

\* It asks the first socket for the peer's address, which throws after a reset.
NoAddress(list) == list[1].health = "reset"

\* get_idle_client_sock returns null and changes nothing.
Exhausted(list) == NoneIdle(list) /\ ~MayGrow(list)

SetNoStatus(list, i, st)   == list
SetStatus(list, i, st)     == [list EXCEPT ![i].st = st]
SetHealth(list, i, health) == [list EXCEPT ![i].health = health]

\* connect_client's push_back of an idle socket.
Connect(list) == Append(list, [st |-> "IDLE", health |-> "ok"])

\* get_idle_client_sock's push_back, null when make_connection failed.
Grow(list, health) == Append(list, [st |-> "USED", health |-> health])

\* get_payload_percentage as a rank: the code divides the length by MaxConn
\* and answers 100, more than any quotient, for a peer without a list.
Payload(list) == IF list = << >> THEN 100 * MaxConn ELSE Len(list)
=============================================================================
