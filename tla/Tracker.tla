------------------------------ MODULE Tracker ------------------------------
(***************************************************************************)
(* The tracker: its connection handlers, which one reactor thread runs one *)
(* request at a time, and the two database tables they keep.  The tables   *)
(* outlive the process; the handlers do not.                               *)
(*                                                                         *)
(* A client talks to the tracker over one connection, which it opens when  *)
(* it starts and never opens again.  It sends its own identity in every    *)
(* message, and asks for owners as Job::request_clients does.              *)
(***************************************************************************)
EXTENDS Integers, Sequences, FiniteSets

CONSTANTS
    Clients, Files,
    Conns,          \* connections that may exist
    Percents,       \* the percentages clients report
    Needs,          \* values of NeedCount
    MaxStops,       \* bound: how often the tracker stops
    MaxFaults,      \* bound: how often a statement or a message fails
    NoClient,       \* no identity yet, and the far end of a closed connection
    Gone,           \* no handler
    NoReply

ASSUME SetsAssumption ==
    /\ IsFiniteSet(Clients) /\ NoClient \notin Clients /\ Gone \notin Clients \cup {NoClient}
    /\ Percents \subseteq 0..100 /\ Needs \subseteq Nat \ {0}
ASSUME BoundsAssumption == MaxStops \in Nat /\ MaxFaults \in Nat

NoRow == -1

VARIABLES
    up,         \* the tracker process runs
    handler,    \* TrackerConnectionHandler::clientid of a connection, or Gone
    link,       \* the client at the far end of a connection
    isonline,   \* CLIENTINFO: the column ISONLINE of a client, or NoRow
    owner,      \* FILEOWNERINFO: the percentage of a file and a client
    known,      \* JobInfo::ownerInfoMap of the clients: the names in a list
    reply,      \* the QueryPeer the last step answered, and the answer
    left,       \* history: the clients that were online when the tracker stopped
    overlap,    \* history: the clients that logged in over another connection
    refused,    \* history: the clients whose login the database refused
    stops, faults

dbVars == <<isonline, owner>>
histVars == <<left, overlap, refused>>
vars == <<up, handler, link, dbVars, known, reply, histVars, stops, faults>>

Online == {c \in Clients : isonline[c] = 1}

Init ==
    /\ up = TRUE
    /\ handler = [k \in Conns |-> Gone] /\ link = [k \in Conns |-> NoClient]
    /\ isonline = [c \in Clients |-> NoRow]
    /\ owner = [f \in Files |-> [c \in Clients |-> NoRow]]
    /\ known = [c \in Clients |-> [f \in Files |-> {}]]
    /\ reply = NoReply
    /\ left = {} /\ overlap = {} /\ refused = {}
    /\ stops = 0 /\ faults = 0

Fault == faults < MaxFaults /\ faults' = faults + 1

NoAnswer == reply' = NoReply

\* A connection whose client has logged in and waits for nothing.
Session(k) == up /\ link[k] \in Clients /\ handler[k] = link[k]
-----------------------------------------------------------------------------
(* Connections.                                                            *)

\* A client starts: it connects, with nothing known of any owner.
Connect(k, c) ==
    /\ up /\ handler[k] = Gone /\ \A j \in Conns : link[j] # c
    /\ handler' = [handler EXCEPT ![k] = NoClient]
    /\ link' = [link EXCEPT ![k] = c]
    /\ known' = [known EXCEPT ![c] = [f \in Files |-> {}]]
    /\ NoAnswer /\ UNCHANGED <<up, dbVars, histVars, stops, faults>>

\* The client ends, cleanly or not: its end of the connection closes.
Disconnect(k) ==
    /\ link[k] \in Clients /\ link' = [link EXCEPT ![k] = NoClient]
    /\ NoAnswer /\ UNCHANGED <<up, handler, dbVars, known, histVars, stops, faults>>

\* UPDATE ... SET ISONLINE = 0 WHERE CLIENTID = c: no row has the empty identity.
RemoveNobody(c)     == isonline
RemoveOnlineUser(c) == [x \in Clients |-> IF x = c /\ isonline[x] = 1 THEN 0 ELSE isonline[x]]

\* onReadable's error path.  A closed connection leads to it only when the
\* header length, which is read uninitialised, passes the assertion of
\* NetPack::receiveFrom; otherwise the handler stays as it is, and onReadable
\* runs again.  A message that is cut off, or a reply that cannot be sent,
\* leads to it too.
Drop(k) ==
    /\ up /\ handler[k] # Gone
    /\ \/ link[k] = NoClient /\ UNCHANGED faults
       \/ link[k] \in Clients /\ Fault
    /\ isonline' = RemoveOnlineUser(handler[k])
    /\ handler' = [handler EXCEPT ![k] = Gone] /\ link' = [link EXCEPT ![k] = NoClient]
    /\ NoAnswer /\ UNCHANGED <<up, owner, known, histVars, stops>>

\* ~TrackerConnectionHandler: the last copy of the socket closes it.
LinksStay   == link
LinksClosed == [k \in Conns |-> NoClient]

\* The reactor stops and onShutdown deletes every handler; the rows stay.
Stop ==
    /\ up /\ stops < MaxStops /\ stops' = stops + 1 /\ up' = FALSE
    /\ handler' = [k \in Conns |-> Gone] /\ link' = LinksClosed
    /\ left' = Online
    /\ NoAnswer /\ UNCHANGED <<dbVars, known, overlap, refused, faults>>

Start ==
    /\ ~up /\ up' = TRUE
    /\ NoAnswer /\ UNCHANGED <<handler, link, dbVars, known, histVars, stops, faults>>
-----------------------------------------------------------------------------
(* Requests.                                                               *)

\* INSERT ... ON DUPLICATE KEY UPDATE ... ISONLINE=1, for a new or an old row.
SetOnlineOnce(c) == [isonline EXCEPT ![c] = IF @ = NoRow THEN 1 ELSE @]
SetOnline(c)     == [isonline EXCEPT ![c] = 1]

\* HandleLogin takes over the identity in the message before it is stored, and keeps
\* it when the statement fails.
Login(k) ==
    /\ up /\ link[k] \in Clients /\ handler[k] = NoClient
    /\ handler' = [handler EXCEPT ![k] = link[k]]
    /\ \/ /\ isonline' = SetOnline(link[k]) /\ left' = left \ {link[k]}
          /\ overlap' = IF \E j \in Conns \ {k} : handler[j] = link[k]
                        THEN overlap \cup {link[k]} ELSE overlap \ {link[k]}
          /\ refused' = refused \ {link[k]} /\ UNCHANGED faults
       \/ Fault /\ refused' = refused \cup {link[k]} /\ UNCHANGED <<isonline, left, overlap>>
    /\ NoAnswer /\ UNCHANGED <<up, link, owner, known, stops>>

\* A client logs out at the end of its main, before its connection closes.
Logout(k) ==
    /\ Session(k) /\ isonline' = RemoveOnlineUser(link[k])
    /\ link' = [link EXCEPT ![k] = NoClient]
    /\ NoAnswer /\ UNCHANGED <<up, handler, owner, known, histVars, stops, faults>>

\* update_file_owner_info inserts a row or overwrites its percentage.
ReportProgress(k, f, p) ==
    /\ Session(k) /\ owner' = [owner EXCEPT ![f][link[k]] = p]
    /\ NoAnswer /\ UNCHANGED <<up, handler, link, isonline, known, histVars, stops, faults>>

\* insert_file_owner_info fails on a row that exists, and the row stays.
PublishResource(k, f) ==
    /\ Session(k) /\ owner[f][link[k]] = NoRow
    /\ owner' = [owner EXCEPT ![f][link[k]] = 100]
    /\ NoAnswer /\ UNCHANGED <<up, handler, link, isonline, known, histVars, stops, faults>>

\* The rows of a search: online owners of the file that are not excluded.
RowsAnyone(f, excluded) == {c \in Clients \ excluded : owner[f][c] # NoRow}
Rows(f, excluded)       == {c \in Online \ excluded : owner[f][c] # NoRow}

\* The loop moves to the next row before it reads one: the first row is skipped
\* and the last one read twice, unless it is the only one.
ReadBefore(rows) == IF rows = << >> THEN << >> ELSE Tail(rows)
ReadRows(rows)   == IF Len(rows) <= 1 THEN rows ELSE Append(Tail(rows), rows[Len(rows)])

\* search_percentage_raw: at most need rows, in the order of the database.
NoLimit(need, rows) == Cardinality(rows)
Limit(need, rows)   == IF need < Cardinality(rows) THEN need ELSE Cardinality(rows)

Search(rows, need) ==
    LET n == Limit(need, rows)
    IN {ReadRows(s) : s \in {t \in [1..n -> rows] :
                                \A i, j \in 1..n : t[i] = t[j] => i = j}}

\* Tracker::RequestClients: those ahead, then the others for what is still needed.
RequestClients(rows, f, p, need) ==
    LET ahead  == {c \in rows : owner[f][c] > p}
        behind == rows \ ahead
    IN UNION {IF Len(a) < need /\ p > 0
              THEN {a \o b : b \in Search(behind, need - Len(a))}
              ELSE {a} : a \in Search(ahead, need)}

\* HandleRequestPeer excludes the owners the client names and the client.
ExcludedNoSelf(c, owned) == owned
Excluded(c, owned)       == owned \cup {c}

\* Job::request_clients: the answer replaces the list, unless it is empty.
RequestPeer(k, f, p, need) ==
    /\ Session(k)
    /\ LET c == link[k] IN
       \E list \in RequestClients(Rows(f, Excluded(c, known[c][f])), f, p, need) :
          /\ reply' = [asker |-> c, file |-> f, percentage |-> p, need |-> need,
                       list |-> list]
          /\ known' = IF list = << >> THEN known
                      ELSE [known EXCEPT ![c][f] = {list[i] : i \in DOMAIN list}]
    /\ UNCHANGED <<up, handler, link, dbVars, histVars, stops, faults>>

Handle(k) ==
    \/ Drop(k) \/ Login(k) \/ Logout(k)
    \/ \E f \in Files :
          \/ PublishResource(k, f)
          \/ \E p \in Percents : \/ ReportProgress(k, f, p)
                                 \/ \E need \in Needs : RequestPeer(k, f, p, need)

Next == \/ \E k \in Conns : Handle(k) \/ Disconnect(k) \/ \E c \in Clients : Connect(k, c)
        \/ Stop \/ Start

Spec == Init /\ [][Next]_vars
=============================================================================
