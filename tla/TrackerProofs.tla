---------------------------- MODULE TrackerProofs ----------------------------
(***************************************************************************)
(* Who is online, and what an answer names, for any number of clients,     *)
(* connections, restarts of the tracker and failures.                      *)
(***************************************************************************)
EXTENDS TrackerProperties, FiniteSetTheorems, TLAPS

\* The part of the type that the sessions depend on.
SessionTypes ==
    /\ handler \in [Conns -> Clients \cup {NoClient, Gone}]
    /\ link \in [Conns -> Clients \cup {NoClient}]
    /\ isonline \in [Clients -> {NoRow, 0, 1}]

\* A client has one live connection.
OneLink == \A j, k \in Conns : link[j] = link[k] /\ link[k] \in Clients => j = k

\* A tracker that is down has no handlers.
DownHasNone == ~up => \A k \in Conns : handler[k] = Gone

\* Another handler of a client that has a session is one its login came too early
\* for: when it goes, it takes the client offline.
EarlierHandler ==
    \A j, k \in Conns : Session(k) /\ j # k /\ handler[j] = link[k]
                        => link[k] \in overlap \cup refused

IInv ==
    /\ SessionTypes /\ OneLink /\ DownHasNone /\ EarlierHandler
    /\ OnlineHasHandler /\ HiddenNeedsOverlap

USE DEF SessionTypes, DownHasNone, IInv

LEMMA InitInv == Init => IInv
  BY SetsAssumption
  DEF Init, OneLink, EarlierHandler, OnlineHasHandler, HiddenNeedsOverlap, Online, NoRow,
      Session

\* Steps that touch neither a connection nor the table of clients.
LEMMA QuietInv ==
    ASSUME IInv, UNCHANGED <<up, handler, link, isonline, histVars>>
    PROVE  IInv'
  BY DEF histVars, OneLink, EarlierHandler, OnlineHasHandler, HiddenNeedsOverlap, Online,
         Session

LEMMA ConnectInv ==
    ASSUME IInv, NEW k \in Conns, NEW c \in Clients, Connect(k, c)
    PROVE  IInv'
<1>1. /\ up /\ handler[k] = Gone /\ \A j \in Conns : link[j] # c
      /\ handler' = [handler EXCEPT ![k] = NoClient] /\ link' = [link EXCEPT ![k] = c]
      /\ UNCHANGED <<up, isonline, left, overlap, refused>>
  BY DEF Connect, dbVars, histVars
<1>2. SessionTypes'
  BY <1>1
<1>3. OneLink'
  BY <1>1, SetsAssumption DEF OneLink
<1>4. \A j \in Conns : handler'[j] \in Clients => j # k /\ handler'[j] = handler[j]
  BY <1>1, SetsAssumption
<1>5. \A j \in Conns : Session(j)' => Session(j) /\ j # k /\ link'[j] = link[j]
  BY <1>1, <1>4 DEF Session
<1>6. EarlierHandler'
  <2> SUFFICES ASSUME NEW i \in Conns, NEW j \in Conns, Session(j)', i # j,
                      handler'[i] = link'[j]
               PROVE  link'[j] \in (overlap \cup refused)'
    BY DEF EarlierHandler
  <2>1. Session(j) /\ link'[j] = link[j] /\ link[j] \in Clients
    BY <1>5 DEF Session
  <2>2. handler[i] = link[j]
    BY <1>4, <2>1
  <2>3. QED
    BY <1>1, <2>1, <2>2 DEF EarlierHandler
<1>7. OnlineHasHandler'
  BY <1>1, SetsAssumption DEF OnlineHasHandler, Online
<1>8. HiddenNeedsOverlap'
  BY <1>1, <1>5 DEF HiddenNeedsOverlap, Online
<1>9. DownHasNone'
  BY <1>1
<1>10. QED
  BY <1>2, <1>3, <1>9, <1>6, <1>7, <1>8

LEMMA DisconnectInv ==
    ASSUME IInv, NEW k \in Conns, Disconnect(k)
    PROVE  IInv'
<1>1. /\ link' = [link EXCEPT ![k] = NoClient]
      /\ UNCHANGED <<up, handler, isonline, left, overlap, refused>>
  BY DEF Disconnect, dbVars, histVars
<1>2. \A j \in Conns : Session(j)' => Session(j) /\ link'[j] = link[j]
  BY <1>1, SetsAssumption DEF Session
<1>3. SessionTypes' /\ OneLink'
  BY <1>1, SetsAssumption DEF OneLink
<1>4. EarlierHandler' /\ OnlineHasHandler' /\ HiddenNeedsOverlap'
  BY <1>1, <1>2 DEF EarlierHandler, OnlineHasHandler, HiddenNeedsOverlap, Online
<1>5. DownHasNone'
  BY <1>1
<1>6. QED
  BY <1>3, <1>4, <1>5

\* A handler that goes takes its client offline: if another handler has a session of
\* the client, the client logged in while this handler was there.
LEMMA DropInv ==
    ASSUME IInv, NEW k \in Conns, Drop(k)
    PROVE  IInv'
<1>1. /\ up /\ handler[k] # Gone
      /\ isonline' = RemoveOnlineUser(handler[k])
      /\ handler' = [handler EXCEPT ![k] = Gone] /\ link' = [link EXCEPT ![k] = NoClient]
      /\ UNCHANGED <<up, left, overlap, refused>>
  BY DEF Drop, histVars
<1>2. SessionTypes'
  BY <1>1 DEF RemoveOnlineUser
<1>3. \A c \in Clients : c \in Online' <=> c \in Online /\ c # handler[k]
  BY <1>1 DEF RemoveOnlineUser, Online, NoRow
<1>4. \A j \in Conns : Session(j)' => Session(j) /\ j # k /\ link'[j] = link[j]
  BY <1>1, SetsAssumption DEF Session
<1>5. OneLink'
  BY <1>1, SetsAssumption DEF OneLink
<1>6. \A j \in Conns : handler'[j] \in Clients => handler'[j] = handler[j]
  BY <1>1, SetsAssumption
<1>7. EarlierHandler'
  <2> SUFFICES ASSUME NEW i \in Conns, NEW j \in Conns, Session(j)', i # j,
                      handler'[i] = link'[j]
               PROVE  link'[j] \in (overlap \cup refused)'
    BY DEF EarlierHandler
  <2>1. Session(j) /\ link'[j] = link[j] /\ link[j] \in Clients
    BY <1>4 DEF Session
  <2>2. handler[i] = link[j]
    BY <1>6, <2>1
  <2>3. QED
    BY <1>1, <2>1, <2>2 DEF EarlierHandler
<1>8. OnlineHasHandler'
  BY <1>1, <1>3 DEF OnlineHasHandler, Online
<1>9. HiddenNeedsOverlap'
  <2> SUFFICES ASSUME NEW j \in Conns, Session(j)'
               PROVE  link'[j] \in (Online \cup overlap \cup refused)'
    BY DEF HiddenNeedsOverlap
  <2>1. Session(j) /\ j # k /\ link'[j] = link[j] /\ link[j] \in Clients
    BY <1>4 DEF Session
  <2>2. CASE handler[k] = link[j]
    BY <1>1, <2>1, <2>2 DEF EarlierHandler
  <2>3. CASE handler[k] # link[j]
    BY <1>1, <1>3, <2>1, <2>3 DEF HiddenNeedsOverlap
  <2>4. QED
    BY <2>2, <2>3
<1>10. DownHasNone'
  BY <1>1
<1>11. QED
  BY <1>10, <1>2, <1>5, <1>7, <1>8, <1>9

LEMMA LoginInv ==
    ASSUME IInv, NEW k \in Conns, Login(k)
    PROVE  IInv'
<1> DEFINE c == link[k]
<1>1. /\ up /\ c \in Clients /\ handler[k] = NoClient
      /\ handler' = [handler EXCEPT ![k] = c] /\ UNCHANGED <<up, link>>
  BY DEF Login
<1>2. \/ /\ isonline' = [isonline EXCEPT ![c] = 1] /\ left' = left \ {c}
         /\ overlap' = IF \E j \in Conns \ {k} : handler[j] = c
                       THEN overlap \cup {c} ELSE overlap \ {c}
         /\ refused' = refused \ {c}
      \/ UNCHANGED <<isonline, left, overlap>> /\ refused' = refused \cup {c}
  BY DEF Login, SetOnline
<1>3. SessionTypes' /\ OneLink'
  BY <1>1, <1>2 DEF OneLink
<1>4. \A d \in Clients \ {c} : /\ d \in Online' <=> d \in Online
                               /\ d \in left => d \in left'
                               /\ d \in overlap => d \in overlap'
                               /\ d \in refused => d \in refused'
  BY <1>2 DEF Online
<1>5. c \in Online' \/ c \in refused'
  BY <1>1, <1>2 DEF Online
<1>6. \A j \in Conns \ {k} : /\ handler'[j] = handler[j]
                             /\ Session(j)' => Session(j) /\ link[j] \in Clients \ {c}
  BY <1>1 DEF Session, OneLink
<1>7. EarlierHandler'
  <2> SUFFICES ASSUME NEW i \in Conns, NEW j \in Conns, Session(j)', i # j,
                      handler'[i] = link'[j]
               PROVE  link'[j] \in (overlap \cup refused)'
    BY DEF EarlierHandler
  <2>1. CASE j = k
    <3>1. handler[i] = c /\ i \in Conns \ {k}
      BY <1>1, <1>6, <2>1
    <3>2. QED
      BY <1>1, <1>2, <2>1, <3>1
  <2>2. CASE j # k
    <3>1. Session(j) /\ link[j] \in Clients \ {c} /\ link'[j] = link[j]
      BY <1>1, <1>6, <2>2
    <3>2. i # k /\ handler[i] = link[j]
      BY <1>1, <1>6, <3>1
    <3>3. link[j] \in overlap \cup refused
      BY <3>1, <3>2 DEF EarlierHandler
    <3>4. QED
      BY <1>4, <3>1, <3>3
  <2>3. QED
    BY <2>1, <2>2
<1>8. OnlineHasHandler'
  <2> SUFFICES ASSUME NEW d \in Online' PROVE d \in left' \/ \E j \in Conns : handler'[j] = d
    BY DEF OnlineHasHandler
  <2>1. d \in Clients
    BY DEF Online
  <2>2. CASE d = c
    BY <1>1, <2>2
  <2>3. CASE d # c
    <3>1. d \in left \/ \E j \in Conns : handler[j] = d
      BY <1>4, <2>1, <2>3 DEF OnlineHasHandler
    <3>2. QED
      BY <1>1, <1>4, <1>6, <2>1, <2>3, <3>1, SetsAssumption
  <2>4. QED
    BY <2>2, <2>3
<1>9. HiddenNeedsOverlap'
  <2> SUFFICES ASSUME NEW j \in Conns, Session(j)'
               PROVE  link'[j] \in (Online \cup overlap \cup refused)'
    BY DEF HiddenNeedsOverlap
  <2>1. CASE j = k
    BY <1>1, <1>5, <2>1
  <2>2. CASE j # k
    BY <1>1, <1>4, <1>6, <2>2 DEF HiddenNeedsOverlap
  <2>3. QED
    BY <2>1, <2>2
<1>10. DownHasNone'
  BY <1>1
<1>11. QED
  BY <1>10, <1>3, <1>7, <1>8, <1>9

LEMMA LogoutInv ==
    ASSUME IInv, NEW k \in Conns, Logout(k)
    PROVE  IInv'
<1>1. /\ Session(k) /\ isonline' = RemoveOnlineUser(link[k])
      /\ link' = [link EXCEPT ![k] = NoClient]
      /\ UNCHANGED <<up, handler, left, overlap, refused>>
  BY DEF Logout, histVars
<1>2. SessionTypes' /\ OneLink'
  BY <1>1, SetsAssumption DEF RemoveOnlineUser, OneLink
<1>3. \A c \in Clients : c \in Online' <=> c \in Online /\ c # link[k]
  BY <1>1 DEF RemoveOnlineUser, Online, NoRow
<1>4. \A j \in Conns : Session(j)' => /\ Session(j) /\ link'[j] = link[j]
                                      /\ link[j] \in Clients /\ link[j] # link[k]
  BY <1>1, SetsAssumption DEF Session, OneLink
<1>5. EarlierHandler'
  BY <1>1, <1>4 DEF EarlierHandler
<1>6. OnlineHasHandler'
  BY <1>1, <1>3 DEF OnlineHasHandler, Online
<1>7. HiddenNeedsOverlap'
  BY <1>1, <1>3, <1>4 DEF HiddenNeedsOverlap
<1>8. DownHasNone'
  BY <1>1 DEF Session
<1>9. QED
  BY <1>8, <1>2, <1>5, <1>6, <1>7

LEMMA StopInv == ASSUME IInv, Stop PROVE IInv'
<1>1. /\ handler' = [k \in Conns |-> Gone] /\ link' = [k \in Conns |-> NoClient]
      /\ left' = Online /\ UNCHANGED <<isonline, overlap, refused>> /\ ~up'
  BY DEF Stop, LinksClosed, dbVars
<1>2. QED
  BY <1>1, SetsAssumption
  DEF OneLink, EarlierHandler, OnlineHasHandler, HiddenNeedsOverlap, Online, Session

LEMMA StartInv == ASSUME IInv, Start PROVE IInv'
<1>1. /\ \A k \in Conns : handler[k] = Gone
      /\ up' /\ UNCHANGED <<handler, link, isonline, left, overlap, refused>>
  BY DEF Start, dbVars, histVars
<1>2. \A k \in Conns : ~Session(k)'
  BY <1>1, SetsAssumption DEF Session
<1>3. QED
  BY <1>1, <1>2
  DEF OneLink, EarlierHandler, OnlineHasHandler, HiddenNeedsOverlap, Online

LEMMA StepInv == IInv /\ [Next]_vars => IInv'
<1> SUFFICES ASSUME IInv, [Next]_vars PROVE IInv'
  OBVIOUS
<1>1. CASE UNCHANGED vars
  BY <1>1, QuietInv DEF vars, dbVars
<1>2. CASE Stop
  BY <1>2, StopInv
<1>3. CASE Start
  BY <1>3, StartInv
<1>4. ASSUME NEW k \in Conns, NEW c \in Clients, Connect(k, c) PROVE IInv'
  BY <1>4, ConnectInv
<1>5. ASSUME NEW k \in Conns, Disconnect(k) PROVE IInv'
  BY <1>5, DisconnectInv
<1>6. ASSUME NEW k \in Conns, Handle(k) PROVE IInv'
  <2>1. CASE Drop(k)
    BY <2>1, DropInv
  <2>2. CASE Login(k)
    BY <2>2, LoginInv
  <2>3. CASE Logout(k)
    BY <2>3, LogoutInv
  <2>4. ASSUME NEW f \in Files, PublishResource(k, f) PROVE IInv'
    BY <2>4, QuietInv DEF PublishResource
  <2>5. ASSUME NEW f \in Files, NEW p \in Percents, ReportProgress(k, f, p) PROVE IInv'
    BY <2>5, QuietInv DEF ReportProgress
  <2>6. ASSUME NEW f \in Files, NEW p \in Percents, NEW need \in Needs,
               RequestPeer(k, f, p, need)
        PROVE  IInv'
    BY <2>6, QuietInv DEF RequestPeer, dbVars
  <2>7. QED
    BY <1>6, <2>1, <2>2, <2>3, <2>4, <2>5, <2>6 DEF Handle
<1>7. QED
  BY <1>1, <1>2, <1>3, <1>4, <1>5, <1>6 DEF Next

LEMMA InvAlways == Spec => []IInv
  BY InitInv, StepInv, PTL DEF Spec
-----------------------------------------------------------------------------
\* A client the tables call online has a handler that will take it offline, or was
\* online when the tracker last stopped.
THEOREM OnlineHasHandlerAlways == Spec => []OnlineHasHandler
<1>1. IInv => OnlineHasHandler
  OBVIOUS
<1>2. QED
  BY InvAlways, <1>1, PTL

\* A client with a session is hidden from the others only by a refused login or by the
\* end of an earlier connection.
THEOREM HiddenNeedsOverlapAlways == Spec => []HiddenNeedsOverlap
<1>1. IInv => HiddenNeedsOverlap
  OBVIOUS
<1>2. QED
  BY InvAlways, <1>1, PTL
-----------------------------------------------------------------------------
(* Answers.                                                                *)

\* The loop over the rows returns as many as there are, each of them a row.
LEMMA ReadRowsList ==
    ASSUME NEW S, NEW s \in Seq(S)
    PROVE  ReadRows(s) \in Seq(S) /\ Len(ReadRows(s)) = Len(s)
<1>1. CASE Len(s) <= 1
  BY <1>1 DEF ReadRows
<1>2. CASE Len(s) > 1
  <2>1. Len(s) \in Nat /\ s[Len(s)] \in S /\ Tail(s) \in Seq(S) /\ Len(Tail(s)) = Len(s) - 1
    BY <1>2
  <2>2. \A q \in Seq(S) : \A x \in S : Append(q, x) \in Seq(S) /\ Len(Append(q, x)) = Len(q) + 1
    OBVIOUS
  <2>3. QED
    BY <1>2, <2>1, <2>2 DEF ReadRows
<1>3. QED
  BY <1>1, <1>2

\* A search returns rows, at most as many as are needed, and one if there is one.
LEMMA SearchList ==
    ASSUME NEW rows, rows \subseteq Clients, NEW need \in Nat \ {0},
           NEW list \in Search(rows, need)
    PROVE  /\ list \in Seq(rows) /\ Len(list) \in Nat /\ Len(list) <= need
           /\ list = << >> => rows = {}
<1> DEFINE n == Limit(need, rows)
<1>1. IsFiniteSet(rows)
  BY SetsAssumption, FS_Subset
<1>2. Cardinality(rows) \in Nat /\ (rows # {} => Cardinality(rows) # 0)
  BY <1>1, FS_CardinalityType, FS_EmptySet
<1>3. n \in Nat /\ n <= need /\ (rows # {} => n # 0)
  BY <1>2 DEF Limit
<1> HIDE DEF n
<1>4. PICK s \in [1..n -> rows] : list = ReadRows(s)
  BY DEF Search, n
<1>5. s \in Seq(rows) /\ Len(s) = n
  BY <1>3, <1>4
<1>6. list \in Seq(rows) /\ Len(list) = n
  BY <1>4, <1>5, ReadRowsList
<1>7. list = << >> => n = 0
  BY <1>6
<1>8. QED
  BY <1>3, <1>6, <1>7

\* The two searches together.
LEMMA AnswerList ==
    ASSUME NEW rows, rows \subseteq Clients, NEW f \in Files, NEW p \in Percents,
           NEW need \in Needs, NEW list \in RequestClients(rows, f, p, need)
    PROVE  /\ list \in Seq(rows) /\ Len(list) <= need
           /\ list = << >> => \A c \in rows : ~(owner[f][c] > p) /\ ~(p > 0)
<1> DEFINE ahead == {c \in rows : owner[f][c] > p}  behind == rows \ ahead
<1>1. need \in Nat \ {0}
  BY SetsAssumption
<1>2. PICK a \in Search(ahead, need) :
         list \in (IF Len(a) < need /\ p > 0
                   THEN {a \o b : b \in Search(behind, need - Len(a))}
                   ELSE {a})
  BY DEF RequestClients
<1>3. ahead \subseteq rows /\ behind \subseteq rows
  OBVIOUS
<1>4. \A c \in rows : c \in ahead \cup behind /\ (c \in ahead <=> owner[f][c] > p)
  OBVIOUS
<1> HIDE DEF ahead, behind
<1>5. /\ a \in Seq(ahead) /\ Len(a) \in Nat /\ Len(a) <= need
      /\ a = << >> => ahead = {}
  BY <1>1, <1>3, SearchList
<1>6. a \in Seq(rows)
  BY <1>3, <1>5
<1>7. CASE ~(Len(a) < need /\ p > 0)
  <2>1. list = a
    BY <1>2, <1>7
  <2>2. list = << >> => ahead = {} /\ ~(p > 0)
    <3>1. list = << >> => Len(a) = 0
      BY <2>1
    <3>2. QED
      BY <1>1, <1>5, <1>7, <2>1, <3>1
  <2>3. QED
    BY <1>4, <1>5, <1>6, <2>1, <2>2
<1>8. CASE Len(a) < need /\ p > 0
  <2>1. PICK b \in Search(behind, need - Len(a)) : list = a \o b
    BY <1>2, <1>8
  <2>2. need - Len(a) \in Nat \ {0}
    BY <1>1, <1>5, <1>8
  <2>3. /\ b \in Seq(behind) /\ Len(b) \in Nat /\ Len(b) <= need - Len(a)
        /\ b = << >> => behind = {}
    BY <1>3, <2>1, <2>2, SearchList
  <2>4. b \in Seq(rows)
    BY <1>3, <2>3
  <2>5. list \in Seq(rows) /\ Len(list) = Len(a) + Len(b)
    BY <1>6, <2>1, <2>4
  <2>6. list = << >> => a = << >> /\ b = << >>
    <3>1. list = << >> => Len(a) + Len(b) = 0
      BY <2>5
    <3>2. list = << >> => Len(a) = 0 /\ Len(b) = 0
      BY <1>5, <2>3, <3>1
    <3>3. \A q \in Seq(rows) : Len(q) = 0 => q = << >>
      OBVIOUS
    <3>4. QED
      BY <1>6, <2>4, <3>2, <3>3
  <2>7. list = << >> => rows = {}
    BY <1>4, <1>5, <2>3, <2>6
  <2>8. Len(list) <= need
    BY <1>1, <1>5, <2>3, <2>5
  <2>9. QED
    BY <2>5, <2>7, <2>8
<1>9. QED
  BY <1>7, <1>8

\* Only RequestPeer answers.
LEMMA OneAnswers ==
    ASSUME Next
    PROVE  \/ reply' = NoReply
           \/ \E k \in Conns, f \in Files, p \in Percents, need \in Needs :
                 RequestPeer(k, f, p, need)
  BY DEF Next, Handle, Drop, Login, Logout, PublishResource, ReportProgress, Disconnect,
         Connect, Stop, Start, NoAnswer

\* The clients that an answer may name.
Candidates(c, f) == {d \in Online \ (known[c][f] \cup {c}) : owner[f][d] # NoRow}

LEMMA AnswerFacts ==
    ASSUME NEW k \in Conns, NEW f \in Files, NEW p \in Percents, NEW need \in Needs,
           RequestPeer(k, f, p, need)
    PROVE  \E c \in Clients : \E list \in Seq(Candidates(c, f)) :
              /\ reply' = [asker |-> c, file |-> f, percentage |-> p, need |-> need,
                           list |-> list]
              /\ Len(list) <= need
              /\ list = << >> => \A d \in Candidates(c, f) : ~(owner[f][d] > p) /\ ~(p > 0)
              /\ \/ known' = known
                 \/ known' = [known EXCEPT ![c][f] = {list[i] : i \in DOMAIN list}]
<1> DEFINE c == link[k]  rows == Rows(f, Excluded(c, known[c][f]))
<1>1. c \in Clients
  BY DEF RequestPeer, Session
<1>2. PICK list \in RequestClients(rows, f, p, need) :
         /\ reply' = [asker |-> c, file |-> f, percentage |-> p, need |-> need, list |-> list]
         /\ known' = IF list = << >> THEN known
                     ELSE [known EXCEPT ![c][f] = {list[i] : i \in DOMAIN list}]
  BY DEF RequestPeer
<1>3. rows = Candidates(c, f) /\ rows \subseteq Clients
  BY DEF Rows, Excluded, Online, Candidates
<1> HIDE DEF c, rows
<1>4. /\ list \in Seq(rows) /\ Len(list) <= need
      /\ list = << >> => \A d \in rows : ~(owner[f][d] > p) /\ ~(p > 0)
  BY <1>3, AnswerList
<1>5. QED
  BY <1>1, <1>2, <1>3, <1>4

\* The percentages in the table of owners.
OwnerTypes == owner \in [Files -> [Clients -> {NoRow} \cup 0..100]]

\* Every name in an answer is one that the asker can use.
THEOREM AnswersUsableAlways == Spec => AnswersUsable
<1>1. ASSUME Next, reply' # NoReply
      PROVE  LET r == reply' IN
             \A i \in DOMAIN r.list :
                /\ r.list[i] \in Online \ {r.asker}
                /\ owner[r.file][r.list[i]] # NoRow
                /\ r.list[i] \notin known[r.asker][r.file]
  <2>1. PICK k \in Conns, f \in Files, p \in Percents, need \in Needs :
           RequestPeer(k, f, p, need)
    BY <1>1, OneAnswers
  <2>2. PICK c \in Clients : \E list \in Seq(Candidates(c, f)) :
           reply' = [asker |-> c, file |-> f, percentage |-> p, need |-> need, list |-> list]
    BY <2>1, AnswerFacts
  <2>3. PICK list \in Seq(Candidates(c, f)) :
           reply' = [asker |-> c, file |-> f, percentage |-> p, need |-> need, list |-> list]
    BY <2>2
  <2>4. \A i \in DOMAIN list : list[i] \in Candidates(c, f)
    OBVIOUS
  <2>5. QED
    BY <2>3, <2>4 DEF Candidates
<1>2. [Next]_vars => [reply' # NoReply =>
             LET r == reply' IN
             \A i \in DOMAIN r.list :
                /\ r.list[i] \in Online \ {r.asker}
                /\ owner[r.file][r.list[i]] # NoRow
                /\ r.list[i] \notin known[r.asker][r.file]]_vars
  BY <1>1
<1>3. QED
  BY <1>2, PTL DEF Spec, AnswersUsable

LEMMA OwnerTypesAlways == Spec => []OwnerTypes
<1>1. Init => OwnerTypes
  BY DEF Init, OwnerTypes
<1>2. OwnerTypes /\ [Next]_vars => OwnerTypes'
  <2> SUFFICES ASSUME OwnerTypes, [Next]_vars PROVE OwnerTypes'
    OBVIOUS
  <2>1. ASSUME NEW k \in Conns, NEW f \in Files, NEW p \in Percents,
               ReportProgress(k, f, p) \/ PublishResource(k, f)
        PROVE  OwnerTypes'
    BY <2>1, SetsAssumption DEF ReportProgress, PublishResource, OwnerTypes, Session
  <2>2. ASSUME NEW k \in Conns, NEW f \in Files, PublishResource(k, f)
        PROVE  OwnerTypes'
    BY <2>2 DEF PublishResource, OwnerTypes, Session
  <2>3. ASSUME owner' = owner PROVE OwnerTypes'
    BY <2>3 DEF OwnerTypes
  <2>4. QED
    BY <2>1, <2>2, <2>3
    DEF Next, Handle, Drop, Login, Logout, RequestPeer, Disconnect, Connect, Stop, Start,
        dbVars, vars
<1>3. QED
  BY <1>1, <1>2, PTL DEF Spec

\* An empty answer means that there was nobody to name, although the loop over the
\* rows skips the first of several.
THEOREM EmptyMeansNoneAlways == Spec => EmptyMeansNone
<1>1. ASSUME OwnerTypes, Next, reply' # NoReply
      PROVE  LET r == reply' IN
             r.list = << >> =>
                \A c \in Online \ {r.asker} :
                   \/ owner[r.file][c] = NoRow \/ c \in known[r.asker][r.file]
                   \/ owner[r.file][c] = 0 /\ r.percentage = 0
  <2>1. PICK k \in Conns, f \in Files, p \in Percents, need \in Needs :
           RequestPeer(k, f, p, need)
    BY <1>1, OneAnswers
  <2>2. PICK c \in Clients : \E list \in Seq(Candidates(c, f)) :
           /\ reply' = [asker |-> c, file |-> f, percentage |-> p, need |-> need, list |-> list]
           /\ list = << >> => \A d \in Candidates(c, f) : ~(owner[f][d] > p) /\ ~(p > 0)
    BY <2>1, AnswerFacts
  <2>3. PICK list \in Seq(Candidates(c, f)) :
           /\ reply' = [asker |-> c, file |-> f, percentage |-> p, need |-> need, list |-> list]
           /\ list = << >> => \A d \in Candidates(c, f) : ~(owner[f][d] > p) /\ ~(p > 0)
    BY <2>2
  <2>4. ASSUME list = << >>, NEW d \in Online \ {c}, owner[f][d] # NoRow, d \notin known[c][f]
        PROVE  owner[f][d] = 0 /\ p = 0
    <3>1. ~(owner[f][d] > p) /\ ~(p > 0)
      BY <2>3, <2>4 DEF Candidates
    <3>2. owner[f][d] \in 0..100 /\ p \in 0..100
      BY <1>1, <2>4, SetsAssumption DEF OwnerTypes, Online
    <3>3. \A x, y \in 0..100 : ~(x > y) /\ ~(y > 0) => x = 0 /\ y = 0
      OBVIOUS
    <3>4. QED
      BY <3>1, <3>2, <3>3
  <2>5. QED
    BY <2>3, <2>4
<1>2. OwnerTypes /\ [Next]_vars =>
         [reply' # NoReply =>
             LET r == reply' IN
             r.list = << >> =>
                \A c \in Online \ {r.asker} :
                   \/ owner[r.file][c] = NoRow \/ c \in known[r.asker][r.file]
                   \/ owner[r.file][c] = 0 /\ r.percentage = 0]_vars
  BY <1>1
<1>3. QED
  BY <1>2, OwnerTypesAlways, PTL DEF Spec, EmptyMeansNone

\* Both searches together return at most the number of clients asked for.
THEOREM AnswerFitsAlways == Spec => []AnswerFits
<1>1. Init => AnswerFits
  BY DEF Init, AnswerFits
<1>2. AnswerFits /\ [Next]_vars => AnswerFits'
  <2>1. ASSUME NEW k \in Conns, NEW f \in Files, NEW p \in Percents, NEW need \in Needs,
               RequestPeer(k, f, p, need)
        PROVE  AnswerFits'
    <3>1. \E list : reply'.list = list /\ reply'.need = need /\ Len(list) <= need
      BY <2>1, AnswerFacts
    <3>2. QED
      BY <3>1 DEF AnswerFits
  <2>2. QED
    BY <2>1, OneAnswers DEF AnswerFits, vars
<1>3. QED
  BY <1>1, <1>2, PTL DEF Spec
-----------------------------------------------------------------------------
LEMMA TypeInit == Init => TypeOK
  BY DEF Init, TypeOK, NoRow

LEMMA TypeRequestPeer ==
    ASSUME TypeOK, NEW k \in Conns, NEW f \in Files, NEW p \in Percents, NEW need \in Needs,
           RequestPeer(k, f, p, need)
    PROVE  TypeOK'
<1>1. PICK c \in Clients : \E list \in Seq(Candidates(c, f)) :
         /\ reply' = [asker |-> c, file |-> f, percentage |-> p, need |-> need, list |-> list]
         /\ \/ known' = known
            \/ known' = [known EXCEPT ![c][f] = {list[i] : i \in DOMAIN list}]
  BY AnswerFacts
<1>2. PICK list \in Seq(Candidates(c, f)) :
         /\ reply' = [asker |-> c, file |-> f, percentage |-> p, need |-> need, list |-> list]
         /\ \/ known' = known
            \/ known' = [known EXCEPT ![c][f] = {list[i] : i \in DOMAIN list}]
  BY <1>1
<1>3. Candidates(c, f) \subseteq Clients
  BY DEF Candidates, Online
<1>4. list \in Seq(Clients) /\ {list[i] : i \in DOMAIN list} \subseteq Clients
  BY <1>3
<1>5. reply' \in Reply
  BY <1>2, <1>4 DEF Reply
<1>6. known' \in [Clients -> [Files -> SUBSET Clients]]
  <2> DEFINE names == {list[i] : i \in DOMAIN list}
  <2>1. names \in SUBSET Clients
    BY <1>4
  <2>2. known' = known \/ known' = [known EXCEPT ![c][f] = names]
    BY <1>2
  <2> HIDE DEF names
  <2>3. known[c] \in [Files -> SUBSET Clients]
    BY DEF TypeOK
  <2>4. [known[c] EXCEPT ![f] = names] \in [Files -> SUBSET Clients]
    BY <2>1, <2>3
  <2>5. QED
    BY <2>2, <2>4 DEF TypeOK
<1>7. UNCHANGED <<up, handler, link, isonline, owner, left, overlap, refused, stops, faults>>
  BY DEF RequestPeer, dbVars, histVars
<1>8. QED
  BY <1>5, <1>6, <1>7 DEF TypeOK

\* The types, and that a connection without a handler has nobody at its far end: the last
\* copy of the socket goes with its handler (tracker_connection_handler.cc:30).
THEOREM TypesAlways == Spec => []TypeOK
<1>1. TypeOK /\ [Next]_vars => TypeOK'
  <2> SUFFICES ASSUME TypeOK, [Next]_vars PROVE TypeOK'
    OBVIOUS
  <2> USE SetsAssumption, BoundsAssumption
      DEF TypeOK, dbVars, histVars, NoAnswer, Fault, NoRow, Session
  <2>1. ASSUME NEW k \in Conns, Drop(k) \/ Logout(k) PROVE TypeOK'
    <3>1. isonline' \in [Clients -> {-1, 0, 1}]
      BY <2>1 DEF Drop, Logout, RemoveOnlineUser
    <3>2. CASE Drop(k)
      <4>1. /\ handler' = [handler EXCEPT ![k] = Gone] /\ link' = [link EXCEPT ![k] = NoClient]
            /\ UNCHANGED <<up, owner, known, left, overlap, refused, stops>>
            /\ reply' = NoReply /\ faults' \in Nat
        BY <3>2 DEF Drop
      <4>2. QED
        BY <3>1, <4>1
    <3>3. CASE Logout(k)
      <4>1. /\ link' = [link EXCEPT ![k] = NoClient] /\ reply' = NoReply
            /\ UNCHANGED <<up, handler, owner, known, left, overlap, refused, stops, faults>>
        BY <3>3 DEF Logout
      <4>2. QED
        BY <3>1, <4>1
    <3>4. QED
      BY <2>1, <3>2, <3>3
  <2>2. ASSUME NEW k \in Conns, Login(k) PROVE TypeOK'
    <3>1. /\ handler' = [handler EXCEPT ![k] = link[k]] /\ link[k] \in Clients
          /\ handler[k] = NoClient /\ UNCHANGED <<up, link, owner, known, stops>>
          /\ reply' = NoReply
      BY <2>2 DEF Login
    <3>2. isonline' \in [Clients -> {-1, 0, 1}] /\ faults' \in Nat
      BY <2>2, <3>1 DEF Login, SetOnline
    <3>3. left' \subseteq Clients /\ refused' \subseteq Clients
      BY <2>2, <3>1 DEF Login
    <3>4. overlap' \subseteq overlap \cup {link[k]}
      BY <2>2 DEF Login
    <3>5. overlap' \subseteq Clients
      BY <3>1, <3>4
    <3>6. QED
      BY <3>1, <3>2, <3>3, <3>5
  <2>3. ASSUME NEW k \in Conns, NEW f \in Files, PublishResource(k, f) PROVE TypeOK'
    BY <2>3 DEF PublishResource
  <2>4. ASSUME NEW k \in Conns, NEW f \in Files, NEW p \in Percents, ReportProgress(k, f, p)
        PROVE  TypeOK'
    BY <2>4 DEF ReportProgress
  <2>5. ASSUME NEW k \in Conns, NEW c \in Clients, Connect(k, c) PROVE TypeOK'
    BY <2>5 DEF Connect
  <2>6. ASSUME NEW k \in Conns, Disconnect(k) PROVE TypeOK'
    BY <2>6 DEF Disconnect
  <2>7. CASE Stop \/ Start
    <3>1. CASE Start
      BY <3>1 DEF Start
    <3>2. CASE Stop
      <4>1. /\ handler' = [k \in Conns |-> Gone] /\ link' = [k \in Conns |-> NoClient]
            /\ left' = Online /\ stops' = stops + 1 /\ up' = FALSE /\ reply' = NoReply
            /\ UNCHANGED <<isonline, owner, known, overlap, refused, faults>>
        BY <3>2 DEF Stop, LinksClosed
      <4>2. Online \subseteq Clients
        BY DEF Online
      <4>3. /\ handler' \in [Conns -> Clients \cup {NoClient, Gone}]
            /\ link' \in [Conns -> Clients \cup {NoClient}]
            /\ \A k \in Conns : handler'[k] = Gone => link'[k] = NoClient
        BY <4>1
      <4>4. stops' \in Nat
        BY <4>1
      <4>5. left' \subseteq Clients
        BY <4>1, <4>2
      <4>6. up' \in BOOLEAN
        BY <4>1
      <4>7. QED
        BY <4>1, <4>3, <4>4, <4>5, <4>6
    <3>3. QED
      BY <2>7, <3>1, <3>2
  <2>8. CASE UNCHANGED vars
    BY <2>8 DEF vars
  <2>9. QED
    BY <2>1, <2>2, <2>3, <2>4, <2>5, <2>6, <2>7, <2>8, TypeRequestPeer DEF Next, Handle
<1>2. QED
  BY <1>1, TypeInit, PTL DEF Spec
=============================================================================
