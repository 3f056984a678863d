---------------------------- MODULE UploadProofs ----------------------------
(***************************************************************************)
(* Proofs about Upload, for any number of connections, threads, requests   *)
(* and pieces: what the reactor and the pool threads do to one socket, to  *)
(* the task they hand over, and to a chunk on its way.                     *)
(***************************************************************************)
EXTENDS Upload, FiniteSetTheorems, TLAPS

USE KindsAssumption, BoundsAssumption DEF NULL

-----------------------------------------------------------------------------
(* Types.                                                                  *)

Request == [id : Tasks, kind : Requests \cup {"rest"}]
Bytes   == Replies \cup {"more", "last", "blank"}
Item    == [id : Tasks, what : Bytes]
QueueTypes == inbox \in [Conns -> Seq(Request)] /\ out \in [Conns -> Seq(Item)]

\* A task that waits or runs has a connection.
SockTypes == \A t \in Tasks : task[t] \in {"made", "runs"} => sock_[t] \in Conns

Types == TypeOK /\ QueueTypes /\ SockTypes

LEMMA TypesInit == Init => Types
<1> SUFFICES ASSUME Init PROVE Types
  OBVIOUS
<1>1. 0 \in 0..MaxRequests /\ 0 \in 0..MaxTurns /\ 0 \in 0..Pieces
  OBVIOUS
<1>2. TypeOK
  BY <1>1 DEF Init, TypeOK
<1>3. QueueTypes /\ SockTypes
  BY DEF Init, QueueTypes, SockTypes
<1>4. QED
  BY <1>2, <1>3 DEF Types

\* A packet or a piece that is sent is the last item of its connection.
LEMMA SentItem ==
    ASSUME QueueTypes, NEW k \in Conns, NEW id \in Tasks,
           NEW what \in Bytes, Sent(k, id, what)
    PROVE  /\ out' \in [Conns -> Seq(Item)]
           /\ peer[k] = "closed" => out' = out
           /\ peer[k] # "closed" => out'[k] = Append(out[k], [id |-> id, what |-> what])
           /\ \A j \in Conns \ {k} : out'[j] = out[j]
<1>1. [id |-> id, what |-> what] \in Item
  BY DEF Item
<1>2. \A s \in Seq(Item) : \A x \in Item : Append(s, x) \in Seq(Item)
  OBVIOUS
<1>3. QED
  BY <1>1, <1>2 DEF Sent, QueueTypes

LEMMA TypesPeer ==
    ASSUME Types, PeerStep
    PROVE  Types'
<1> USE DEF Types, TypeOK, QueueTypes, SockTypes, taskVars, handlerVars, Turn
<1>1. PICK k \in Conns : Connect(k) \/ Ask(k) \/ Read(k) \/ FindsClosed(k) \/ Leave(k) \/ Close(k)
  BY DEF PeerStep
<1>2. UNCHANGED <<up, task, sock_, nSend, is_stopped>>
  BY DEF PeerStep
<1>3. CASE Connect(k)
  BY <1>2, <1>3 DEF Connect
<1>4. CASE Ask(k)
  <2>1. asked' \in Tasks /\ asked' \in 0..MaxRequests
    BY <1>4 DEF Ask, Tasks
  <2>2. PICK kind \in Kinds : inbox' = [inbox EXCEPT ![k] = Append(@, [id |-> asked', kind |-> kind])]
    BY <1>4 DEF Ask
  <2>3. [id |-> asked', kind |-> kind] \in Request
    BY <2>1 DEF Request
  <2>4. inbox' \in [Conns -> Seq(Request)]
    BY <2>2, <2>3
  <2>5. QED
    BY <1>2, <1>4, <2>1, <2>4 DEF Ask
<1>5. CASE Read(k)
  <2>1. Understood(k, Head(out[k])) \in {"chunk", "idle"}
    BY DEF Understood
  <2>2. out' \in [Conns -> Seq(Item)]
    BY <1>5 DEF Read
  <2>3. QED
    BY <1>2, <1>5, <2>1, <2>2 DEF Read
<1>6. CASE Leave(k)
  BY <1>2, <1>6 DEF Leave
<1>7. CASE Close(k)
  BY <1>2, <1>7 DEF Close
<1>8. CASE FindsClosed(k)
  BY <1>2, <1>8 DEF FindsClosed
<1>9. QED
  BY <1>1, <1>3, <1>4, <1>5, <1>6, <1>7, <1>8

\* What is left unread of a request is its rest.
LEMMA RestFacts ==
    ASSUME NEW q \in Seq(Request), q # << >>
    PROVE  /\ Rest(q) \in Seq(Request) /\ Len(Rest(q)) = Len(q) /\ Rest(q)[1].kind = "rest"
           /\ \A i \in 2..Len(q) : Rest(q)[i] = q[i]
<1> DEFINE h == [Head(q) EXCEPT !.kind = "rest"]
<1>1. Head(q) \in Request /\ Tail(q) \in Seq(Request) /\ Len(Tail(q)) = Len(q) - 1
      /\ Len(q) \in Nat \ {0} /\ \A i \in 1..(Len(q) - 1) : Tail(q)[i] = q[i + 1]
  OBVIOUS
<1>2. h \in Request /\ h.kind = "rest"
  BY <1>1 DEF Request
<1> HIDE DEF h
<1>3. <<h>> \in Seq(Request) /\ Len(<<h>>) = 1 /\ <<h>>[1] = h
  BY <1>2
<1>4. Rest(q) = <<h>> \o Tail(q)
  BY DEF Rest, h
<1>5. /\ Rest(q) \in Seq(Request) /\ Len(Rest(q)) = 1 + (Len(q) - 1)
      /\ \A i \in 1..Len(Rest(q)) : Rest(q)[i] = IF i <= 1 THEN h ELSE Tail(q)[i - 1]
  BY <1>1, <1>3, <1>4
<1>6. Len(Rest(q)) = Len(q) /\ Rest(q)[1] = h
  BY <1>1, <1>5
<1>7. ASSUME NEW i \in 2..Len(q) PROVE Rest(q)[i] = q[i]
  <2>1. i - 1 \in 1..(Len(q) - 1) /\ i \in 1..Len(Rest(q)) /\ ~(i <= 1) /\ (i - 1) + 1 = i
    BY <1>1, <1>6, <1>7
  <2>2. QED
    BY <1>1, <1>5, <2>1
<1>8. QED
  BY <1>2, <1>5, <1>6, <1>7

\* The request that onReadable takes, and what it leaves: whole requests only move up.
LEMMA RequestFacts ==
    ASSUME Types, NEW k \in Conns, onReadable(k)
    PROVE  /\ Head(inbox[k]) \in Request /\ inbox' \in [Conns -> Seq(Request)]
           /\ k \in handler /\ starting = {} /\ inbox[k] # << >>
           /\ \A j \in Conns \ {k} : inbox'[j] = inbox[j]
           /\ UNCHANGED <<nSend, is_stopped, peer, asking, asked, turns>>
           /\ dirty' \in {dirty, dirty \cup {k}}
           /\ k \notin dirty' => ReadWhole(k) /\ inbox'[k] = Tail(inbox[k])
           /\ \E c \in {0, 1} : \A i \in DOMAIN inbox'[k] : inbox'[k][i].kind # "rest" =>
                 /\ i \in Nat /\ i + c # 1
                 /\ i + c \in DOMAIN inbox[k] /\ inbox'[k][i] = inbox[k][i + c]
<1> DEFINE q == inbox[k]
<1>1. q \in Seq(Request) /\ q # << >>
  BY DEF onReadable, Types, QueueTypes
<1>2. /\ Head(q) \in Request /\ Tail(q) \in Seq(Request) /\ Len(q) \in Nat \ {0}
      /\ DOMAIN q = 1..Len(q) /\ DOMAIN Tail(q) = 1..(Len(q) - 1) /\ Len(Tail(q)) = Len(q) - 1
      /\ \A i \in 1..(Len(q) - 1) : Tail(q)[i] = q[i + 1]
  BY <1>1
<1>3. PICK s : /\ inbox' = [inbox EXCEPT ![k] = s]
               /\ \/ s = Tail(q)
                  \/ s = Rest(q)
                  \/ Tail(q) # << >> /\ s = Rest(Tail(q))
  BY DEF onReadable, ReadWhole, ReadShort, Unread
<1>4. \E c \in {0, 1} : \A i \in DOMAIN s : s[i].kind # "rest" =>
         i \in Nat /\ i + c # 1 /\ i + c \in DOMAIN q /\ s[i] = q[i + c]
  <2>1. CASE s = Tail(q)
    <3>1. \A i \in DOMAIN s : i \in Nat /\ i + 1 # 1 /\ i + 1 \in DOMAIN q /\ s[i] = q[i + 1]
      BY <1>2, <2>1
    <3>2. QED
      BY <3>1
  <2>2. CASE s = Rest(q)
    <3>1. \A i \in DOMAIN s : s[i].kind # "rest" => i \in 2..Len(q) /\ s[i] = q[i]
      BY <1>1, <1>2, <2>2, RestFacts
    <3>2. \A i \in 2..Len(q) : i \in Nat /\ i + 0 = i /\ i # 1 /\ i \in DOMAIN q
      BY <1>2
    <3>3. QED
      BY <3>1, <3>2
  <2>3. CASE Tail(q) # << >> /\ s = Rest(Tail(q))
    <3>1. \A i \in DOMAIN s : s[i].kind # "rest" => i \in 2..Len(Tail(q)) /\ s[i] = Tail(q)[i]
      <4>1. PICK p \in Seq(Request) : p = Tail(q) /\ p # << >> /\ s = Rest(p)
        BY <1>2, <2>3
      <4>2. \A i \in DOMAIN s : s[i].kind # "rest" => i \in 2..Len(p) /\ s[i] = p[i]
        <5>1. s \in Seq(Request) /\ Len(s) = Len(p) /\ DOMAIN s = 1..Len(p)
          <6>1. s \in Seq(Request) /\ Len(s) = Len(p)
            BY <4>1, RestFacts
          <6>2. QED
            BY <6>1
        <5>2. s[1].kind = "rest" /\ \A i \in 2..Len(p) : s[i] = p[i]
          BY <4>1, RestFacts
        <5>3. QED
          BY <5>1, <5>2
      <4>3. QED
        BY <4>1, <4>2
    <3>2. \A i \in 2..Len(Tail(q)) :
             i \in Nat /\ i + 1 # 1 /\ i + 1 \in DOMAIN q /\ Tail(q)[i] = q[i + 1]
      BY <1>2
    <3>3. QED
      BY <3>1, <3>2
  <2>4. QED
    BY <1>3, <2>1, <2>2, <2>3
<1>5. s \in Seq(Request)
  BY <1>1, <1>2, <1>3, RestFacts
<1>6. inbox' \in [Conns -> Seq(Request)] /\ inbox'[k] = s /\ \A j \in Conns \ {k} : inbox'[j] = inbox[j]
  BY <1>3, <1>5 DEF Types, QueueTypes
<1>7. /\ k \in handler /\ starting = {} /\ dirty' \in {dirty, dirty \cup {k}}
      /\ UNCHANGED <<nSend, is_stopped, peer, asking, asked, turns>>
      /\ k \notin dirty' => ReadWhole(k)
  BY DEF onReadable, ReadWhole, ReadShort
<1>8. ReadWhole(k) => inbox'[k] = Tail(q)
  BY DEF ReadWhole, Types, QueueTypes
<1>9. QED
  BY <1>1, <1>2, <1>4, <1>6, <1>7, <1>8

\* What onReadable does with the packet it took, whether it was sent as such or not.
LEMMA ReadableCases ==
    ASSUME Types, NEW k \in Conns, onReadable(k)
    PROVE  \/ Throws
           \/ ReceiveFails(k) /\ k \in dirty'
           \/ \E r \in Request : /\ Reply(k, r) /\ ~AssertFails(r)
                                 /\ r = Head(inbox[k]) \/ (k \in dirty' /\ r.kind # "chunk")
                                 /\ r.kind = "chunk" => r = Head(inbox[k])
<1> DEFINE h == Head(inbox[k])
<1>1. h \in Request
  BY RequestFacts
<1> HIDE DEF h
<1>2. CASE ReadWhole(k)
  BY <1>1, <1>2 DEF ReadWhole, h
<1>3. CASE ReadShort(k)
  <2>1. k \in dirty'
    BY <1>3 DEF ReadShort
  <2>2. ASSUME NEW kind \in Misread(h), Reply(k, [h EXCEPT !.kind = kind])
        PROVE  \E r \in Request : Reply(k, r) /\ ~AssertFails(r) /\ r.kind # "chunk"
    <3>1. kind \in {"rest", "unknown", "hand"}
      BY <2>2 DEF Misread
    <3>2. [h EXCEPT !.kind = kind] \in Request /\ [h EXCEPT !.kind = kind].kind = kind
      BY <1>1, <3>1 DEF Request, Requests
    <3>3. QED
      BY <2>2, <3>1, <3>2 DEF AssertFails
  <2>3. QED
    BY <1>3, <2>1, <2>2 DEF ReadShort, h
<1>4. QED
  BY <1>2, <1>3 DEF onReadable

LEMMA HandleTypes ==
    ASSUME Types, NEW k \in Conns, NEW r \in Request, HandleUploadRequest(k, r)
    PROVE  /\ pTask' \in [Conns -> Tasks \cup {NULL}]
           /\ task' \in [Tasks -> {"none", "made", "runs", "gone"}]
           /\ sock_' \in [Tasks -> Conns \cup {NULL}] /\ SockTypes'
  BY DEF HandleUploadRequest, Types, TypeOK, SockTypes, Request

LEMMA CodeType ==
    ASSUME NEW r \in Request, ~AssertFails(r)
    PROVE  /\ Code(r.kind) \in Bytes /\ (r.kind # "rest" => Code(r.kind) \in Replies)
           /\ (Code(r.kind) = "ok" <=> r.kind = "chunk")
  BY DEF Code, Replies, Bytes, AssertFails, Request, Requests

LEMMA TypesReadable ==
    ASSUME Types, NEW k \in Conns, onReadable(k)
    PROVE  Types'
<1>1. /\ inbox' \in [Conns -> Seq(Request)]
      /\ k \in handler /\ starting = {} /\ dirty' \in {dirty, dirty \cup {k}}
      /\ UNCHANGED <<nSend, is_stopped, peer, asking, asked, turns>>
  BY RequestFacts
<1>2. CASE Throws
  BY <1>1, <1>2 DEF Throws, Types, TypeOK, QueueTypes, SockTypes, handlerVars
<1>3. CASE ReceiveFails(k)
  <2>1. out' \in [Conns -> Seq(Item)]
    <3>1. << >> \in Seq(Item)
      OBVIOUS
    <3>2. QED
      BY <1>3, <3>1 DEF ReceiveFails, Types, QueueTypes
  <2>2. QED
    BY <1>1, <1>3, <2>1 DEF ReceiveFails, Types, TypeOK, QueueTypes, SockTypes
<1>4. ASSUME NEW r \in Request, Process(k, r), ~AssertFails(r) PROVE Types'
  <2>1. r.id \in Tasks /\ Code(r.kind) \in Bytes
    BY <1>4, CodeType DEF Request
  <2>2. out' \in [Conns -> Seq(Item)]
    BY <1>4, <2>1, SentItem DEF Process, Types, QueueTypes
  <2>3. starting' \subseteq {k} /\ handler' = handler /\ up' = up
    BY <1>1, <1>4 DEF Process
  <2>4. last_request_upload' \in [Conns -> BOOLEAN]
    <3>1. IsUpload(k, r) \in BOOLEAN
      BY DEF IsUpload, Types, TypeOK
    <3>2. QED
      BY <1>4, <3>1 DEF Process, Types, TypeOK
  <2>5. HandleUploadRequest(k, r)
    BY <1>4 DEF Process
  <2>6. /\ pTask' \in [Conns -> Tasks \cup {NULL}]
        /\ task' \in [Tasks -> {"none", "made", "runs", "gone"}]
        /\ sock_' \in [Tasks -> Conns \cup {NULL}] /\ SockTypes'
    BY <2>5, HandleTypes
  <2>7. QED
    BY <1>1, <2>2, <2>3, <2>4, <2>6 DEF Types, TypeOK, QueueTypes
<1>5. ASSUME NEW r \in Request, SendPart(k, r) PROVE Types'
  <2>1. /\ handler' = handler \ {k} /\ up' \in BOOLEAN
        /\ UNCHANGED <<last_request_upload, pTask, starting, sock_, out>>
    BY <1>5 DEF SendPart, Types, TypeOK
  <2>2. task' = task \/ \E t \in Tasks : task' = [task EXCEPT ![t] = "gone"]
    <3>1. r.id \in Tasks /\ (pTask[k] # NULL => pTask[k] \in Tasks)
      BY DEF Request, Types, TypeOK
    <3>2. r.id # NULL
      BY <3>1 DEF Tasks
    <3>3. QED
      BY <1>5, <3>1, <3>2 DEF SendPart
  <2>3. task' \in [Tasks -> {"none", "made", "runs", "gone"}] /\ SockTypes'
    BY <2>1, <2>2 DEF Types, TypeOK, SockTypes
  <2>4. QED
    BY <1>1, <2>1, <2>3 DEF Types, TypeOK, QueueTypes
<1>6. QED
  BY <1>2, <1>3, <1>4, <1>5, ReadableCases DEF Reply

LEMMA TypesReactor == ASSUME Types, Reactor PROVE Types'
<1>1. ASSUME NEW k \in Conns, StartTask(k) PROVE Types'
  <2>1. pTask[k] # NULL => pTask[k] \in Tasks
    BY DEF Types, TypeOK
  <2>2. /\ pTask' \in [Conns -> Tasks \cup {NULL}] /\ up' \in BOOLEAN /\ starting' = {}
        /\ task' \in [Tasks -> {"none", "made", "runs", "gone"}]
        /\ SockTypes'
    BY <1>1, <2>1 DEF StartTask, ReleaseOwnership, Types, TypeOK, SockTypes
  <2>3. QED
    BY <1>1, <2>2 DEF StartTask, Types, TypeOK, QueueTypes, peerVars
<1>2. ASSUME NEW k \in Conns, DeleteHandler(k) PROVE Types'
  BY <1>2 DEF DeleteHandler, Types, TypeOK, QueueTypes, SockTypes, taskVars, peerVars
<1>3. CASE onShutdown
  BY <1>3 DEF onShutdown, Turn, Types, TypeOK, QueueTypes, SockTypes, taskVars
<1>4. QED
  BY <1>1, <1>2, <1>3, TypesReadable DEF Reactor

LEMMA TypesTask == ASSUME Types, NEW t \in Tasks, RunTask(t) PROVE Types'
<1>1. /\ UNCHANGED <<handlerVars, sock_, is_stopped, peerVars, inbox>>
      /\ task[t] = "runs" /\ sock_[t] \in Conns
  BY DEF RunTask, Types, SockTypes
<1>2. task' = task \/ task' = [task EXCEPT ![t] = "gone"]
  BY DEF RunTask, SendBytes, UseFreed, MapFails, Ends
<1>3. up' \in BOOLEAN /\ turns' \in 0..MaxTurns
  <2>1. up' \in BOOLEAN
    BY DEF RunTask, SendBytes, UseFreed, MapFails, Types, TypeOK
  <2>2. turns' = turns \/ (turns < MaxTurns /\ turns' = turns + 1)
    BY DEF RunTask, MapFails, Turn
  <2>3. QED
    BY <2>1, <2>2 DEF Types, TypeOK
<1>4. nSend' \in [Tasks -> 0..Pieces]
  <2>1. nSend \in [Tasks -> 0..Pieces]
    BY DEF Types, TypeOK
  <2>2. CASE nSend' = [nSend EXCEPT ![t] = @ + 1] /\ More(t)
    <3>1. nSend[t] + 1 \in 0..Pieces
      BY <2>1, <2>2 DEF More
    <3>2. QED
      BY <2>1, <2>2, <3>1
  <2>3. QED
    BY <2>1, <2>2 DEF RunTask, SendBytes, UseFreed, MapFails
<1>5. out' \in [Conns -> Seq(Item)]
  <2>1. Piece(t) \in Bytes
    BY DEF Piece, Bytes
  <2>2. out' = out \/ Sent(sock_[t], t, Piece(t))
    BY DEF RunTask, SendBytes, UseFreed, MapFails
  <2>3. QED
    BY <1>1, <2>1, <2>2, SentItem DEF Types, QueueTypes
<1>6. QED
  BY <1>1, <1>2, <1>3, <1>4, <1>5
  DEF Types, TypeOK, QueueTypes, SockTypes, handlerVars, peerVars

LEMMA TypesStep == Types /\ [Next]_vars => Types'
<1> SUFFICES ASSUME Types, [Next]_vars PROVE Types'
  OBVIOUS
<1>1. CASE StopOrResumeJob
  <2>1. turns' \in 0..MaxTurns
    <3>1. turns' = turns \/ (turns < MaxTurns /\ turns' = turns + 1)
      BY <1>1 DEF StopOrResumeJob, Turn
    <3>2. QED
      BY <3>1 DEF Types, TypeOK
  <2>2. is_stopped' \in BOOLEAN
    BY <1>1 DEF StopOrResumeJob
  <2>3. QED
    BY <1>1, <2>1, <2>2
    DEF StopOrResumeJob, Types, TypeOK, QueueTypes, SockTypes, handlerVars, taskVars, peerVars
<1>2. CASE UNCHANGED vars
  BY <1>2 DEF vars, Types, TypeOK, QueueTypes, SockTypes, handlerVars, taskVars, peerVars
<1>3. QED
  BY <1>1, <1>2, TypesPeer, TypesReactor, TypesTask DEF Next

\* Every reachable state of the uploading side is well typed.
THEOREM UploadTypes == Spec => []TypeOK
<1>1. Types => TypeOK
  BY DEF Types
<1>2. QED
  BY <1>1, TypesInit, TypesStep, PTL DEF Spec
-----------------------------------------------------------------------------
(* Sockets.                                                                *)

\* A task that waits or runs has the handler whose socket it refers to, or its peer
\* has closed, or its connection is out of step.
Sheltered(t) == task[t] \in {"made", "runs"} =>
                    sock_[t] \in handler \/ peer[sock_[t]] = "closed" \/ sock_[t] \in dirty
Shelter == \A t \in Tasks : Sheltered(t)

\* A closed connection stays closed, one that is out of step remains so, and no other step
\* deletes a handler.
LEMMA ShelterKept ==
    ASSUME Types, Shelter,
           \A k \in Conns : peer[k] = "closed" => peer'[k] = "closed", dirty \subseteq dirty',
           \A k \in handler \ handler' : peer'[k] = "closed" \/ k \in dirty',
           \A t \in Tasks : task'[t] \in {"made", "runs"} =>
               \/ task[t] \in {"made", "runs"} /\ sock_'[t] = sock_[t]
               \/ sock_'[t] \in handler \cap handler'
    PROVE  Shelter'
<1> SUFFICES ASSUME NEW t \in Tasks, task'[t] \in {"made", "runs"}
             PROVE  \/ sock_'[t] \in handler' \/ peer'[sock_'[t]] = "closed"
                    \/ sock_'[t] \in dirty'
  BY DEF Shelter, Sheltered
<1>1. CASE task[t] \in {"made", "runs"} /\ sock_'[t] = sock_[t]
  BY <1>1 DEF Types, SockTypes, Shelter, Sheltered
<1>2. QED
  BY <1>1

LEMMA ShelterReadable ==
    ASSUME Types, Shelter, NEW k \in Conns, onReadable(k)
    PROVE  Shelter'
<1>1. k \in handler /\ peer' = peer /\ dirty \subseteq dirty'
  BY RequestFacts
<1>2. CASE Throws
  BY <1>1, <1>2, ShelterKept DEF Throws, handlerVars
<1>3. CASE ReceiveFails(k) /\ k \in dirty'
  BY <1>1, <1>3, ShelterKept DEF ReceiveFails
<1>4. ASSUME NEW r \in Request, Process(k, r) PROVE Shelter'
  <2>1. handler' = handler
    BY <1>4 DEF Process
  <2>2. CASE UNCHANGED <<task, sock_>>
    BY <1>1, <2>1, <2>2, ShelterKept
  <2>3. CASE /\ task' = [task EXCEPT ![r.id] = "made"]
             /\ sock_' = [sock_ EXCEPT ![r.id] = k]
    <3>1. \A t \in Tasks : \/ t = r.id /\ sock_'[t] = k
                           \/ task'[t] = task[t] /\ sock_'[t] = sock_[t]
      BY <2>3 DEF Types, TypeOK
    <3>2. QED
      BY <1>1, <2>1, <3>1, ShelterKept
  <2>4. QED
    BY <1>4, <2>2, <2>3 DEF Process, HandleUploadRequest
<1>5. ASSUME NEW r \in Request, SendPart(k, r) PROVE Shelter'
  <2>1. handler' = handler \ {k} /\ peer[k] = "closed" /\ sock_' = sock_
        /\ \A t \in Tasks : task'[t] = task[t] \/ task'[t] = "gone"
    BY <1>5 DEF SendPart, Types, TypeOK
  <2>2. QED
    BY <1>1, <2>1, ShelterKept
<1>6. QED
  BY <1>2, <1>3, <1>4, <1>5, ReadableCases DEF Reply

LEMMA ShelterStep == Types /\ Shelter /\ [Next]_vars => Shelter'
<1> SUFFICES ASSUME Types, Shelter, [Next]_vars PROVE Shelter'
  OBVIOUS
<1>1. CASE PeerStep
  <2>1. UNCHANGED <<task, sock_>> /\ handler \subseteq handler' /\ dirty \subseteq dirty'
    BY <1>1 DEF PeerStep, taskVars, handlerVars, Connect, Ask, Read, FindsClosed, Leave, Close
  <2>2. \A k \in Conns : peer[k] = "closed" => peer'[k] = "closed"
    BY <1>1 DEF PeerStep, Connect, Ask, Read, FindsClosed, Leave, Close, Types, TypeOK
  <2>3. QED
    BY <2>1, <2>2, ShelterKept
<1>2. ASSUME NEW k \in Conns, StartTask(k) PROVE Shelter'
  <2>1. UNCHANGED <<handler, peer, dirty, sock_>>
    BY <1>2 DEF StartTask, peerVars
  <2>2. \A t \in Tasks : task'[t] \in {"made", "runs"} => task[t] \in {"made", "runs"}
    BY <1>2 DEF StartTask, Types, TypeOK
  <2>3. QED
    BY <2>1, <2>2, ShelterKept
<1>3. CASE onShutdown \/ \E k \in Conns : DeleteHandler(k)
  <2>1. UNCHANGED <<task, sock_, dirty>>
    BY <1>3 DEF onShutdown, DeleteHandler, taskVars, peerVars
  <2>2. /\ \A k \in Conns : peer[k] = "closed" => peer'[k] = "closed"
        /\ \A k \in handler \ handler' : peer'[k] = "closed"
    BY <1>3 DEF onShutdown, DeleteHandler, Disconnected, peerVars, Types, TypeOK
  <2>3. QED
    BY <2>1, <2>2, ShelterKept
<1>4. ASSUME NEW t \in Tasks, RunTask(t) PROVE Shelter'
  <2>1. UNCHANGED <<handler, peer, dirty, sock_>>
    BY <1>4 DEF RunTask, handlerVars, peerVars
  <2>2. \A u \in Tasks : task'[u] = task[u] \/ task'[u] = "gone"
    BY <1>4 DEF RunTask, SendBytes, UseFreed, MapFails, Ends, Types, TypeOK
  <2>3. QED
    BY <2>1, <2>2, ShelterKept
<1>5. CASE StopOrResumeJob \/ UNCHANGED vars
  BY <1>5, ShelterKept DEF StopOrResumeJob, vars, taskVars, handlerVars, peerVars
<1>6. QED
  BY <1>1, <1>2, <1>3, <1>4, <1>5, ShelterReadable DEF Next, Reactor
-----------------------------------------------------------------------------
(* Replies and chunks.                                                     *)

\* The tasks that have still something to send over a connection.
Busy(k) == {t \in Tasks : /\ sock_[t] = k
                          /\ task[t] = "made" \/ (task[t] = "runs" /\ nSend[t] < Pieces)}

Parts == {"more", "last"}

\* An idle peer has nothing unread, unanswered or still to be sent.  Of a request, either
\* it is on its way, or what was sent is its reply and then the pieces of its chunk,
\* and only its own task can add to them; nothing follows a refusal or a last piece.
Orderly(k) ==
    /\ peer[k] \in {"none", "idle", "closed"} => out[k] = << >>
    /\ peer[k] \in {"none", "idle"} => inbox[k] = << >> /\ Busy(k) = {}
    /\ peer[k] \in {"reply", "chunk"} =>
        /\ \A t \in Busy(k) : t = asking[k]
        /\ \A i \in DOMAIN out[k] :
              /\ out[k][i].id = asking[k]
              /\ out[k][i].what \in (IF i = 1 /\ peer[k] = "reply" THEN Replies ELSE Parts)
              /\ out[k][i].what \notin {"ok", "more"} => i = Len(out[k]) /\ Busy(k) = {}
        /\ inbox[k] # << >> => /\ peer[k] = "reply" /\ out[k] = << >> /\ Busy(k) = {}
                               /\ Len(inbox[k]) = 1 /\ Head(inbox[k]).id = asking[k]
        /\ Busy(k) # {} => peer[k] = "chunk" \/ out[k] # << >>
Order == \A k \in Conns \ dirty : Orderly(k)

LEMMA OrderCalm ==
    ASSUME NEW k, Orderly(k), Busy(k)' \subseteq Busy(k),
           peer'[k] = peer[k], asking'[k] = asking[k], inbox'[k] = inbox[k], out'[k] = out[k]
    PROVE  Orderly(k)'
  BY DEF Orderly

LEMMA BusyShrinks ==
    ASSUME UNCHANGED <<sock_, nSend>>,
           \A t \in Tasks : \/ task'[t] \in {task[t], "gone"}
                            \/ task[t] = "made" /\ task'[t] = "runs",
           NEW k
    PROVE  Busy(k)' \subseteq Busy(k)
  BY DEF Busy

LEMMA TailOfOne ==
    ASSUME NEW S, NEW s \in Seq(S), Len(s) = 1
    PROVE  Tail(s) = << >>
<1>1. Tail(s) \in Seq(S) /\ Len(Tail(s)) = 0
  OBVIOUS
<1>2. \A t \in Seq(S) : Len(t) = 0 => t = << >>
  OBVIOUS
<1>3. QED
  BY <1>1, <1>2

LEMMA OrderRead ==
    ASSUME Types, NEW k \in Conns, Orderly(k), Read(k), UNCHANGED taskVars
    PROVE  Orderly(k)'
<1> DEFINE o == out[k]
<1>1. /\ peer[k] \in {"reply", "chunk"} /\ o # << >> /\ o \in Seq(Item)
      /\ peer'[k] = Understood(k, Head(o)) /\ out'[k] = Tail(o)
      /\ asking'[k] = asking[k] /\ inbox'[k] = inbox[k] /\ Busy(k)' = Busy(k)
  BY DEF Read, Types, TypeOK, QueueTypes, taskVars, Busy
<1>2. /\ Len(o) \in Nat \ {0} /\ DOMAIN o = 1..Len(o) /\ Head(o) = o[1]
      /\ Len(Tail(o)) = Len(o) - 1
      /\ \A i \in 1..(Len(o) - 1) : Tail(o)[i] = o[i + 1] /\ i + 1 \in DOMAIN o
      /\ DOMAIN Tail(o) = 1..(Len(o) - 1)
  BY <1>1
<1>3. /\ inbox[k] = << >> /\ \A t \in Busy(k) : t = asking[k]
      /\ \A i \in DOMAIN o : /\ o[i].id = asking[k]
                             /\ o[i].what \in (IF i = 1 /\ peer[k] = "reply" THEN Replies ELSE Parts)
                             /\ o[i].what \notin {"ok", "more"} => i = Len(o) /\ Busy(k) = {}
  BY <1>1 DEF Orderly
<1>4. 1 \in DOMAIN o
  BY <1>2
<1>5. CASE o[1].what = Continues(k)
  <2>1. peer'[k] = "chunk"
    BY <1>1, <1>2, <1>3, <1>4, <1>5 DEF Understood
  <2>2. \A i \in DOMAIN Tail(o) :
           /\ Tail(o)[i].id = asking[k] /\ Tail(o)[i].what \in Parts
           /\ Tail(o)[i].what \notin {"ok", "more"} => i = Len(Tail(o)) /\ Busy(k) = {}
    <3>1. TAKE i \in DOMAIN Tail(o)
    <3>2. i \in 1..(Len(o) - 1) /\ i + 1 # 1 /\ i + 1 \in DOMAIN o /\ Tail(o)[i] = o[i + 1]
      BY <1>2
    <3>3. i + 1 = Len(o) => i = Len(Tail(o))
      BY <1>2, <3>2
    <3>4. QED
      BY <1>3, <3>2, <3>3
  <2>3. QED
    BY <1>1, <1>3, <2>1, <2>2 DEF Orderly
<1>6. CASE o[1].what # Continues(k)
  <2>1. peer'[k] = "idle"
    BY <1>1, <1>2, <1>6 DEF Understood
  <2>2. o[1].what \notin {"ok", "more"}
    BY <1>1, <1>3, <1>4, <1>6 DEF Continues, Replies, Parts
  <2>3. Len(o) = 1 /\ Busy(k) = {}
    BY <1>3, <1>4, <2>2
  <2>4. Tail(o) = << >>
    BY <1>1, <2>3, TailOfOne
  <2>5. QED
    BY <1>1, <1>3, <2>1, <2>3, <2>4 DEF Orderly
<1>7. QED
  BY <1>5, <1>6

LEMMA OrderAsk ==
    ASSUME Types, NEW k \in Conns, Orderly(k), Ask(k), UNCHANGED taskVars
    PROVE  Orderly(k)'
<1>1. PICK kind \in Kinds : inbox' = [inbox EXCEPT ![k] = Append(@, [id |-> asked', kind |-> kind])]
  BY DEF Ask
<1>2. /\ inbox[k] = << >> /\ Busy(k) = {} /\ out[k] = << >> /\ out' = out
      /\ peer'[k] = "reply" /\ asking'[k] = asked' /\ Busy(k)' = Busy(k)
  BY DEF Ask, Orderly, Types, TypeOK, taskVars, Busy
<1>3. inbox'[k] = <<[id |-> asked', kind |-> kind]>>
  BY <1>1, <1>2 DEF Types, QueueTypes
<1>4. Len(inbox'[k]) = 1 /\ Head(inbox'[k]).id = asked' /\ DOMAIN out'[k] = {}
  BY <1>2, <1>3
<1>5. QED
  BY <1>2, <1>4 DEF Orderly

LEMMA OrderPeer ==
    ASSUME Types, Order, PeerStep
    PROVE  Order'
<1> USE DEF Types, TypeOK, QueueTypes
<1>1. PICK k \in Conns : Connect(k) \/ Ask(k) \/ Read(k) \/ FindsClosed(k) \/ Leave(k) \/ Close(k)
  BY DEF PeerStep
<1>2. UNCHANGED taskVars /\ \A j : Busy(j)' = Busy(j)
  BY DEF PeerStep, taskVars, Busy
<1>3. dirty \subseteq dirty' /\ (Leave(k) => k \in dirty')
  BY <1>1 DEF Connect, Ask, Read, FindsClosed, Leave, Close
<1>4. ASSUME NEW j \in Conns \ dirty', j # k PROVE Orderly(j)'
  <2>1. /\ peer'[j] = peer[j] /\ asking'[j] = asking[j] /\ inbox'[j] = inbox[j]
        /\ out'[j] = out[j]
    BY <1>1, <1>4 DEF Connect, Ask, Read, FindsClosed, Leave, Close
  <2>2. QED
    BY <1>2, <1>3, <1>4, <2>1, OrderCalm DEF Order
<1>5. ASSUME k \notin dirty' PROVE Orderly(k)'
  <2>1. Orderly(k) /\ ~Leave(k)
    BY <1>3, <1>5 DEF Order
  <2>2. CASE Connect(k)
    <3>1. /\ peer[k] = "none" /\ peer'[k] = "idle" /\ inbox'[k] = inbox[k] /\ out'[k] = out[k]
      BY <2>2 DEF Connect
    <3>2. QED
      BY <1>2, <2>1, <3>1 DEF Orderly
  <2>3. CASE Close(k)
    <3>1. peer'[k] = "closed" /\ out'[k] = << >>
      BY <2>3 DEF Close
    <3>2. QED
      BY <3>1 DEF Orderly
  <2>4. CASE FindsClosed(k)
    <3>1. peer'[k] = "closed" /\ out'[k] = << >>
      BY <2>4 DEF FindsClosed
    <3>2. QED
      BY <3>1 DEF Orderly
  <2>5. QED
    BY <1>1, <1>2, <2>1, <2>2, <2>3, <2>4, OrderRead, OrderAsk
<1>6. QED
  BY <1>4, <1>5 DEF Order

\* A packet that is taken by the handler of k leaves the other connections alone.
LEMMA ReadableOthers ==
    ASSUME Types, NEW k \in Conns, onReadable(k), NEW j \in Conns \ {k}
    PROVE  /\ peer'[j] = peer[j] /\ asking'[j] = asking[j] /\ inbox'[j] = inbox[j]
           /\ out'[j] = out[j] /\ Busy(j)' \subseteq Busy(j)
<1>1. UNCHANGED <<nSend, peer, asking>> /\ inbox'[j] = inbox[j]
  BY RequestFacts
<1>2. CASE Throws
  BY <1>1, <1>2 DEF Throws, Busy
<1>3. CASE ReceiveFails(k)
  <2>1. out'[j] = out[j]
    BY <1>3 DEF ReceiveFails, Types, QueueTypes
  <2>2. QED
    BY <1>1, <1>3, <2>1 DEF ReceiveFails, Busy
<1>4. ASSUME NEW r \in Request, Process(k, r), ~AssertFails(r)
      PROVE  out'[j] = out[j] /\ Busy(j)' \subseteq Busy(j)
  <2>1. r.id \in Tasks /\ Code(r.kind) \in Bytes
    BY <1>4, CodeType DEF Request
  <2>2. out'[j] = out[j]
    BY <1>4, <2>1, SentItem DEF Process, Types
  <2>3. \/ UNCHANGED <<task, sock_>>
        \/ /\ task' = [task EXCEPT ![r.id] = "made"] /\ sock_' = [sock_ EXCEPT ![r.id] = k]
    BY <1>4 DEF Process, HandleUploadRequest
  <2>4. \/ UNCHANGED <<task, sock_>>
        \/ /\ \A t \in Tasks \ {r.id} : task'[t] = task[t] /\ sock_'[t] = sock_[t]
           /\ sock_'[r.id] = k
    BY <2>1, <2>3 DEF Types, TypeOK
  <2>5. Busy(j)' \subseteq Busy(j)
    BY <1>1, <2>4 DEF Busy
  <2>6. QED
    BY <2>2, <2>5
<1>5. ASSUME NEW r \in Request, SendPart(k, r)
      PROVE  out'[j] = out[j] /\ Busy(j)' \subseteq Busy(j)
  <2>1. /\ UNCHANGED <<sock_, out>>
        /\ \A t \in Tasks : task'[t] \in {task[t], "gone"}
    BY <1>5 DEF SendPart, Types, TypeOK
  <2>2. QED
    BY <1>1, <2>1, BusyShrinks
<1>6. QED
  BY <1>1, <1>2, <1>3, <1>4, <1>5, ReadableCases DEF Reply

LEMMA OrderReadable ==
    ASSUME Types, Order, NEW k \in Conns, onReadable(k)
    PROVE  Order'
<1>1. dirty \subseteq dirty'
  BY RequestFacts
<1>2. ASSUME NEW j \in Conns \ dirty', j # k PROVE Orderly(j)'
  BY <1>1, <1>2, ReadableOthers, OrderCalm DEF Order
<1>3. ASSUME k \notin dirty' PROVE Orderly(k)'
  <2> DEFINE r == Head(inbox[k])
  <2>1. /\ r \in Request /\ inbox[k] # << >> /\ inbox'[k] = Tail(inbox[k])
        /\ UNCHANGED <<nSend, peer, asking>> /\ ReadWhole(k) /\ inbox[k] \in Seq(Request)
    BY <1>3, RequestFacts DEF Types, QueueTypes
  <2>2. Orderly(k)
    BY <1>1, <1>3 DEF Order
  <2>3. peer[k] \in {"reply", "closed"}
    BY <2>1, <2>2 DEF Orderly, Types, TypeOK
  <2>4. peer[k] = "reply" => /\ out[k] = << >> /\ Busy(k) = {} /\ inbox'[k] = << >>
                             /\ Len(inbox[k]) = 1 /\ r.id = asking[k]
    BY <2>1, <2>2, TailOfOne DEF Orderly
  <2> HIDE DEF r
  <2>5. CASE Throws
    <3>1. UNCHANGED out /\ Busy(k)' = Busy(k)
      BY <2>1, <2>5 DEF Throws, Busy
    <3>2. QED
      BY <2>1, <2>2, <2>3, <2>4, <3>1 DEF Orderly
  <2>6. CASE Process(k, r) /\ ~AssertFails(r)
    <3>1. /\ r.kind # "rest" /\ r.id \in Tasks /\ Code(r.kind) \in Replies
          /\ Code(r.kind) \in Bytes /\ (r.kind # "chunk" => Code(r.kind) # "ok")
      BY <2>1, <2>6, CodeType DEF ReadWhole, Request, r
    <3>2. CASE peer[k] = "closed"
      <4>1. out'[k] = out[k]
        BY <2>6, <3>1, <3>2, SentItem DEF Process, Types
      <4>2. QED
        BY <2>1, <2>2, <3>2, <4>1 DEF Orderly
    <3>3. CASE peer[k] = "reply"
      <4>1. out'[k] = <<[id |-> r.id, what |-> Code(r.kind)]>>
        BY <2>4, <2>6, <3>1, <3>3, SentItem DEF Process, Types
      <4>2. /\ Len(out'[k]) = 1 /\ DOMAIN out'[k] = {1} /\ out'[k] # << >>
            /\ out'[k][1].id = asking[k] /\ out'[k][1].what = Code(r.kind)
        BY <2>4, <3>3, <4>1
      <4>3. \/ r.kind # "chunk" /\ UNCHANGED <<task, sock_>>
            \/ task' = [task EXCEPT ![r.id] = "made"] /\ sock_' = [sock_ EXCEPT ![r.id] = k]
        BY <2>6 DEF Process, HandleUploadRequest
      <4>4. \/ r.kind # "chunk" /\ UNCHANGED <<task, sock_>>
            \/ \A t \in Tasks \ {r.id} : task'[t] = task[t] /\ sock_'[t] = sock_[t]
        BY <3>1, <4>3 DEF Types, TypeOK
      <4>5. /\ Busy(k)' \subseteq Busy(k) \cup {r.id}
            /\ r.kind # "chunk" => Busy(k)' = Busy(k)
        <5>1. CASE r.kind # "chunk" /\ UNCHANGED <<task, sock_>>
          BY <2>1, <5>1 DEF Busy
        <5>2. CASE r.kind = "chunk"
          BY <2>1, <4>4, <5>2 DEF Busy
        <5>3. QED
          BY <2>6, <5>1, <5>2 DEF Process, HandleUploadRequest
      <4>6. Code(r.kind) # "ok" => Busy(k)' = {}
        BY <2>4, <3>3, <4>5 DEF Code
      <4>7. peer'[k] = "reply" /\ asking'[k] = asking[k] /\ inbox'[k] = << >>
            /\ \A t \in Busy(k)' : t = asking[k]
        BY <2>1, <2>4, <3>3, <4>5
      <4>8. QED
        BY <3>1, <4>2, <4>6, <4>7 DEF Orderly
    <3>4. QED
      BY <2>3, <3>2, <3>3
  <2>7. CASE SendPart(k, r)
    BY <2>1, <2>2, <2>7 DEF SendPart, Orderly
  <2>8. QED
    BY <2>1, <2>5, <2>6, <2>7 DEF ReadWhole, Reply, r
<1>4. QED
  BY <1>2, <1>3 DEF Order

LEMMA OrderTask ==
    ASSUME Types, Order, NEW t \in Tasks, RunTask(t)
    PROVE  Order'
<1>1. UNCHANGED <<sock_, peer, asking, dirty, inbox>> /\ task[t] = "runs"
  BY DEF RunTask, peerVars
<1> PICK k \in Conns : k = sock_[t]
  BY <1>1 DEF Types, SockTypes
<1>2. CASE UNCHANGED <<nSend, out>> /\ (task' = task \/ Ends(t))
  <2>1. \A j : Busy(j)' \subseteq Busy(j)
    BY <1>1, <1>2, BusyShrinks DEF Ends, Types, TypeOK
  <2>2. QED
    BY <1>1, <1>2, <2>1, OrderCalm DEF Order
<1>3. CASE /\ Sent(k, t, Piece(t)) /\ More(t) /\ nSend' = [nSend EXCEPT ![t] = @ + 1]
           /\ UNCHANGED task
  <2>1. Piece(t) \in Parts /\ Piece(t) \in Bytes
    BY DEF Piece, Parts, Bytes
  <2>2. nSend'[t] = nSend[t] + 1 /\ nSend[t] \in Nat /\ nSend[t] < Pieces
        /\ \A u \in Tasks \ {t} : nSend'[u] = nSend[u]
    BY <1>3 DEF More, Types, TypeOK
  <2>3. /\ \A j : Busy(j)' \subseteq Busy(j) /\ t \in Busy(k)
        /\ Piece(t) = "last" => t \notin Busy(k)'
    BY <1>1, <1>3, <2>2 DEF Busy, Piece
  <2>4. ASSUME NEW j \in Conns \ dirty, j # k PROVE Orderly(j)'
    <3>1. out'[j] = out[j]
      BY <1>1, <1>3, <2>1, <2>4, SentItem DEF Types
    <3>2. QED
      BY <1>1, <2>3, <2>4, <3>1, OrderCalm DEF Order
  <2>5. ASSUME k \notin dirty PROVE Orderly(k)'
    <3> DEFINE o == out[k]  p == [id |-> t, what |-> Piece(t)]
    <3>1. Orderly(k) /\ peer[k] \in {"none", "idle", "reply", "chunk", "closed"}
      BY <1>1, <2>5 DEF Order, Types, TypeOK
    <3>2. CASE peer[k] = "closed"
      <4>1. out'[k] = out[k]
        BY <1>1, <1>3, <2>1, <3>2, SentItem DEF Types
      <4>2. QED
        BY <1>1, <3>1, <3>2, <4>1 DEF Orderly
    <3>3. CASE peer[k] # "closed"
      <4>1. /\ peer[k] \in {"reply", "chunk"} /\ t = asking[k] /\ Busy(k) = {t}
            /\ peer[k] = "chunk" \/ o # << >>
        BY <2>3, <3>1, <3>3 DEF Orderly
      <4>2. inbox[k] = << >>
        BY <3>1, <4>1 DEF Orderly
      <4>3. o \in Seq(Item) /\ out'[k] = Append(o, p)
        BY <1>1, <1>3, <2>1, <3>3, SentItem DEF Types, QueueTypes
      <4>4. /\ Len(o) \in Nat /\ DOMAIN o = 1..Len(o) /\ Len(Append(o, p)) = Len(o) + 1
            /\ DOMAIN Append(o, p) = 1..(Len(o) + 1) /\ Append(o, p)[Len(o) + 1] = p
            /\ \A i \in 1..Len(o) : Append(o, p)[i] = o[i]
        BY <4>3
      <4>5. \A i \in DOMAIN o : o[i].what \in {"ok", "more"} /\ o[i].id = asking[k]
        BY <3>1, <4>1 DEF Orderly
      <4>6. Len(o) + 1 = 1 => peer[k] = "chunk"
        BY <4>1, <4>3
      <4>7. Piece(t) \notin {"ok", "more"} => Busy(k)' = {}
        BY <2>1, <2>3, <4>1 DEF Parts
      <4>8. \A i \in DOMAIN out'[k] :
              /\ out'[k][i].id = asking[k]
              /\ out'[k][i].what \in (IF i = 1 /\ peer[k] = "reply" THEN Replies ELSE Parts)
              /\ out'[k][i].what \notin {"ok", "more"} => i = Len(out'[k]) /\ Busy(k)' = {}
        <5>1. TAKE i \in DOMAIN out'[k]
        <5>2. CASE i \in DOMAIN o
          <6>1. out'[k][i] = o[i] /\ o[i].what \in {"ok", "more"}
            BY <4>3, <4>4, <4>5, <5>2
          <6>2. /\ o[i].id = asking[k]
                /\ o[i].what \in (IF i = 1 /\ peer[k] = "reply" THEN Replies ELSE Parts)
            BY <3>1, <4>1, <5>2 DEF Orderly
          <6>3. QED
            BY <6>1, <6>2
        <5>3. CASE i = Len(o) + 1
          <6>1. out'[k][i] = p /\ i = Len(out'[k])
            BY <4>3, <4>4, <5>3
          <6>2. p.id = asking[k] /\ p.what = Piece(t)
            BY <4>1
          <6>3. ~(i = 1 /\ peer[k] = "reply")
            BY <4>6, <5>3
          <6>4. QED
            BY <2>1, <4>7, <6>1, <6>2, <6>3
        <5>4. QED
          BY <4>3, <4>4, <5>1, <5>2, <5>3
      <4>9. out'[k] # << >>
        BY <4>3
      <4>10. QED
        BY <1>1, <2>3, <4>1, <4>2, <4>8, <4>9 DEF Orderly
    <3>4. QED
      BY <3>2, <3>3
  <2>6. QED
    BY <1>1, <2>4, <2>5 DEF Order
<1>4. QED
  BY <1>2, <1>3 DEF RunTask, SendBytes, UseFreed, MapFails

LEMMA OrderStep == Types /\ Order /\ [Next]_vars => Order'
<1> SUFFICES ASSUME Types, Order, [Next]_vars PROVE Order'
  OBVIOUS
<1>1. ASSUME UNCHANGED <<sock_, nSend, peer, asking, dirty, inbox, out>>,
             \A t \in Tasks : \/ task'[t] \in {task[t], "gone"}
                              \/ task[t] = "made" /\ task'[t] = "runs"
      PROVE  Order'
  BY <1>1, BusyShrinks, OrderCalm DEF Order
<1>2. ASSUME NEW k \in Conns, StartTask(k) PROVE Order'
  <2>1. \A t \in Tasks : \/ task'[t] \in {task[t], "gone"}
                         \/ task[t] = "made" /\ task'[t] = "runs"
    BY <1>2 DEF StartTask, Types, TypeOK
  <2>2. QED
    BY <1>1, <1>2, <2>1 DEF StartTask, peerVars
<1>3. ASSUME NEW k \in Conns, DeleteHandler(k) PROVE Order'
  BY <1>1, <1>3 DEF DeleteHandler, taskVars, peerVars
<1>4. CASE onShutdown
  BY <1>4 DEF onShutdown, Order, Orderly
<1>5. CASE StopOrResumeJob \/ UNCHANGED vars
  BY <1>1, <1>5 DEF StopOrResumeJob, vars, taskVars, peerVars
<1>6. QED
  BY <1>2, <1>3, <1>4, <1>5, OrderPeer, OrderReadable, OrderTask DEF Next, Reactor

LEMMA OrderInit == Init => Shelter /\ Order
  BY DEF Init, Shelter, Sheltered, Order, Orderly, Busy

\* The reactor thread and a pool thread write to one socket without a lock, and still on a
\* connection that is in step the peer finds what it waits for: the reply to its last
\* request, and then the pieces of its chunk and nothing else.
THEOREM InStepAlways == Spec => []InStep
<1>1. Types /\ Order => InStep
  <2> SUFFICES ASSUME Types, Order, NEW k \in Conns \ dirty, out[k] # << >>
               PROVE  /\ peer[k] \in {"reply", "chunk"} /\ Head(out[k]).id = asking[k]
                      /\ Head(out[k]).what \in (IF peer[k] = "reply" THEN Replies
                                                ELSE {"more", "last"})
    BY DEF InStep
  <2>1. Orderly(k) /\ peer[k] \in {"none", "idle", "reply", "chunk", "closed"}
    BY DEF Order, Types, TypeOK
  <2>2. 1 \in DOMAIN out[k] /\ Head(out[k]) = out[k][1]
    BY DEF Types, QueueTypes
  <2>3. QED
    BY <2>1, <2>2 DEF Orderly, Parts
<1>2. QED
  BY <1>1, OrderInit, TypesInit, TypesStep, OrderStep, PTL DEF Spec

\* A handler deletes itself only at the end of onReadable and when the far end is closed:
\* of a connection in step, with a request there is no task that has still to send.
LEMMA SocketStep ==
    ASSUME Types, Order, [Next]_vars,
           NEW t \in Running, More(t), sock_[t] \in handler \ handler'
    PROVE  peer'[sock_[t]] = "closed" \/ sock_[t] \in dirty
<1>1. t \in Tasks /\ task[t] = "runs" /\ sock_[t] \in Conns
  BY DEF Running, Types, SockTypes
<1> PICK k \in Conns : k = sock_[t]
  BY <1>1
<1>2. ASSUME NEW j \in Conns, onReadable(j) PROVE peer'[k] = "closed" \/ k \in dirty
  <2>1. inbox[j] # << >> /\ peer' = peer
    BY <1>2, RequestFacts
  <2>2. handler \ handler' \subseteq {j}
    <3>1. handler' = handler \/ handler' = handler \ {j}
      BY <1>2 DEF onReadable, ReadWhole, ReadShort, ReceiveFails, Throws, Reply, Process,
                  SendPart, handlerVars
    <3>2. QED
      BY <3>1
  <2>3. k = j /\ t \in Busy(k)
    BY <1>1, <2>2 DEF Busy, More
  <2>4. CASE k \notin dirty
    <3>1. Orderly(k)
      BY <2>4 DEF Order
    <3>2. QED
      BY <2>1, <2>3, <3>1 DEF Orderly, Types, TypeOK
  <2>5. QED
    BY <2>4
<1>3. ASSUME NEW j \in Conns, DeleteHandler(j) PROVE peer'[k] = "closed"
  <2>1. k = j /\ peer[j] = "closed" /\ peer' = peer
    BY <1>3 DEF DeleteHandler, Disconnected, peerVars
  <2>2. QED
    BY <2>1
<1>4. CASE onShutdown
  BY <1>4 DEF onShutdown
<1>5. ASSUME handler \subseteq handler' PROVE peer'[k] = "closed"
  BY <1>5
<1>6. PeerStep => handler \subseteq handler'
  BY DEF PeerStep, Connect, Ask, Read, FindsClosed, Leave, Close, handlerVars
<1>7. /\ (\E j \in Conns : StartTask(j)) => handler' = handler
      /\ StopOrResumeJob \/ (\E u \in Tasks : RunTask(u)) \/ UNCHANGED vars => handler' = handler
  BY DEF StartTask, StopOrResumeJob, RunTask, vars, handlerVars
<1>8. QED
  BY <1>2, <1>3, <1>4, <1>5, <1>6, <1>7 DEF Next, Reactor

\* A running task that has bytes to send keeps the handler whose socket it refers to,
\* unless the far end has closed or the connection was out of step before: the downloader
\* asks only when it has read the last chunk.
THEOREM SocketKeptAlways == Spec => SocketKept
<1>1. Types /\ Order /\ [Next]_vars =>
        [\A t \in Running : More(t) /\ sock_[t] \in handler \ handler' =>
            peer'[sock_[t]] = "closed" \/ sock_[t] \in dirty]_vars
  BY SocketStep
<1>2. QED
  BY <1>1, OrderInit, TypesInit, TypesStep, OrderStep, PTL DEF Spec, SocketKept
-----------------------------------------------------------------------------
(* Ownership of a task.                                                    *)

\* No connection is closed or out of step.
AllOpen == \A k \in Conns : peer[k] # "closed" /\ k \notin dirty

\* A task that a handler owns has not been started, or was deleted by a start that failed;
\* requests that are on their way whole have names of their own, for which there is no
\* task yet.
Owned == \A k \in Conns : pTask[k] # NULL =>
             task[pTask[k]] \in {"made", "gone"} /\ sock_[pTask[k]] = k
Fresh ==
    /\ \A t \in Tasks : t > asked => task[t] = "none"
    /\ \A k \in Conns : \A i \in DOMAIN inbox[k] : inbox[k][i].kind # "rest" =>
          /\ inbox[k][i].id <= asked /\ task[inbox[k][i].id] = "none"
          /\ \A j \in Conns : \A l \in DOMAIN inbox[j] : inbox[j][l].kind # "rest" =>
                (inbox[j][l].id = inbox[k][i].id => j = k /\ l = i)
LeftBehind(k) == k \notin starting /\ pTask[k] # NULL /\ task[pTask[k]] = "gone"
Unfreed == AllOpen => Owned /\ (up \/ \E k \in Conns : LeftBehind(k))

LEMMA OpenBefore ==
    ASSUME Types, [Next]_vars, AllOpen'
    PROVE  AllOpen /\ peer' \in [Conns -> {"none", "idle", "reply", "chunk"}]
<1>1. dirty \subseteq dirty'
  <2>1. ASSUME NEW k \in Conns, onReadable(k) PROVE dirty \subseteq dirty'
    BY <2>1, RequestFacts
  <2>2. QED
    BY <2>1 DEF Next, PeerStep, Connect, Ask, Read, FindsClosed, Leave, Close, Reactor, StartTask,
                DeleteHandler, onShutdown, StopOrResumeJob, RunTask, peerVars, vars
<1>2. \A k \in Conns : peer[k] = "closed" => peer'[k] = "closed"
  <2>1. ASSUME NEW k \in Conns, onReadable(k) PROVE peer' = peer
    BY <2>1, RequestFacts
  <2>2. QED
    BY <2>1 DEF Types, TypeOK, Next, PeerStep, Connect, Ask, Read, FindsClosed, Leave, Close,
                Reactor, StartTask, DeleteHandler, onShutdown, StopOrResumeJob, RunTask, peerVars,
                vars
<1>3. QED
  BY <1>1, <1>2, TypesStep DEF AllOpen, Types, TypeOK

\* With a thread for every request there is one for a task that is to be started.
LEMMA ThreadLeft ==
    ASSUME MaxRequests <= Threads, NEW t \in Tasks, t \notin Running
    PROVE  HasThread
<1>1. IsFiniteSet(Tasks) /\ Cardinality(Tasks) = MaxRequests
  BY FS_Interval DEF Tasks
<1>2. IsFiniteSet(Tasks \ {t}) /\ Cardinality(Tasks \ {t}) = MaxRequests - 1
  BY <1>1, FS_RemoveElement
<1>3. Running \subseteq Tasks \ {t}
  BY DEF Running
<1>4. Cardinality(Running) <= Cardinality(Tasks \ {t})
  BY <1>2, <1>3, FS_Subset
<1>5. Cardinality(Running) \in Nat
  BY <1>2, <1>3, FS_Subset, FS_CardinalityType
<1>6. QED
  BY <1>2, <1>4, <1>5 DEF HasThread

\* The requests on their way are named after tasks.
LEMMA RequestId ==
    ASSUME NEW q \in Seq(Request), NEW i \in DOMAIN q
    PROVE  q[i].id \in Tasks /\ i \in Nat
<1>1. q[i] \in Request /\ i \in Nat
  OBVIOUS
<1>2. QED
  BY <1>1 DEF Request

\* A step after which no request is new keeps Fresh, if it makes no task.
LEMMA FreshKept ==
    ASSUME Fresh, asked' = asked, inbox' = inbox,
           \A t \in Tasks : task[t] = "none" => task'[t] = "none", QueueTypes
    PROVE  Fresh'
<1>1. \A k \in Conns : \A i \in DOMAIN inbox[k] : inbox[k][i].id \in Tasks
  BY RequestId DEF QueueTypes
<1>2. QED
  BY <1>1 DEF Fresh

\* A peer names its request after a task that there is not yet.
LEMMA FreshPeer ==
    ASSUME Types, Fresh, PeerStep
    PROVE  Fresh' /\ UNCHANGED <<up, pTask, task, sock_>>
<1>1. PICK k \in Conns : Connect(k) \/ Ask(k) \/ Read(k) \/ FindsClosed(k) \/ Leave(k) \/ Close(k)
  BY DEF PeerStep
<1>2. UNCHANGED <<up, pTask, task, sock_>>
  BY <1>1 DEF PeerStep, taskVars, Connect, Ask, Read, FindsClosed, Leave, Close, handlerVars
<1>3. CASE Ask(k)
  <2>1. PICK kind \in Kinds : inbox' = [inbox EXCEPT ![k] = Append(@, [id |-> asked', kind |-> kind])]
    BY <1>3 DEF Ask
  <2> DEFINE r == [id |-> asked', kind |-> kind]
  <2>2. asked \in Nat /\ asked' = asked + 1 /\ asked' \in Tasks
    BY <1>3 DEF Ask, Types, TypeOK, Tasks
  <2>3. inbox[k] \in Seq(Request) /\ \A j \in Conns : inbox[j] \in Seq(Request)
    BY DEF Types, QueueTypes
  <2>4. /\ \A j \in Conns \ {k} : inbox'[j] = inbox[j]
        /\ inbox'[k] = Append(inbox[k], r)
    BY <2>1 DEF Types, QueueTypes
  <2>5. /\ DOMAIN inbox'[k] = 1..(Len(inbox[k]) + 1) /\ Len(inbox[k]) \in Nat
        /\ DOMAIN inbox[k] = 1..Len(inbox[k])
        /\ \A i \in DOMAIN inbox[k] : inbox'[k][i] = inbox[k][i]
        /\ inbox'[k][Len(inbox[k]) + 1] = r
    BY <2>3, <2>4
  <2>6. ASSUME NEW j \in Conns, NEW i \in DOMAIN inbox'[j], inbox'[j][i].kind # "rest"
        PROVE  \/ /\ i \in DOMAIN inbox[j] /\ inbox'[j][i] = inbox[j][i]
                  /\ inbox[j][i].id \in Tasks /\ inbox[j][i].id <= asked
               \/ j = k /\ i = Len(inbox[k]) + 1 /\ inbox'[j][i].id = asked'
    <3>1. \/ i \in DOMAIN inbox[j] /\ inbox'[j][i] = inbox[j][i]
          \/ j = k /\ i = Len(inbox[k]) + 1
      BY <2>4, <2>5, <2>6
    <3>2. i \in DOMAIN inbox[j] => inbox[j][i].id \in Tasks
      BY <2>3, RequestId
    <3>3. QED
      BY <2>5, <2>6, <3>1, <3>2 DEF Fresh
  <2>7. \A n \in Tasks : ~(n <= asked /\ n = asked')
    BY <2>2 DEF Tasks
  <2>8. ASSUME NEW j \in Conns, NEW i \in DOMAIN inbox'[j], inbox'[j][i].kind # "rest"
        PROVE  /\ inbox'[j][i].id <= asked' /\ task[inbox'[j][i].id] = "none"
               /\ \A m \in Conns : \A l \in DOMAIN inbox'[m] : inbox'[m][l].kind # "rest" =>
                     (inbox'[m][l].id = inbox'[j][i].id => m = j /\ l = i)
    <3>1. inbox'[j][i].id <= asked' /\ task[inbox'[j][i].id] = "none"
      BY <2>2, <2>6, <2>8 DEF Fresh, Tasks
    <3>2. ASSUME NEW m \in Conns, NEW l \in DOMAIN inbox'[m], inbox'[m][l].kind # "rest",
                 inbox'[m][l].id = inbox'[j][i].id
          PROVE  m = j /\ l = i
      BY <2>2, <2>6, <2>7, <2>8, <3>2 DEF Fresh
    <3>3. QED
      BY <3>1, <3>2
  <2>9. \A t \in Tasks : t > asked' => task[t] = "none"
    BY <2>2 DEF Fresh, Tasks
  <2>10. QED
    BY <1>2, <2>8, <2>9 DEF Fresh
<1>4. CASE ~Ask(k)
  <2>1. asked' = asked /\ inbox' = inbox
    BY <1>1, <1>4 DEF Connect, Read, FindsClosed, Leave, Close
  <2>2. QED
    BY <1>2, <2>1, FreshKept DEF Types
<1>5. QED
  BY <1>2, <1>3, <1>4

\* A whole request that is taken is the only one of its name, and makes no task but its
\* own.
LEMMA FreshReadable ==
    ASSUME Types, Fresh, NEW k \in Conns, onReadable(k),
           \A t \in Tasks : task[t] = "none" /\ task'[t] # "none" =>
               t = Head(inbox[k]).id /\ Head(inbox[k]).kind # "rest"
    PROVE  Fresh'
<1> DEFINE r == Head(inbox[k])
<1>1. /\ r \in Request /\ inbox[k] # << >>
      /\ \A j \in Conns \ {k} : inbox'[j] = inbox[j]
      /\ asked' = asked
  BY RequestFacts
<1>2. PICK c \in {0, 1} : \A i \in DOMAIN inbox'[k] : inbox'[k][i].kind # "rest" =>
                 /\ i \in Nat /\ i + c # 1
                 /\ i + c \in DOMAIN inbox[k] /\ inbox'[k][i] = inbox[k][i + c]
  BY RequestFacts
<1>3. \A j \in Conns : inbox[j] \in Seq(Request)
  BY DEF Types, QueueTypes
<1>4. 1 \in DOMAIN inbox[k] /\ r = inbox[k][1]
  BY <1>1, <1>3
<1>5. r.kind # "rest" => r.id \in Tasks /\ r.id <= asked
  BY <1>1, <1>4 DEF Request, Fresh
<1>6. \A t \in Tasks : task[t] = "none" /\ task'[t] # "none" => t = r.id /\ r.kind # "rest"
  OBVIOUS
<1> HIDE DEF r
<1> DEFINE At(j, i) == IF j = k THEN i + c ELSE i
<1>7. ASSUME NEW j \in Conns, NEW i \in DOMAIN inbox'[j], inbox'[j][i].kind # "rest"
      PROVE  /\ i \in Nat /\ At(j, i) \in DOMAIN inbox[j] /\ inbox'[j][i] = inbox[j][At(j, i)]
             /\ inbox'[j][i].id \in Tasks
             /\ r.kind # "rest" => inbox'[j][i].id # r.id
  <2> DEFINE l == At(j, i)
  <2>1. i \in Nat /\ l \in DOMAIN inbox[j] /\ inbox'[j][i] = inbox[j][l] /\ (j = k => l # 1)
    <3>1. CASE j = k
      BY <1>2, <1>7, <3>1
    <3>2. CASE j # k
      BY <1>1, <1>3, <1>7, <3>2, RequestId
    <3>3. QED
      BY <3>1, <3>2
  <2> HIDE DEF l
  <2>2. inbox[j][l].id \in Tasks
    BY <1>3, <2>1, RequestId
  <2>3. r.kind # "rest" => inbox[j][l].id # r.id
    BY <1>4, <1>7, <2>1 DEF Fresh
  <2>4. QED
    BY <2>1, <2>2, <2>3 DEF l
<1> HIDE DEF At
<1>8. ASSUME NEW j \in Conns, NEW i \in DOMAIN inbox'[j], inbox'[j][i].kind # "rest"
      PROVE  /\ inbox'[j][i].id <= asked' /\ task'[inbox'[j][i].id] = "none"
             /\ \A m \in Conns : \A l \in DOMAIN inbox'[m] : inbox'[m][l].kind # "rest" =>
                    (inbox'[m][l].id = inbox'[j][i].id => m = j /\ l = i)
  <2>1. inbox'[j][i].id <= asked /\ task[inbox'[j][i].id] = "none"
    <3>1. At(j, i) \in DOMAIN inbox[j] /\ inbox'[j][i] = inbox[j][At(j, i)]
      BY <1>7, <1>8
    <3>2. QED
      BY <1>8, <3>1 DEF Fresh
  <2>2. task'[inbox'[j][i].id] = "none"
    BY <1>6, <1>7, <1>8, <2>1
  <2>3. ASSUME NEW m \in Conns, NEW l \in DOMAIN inbox'[m], inbox'[m][l].kind # "rest",
               inbox'[m][l].id = inbox'[j][i].id
        PROVE  m = j /\ l = i
    <3>1. /\ At(j, i) \in DOMAIN inbox[j] /\ inbox'[j][i] = inbox[j][At(j, i)] /\ i \in Nat
          /\ At(m, l) \in DOMAIN inbox[m] /\ inbox'[m][l] = inbox[m][At(m, l)] /\ l \in Nat
      BY <1>7, <1>8, <2>3
    <3>2. m = j /\ At(m, l) = At(j, i)
      BY <1>8, <2>3, <3>1 DEF Fresh
    <3>3. QED
      BY <3>1, <3>2 DEF At
  <2>4. QED
    BY <1>1, <2>1, <2>2, <2>3
<1>9. \A t \in Tasks : t > asked' => task'[t] = "none"
  <2>1. \A t \in Tasks : t > asked => ~(t = r.id /\ r.kind # "rest")
    BY <1>5 DEF Tasks, Types, TypeOK
  <2>2. QED
    BY <1>1, <1>6, <2>1 DEF Fresh
<1>10. QED
  BY <1>8, <1>9 DEF Fresh

LEMMA RequestTaken ==
    ASSUME Types, Fresh, NEW k \in Conns, onReadable(k), Head(inbox[k]).kind # "rest"
    PROVE  Head(inbox[k]).id \in Tasks /\ task[Head(inbox[k]).id] = "none"
<1>1. Head(inbox[k]) \in Request /\ inbox[k] # << >> /\ inbox[k] \in Seq(Request)
  BY RequestFacts DEF Types, QueueTypes
<1>2. 1 \in DOMAIN inbox[k] /\ Head(inbox[k]) = inbox[k][1]
  BY <1>1
<1>3. QED
  BY <1>1, <1>2 DEF Request, Fresh

\* What onReadable does to the tasks: it makes the one of its request, or it deletes that
\* one or the one that its handler owns.
LEMMA ReadableTasks ==
    ASSUME Types, Fresh, NEW k \in Conns, onReadable(k)
    PROVE  LET r == Head(inbox[k]) IN
           /\ starting = {} /\ starting' \subseteq {k}
           /\ \/ UNCHANGED <<pTask, task, sock_>>
              \/ /\ r.kind = "chunk" /\ r.id \in Tasks /\ task[r.id] = "none"
                 /\ pTask' = [pTask EXCEPT ![k] = r.id] /\ sock_' = [sock_ EXCEPT ![r.id] = k]
                 /\ task' = [task EXCEPT ![r.id] = "made"]
              \/ /\ UNCHANGED <<pTask, sock_>> /\ peer[k] = "closed"
                 /\ \E t \in Tasks : /\ task' = [task EXCEPT ![t] = "gone"]
                                     /\ \/ t = pTask[k]
                                        \/ r.kind = "chunk" /\ t = r.id /\ task[t] = "none"
<1> DEFINE h == Head(inbox[k])
<1>1. starting = {} /\ h \in Request
  BY RequestFacts
<1>2. h.kind = "chunk" => h.id \in Tasks /\ task[h.id] = "none"
  BY RequestTaken
<1> HIDE DEF h
<1>3. CASE Throws
  BY <1>1, <1>3 DEF Throws, handlerVars
<1>4. CASE ReceiveFails(k)
  BY <1>1, <1>4 DEF ReceiveFails
<1>5. ASSUME NEW r \in Request, Process(k, r), r.kind = "chunk" => r = h
      PROVE  /\ starting' \subseteq {k}
             /\ \/ UNCHANGED <<pTask, task, sock_>>
                \/ /\ h.kind = "chunk"
                   /\ pTask' = [pTask EXCEPT ![k] = h.id] /\ sock_' = [sock_ EXCEPT ![h.id] = k]
                   /\ task' = [task EXCEPT ![h.id] = "made"]
  <2>1. starting' \subseteq {k}
    BY <1>1, <1>5 DEF Process
  <2>2. QED
    BY <1>5, <2>1 DEF Process, HandleUploadRequest
<1>6. ASSUME NEW r \in Request, SendPart(k, r), r.kind = "chunk" => r = h
      PROVE  /\ UNCHANGED <<pTask, starting, sock_>> /\ peer[k] = "closed"
             /\ \/ task' = task
                \/ \E t \in Tasks : /\ task' = [task EXCEPT ![t] = "gone"]
                                    /\ \/ t = pTask[k]
                                       \/ h.kind = "chunk" /\ t = h.id
  <2>1. pTask[k] \in Tasks \cup {NULL} /\ h.id \in Tasks
    BY <1>1 DEF Types, TypeOK, Request
  <2>2. QED
    BY <1>6, <2>1 DEF SendPart
<1>7. QED
  BY <1>1, <1>2, <1>3, <1>4, <1>5, <1>6, ReadableCases DEF Reply, h

LEMMA FreshTasks ==
    ASSUME Types, Fresh, NEW k \in Conns, onReadable(k),
           pTask[k] # NULL => task[pTask[k]] # "none"
    PROVE  Fresh'
<1> DEFINE r == Head(inbox[k])
<1>1. \/ task' = task
      \/ r.kind = "chunk" /\ r.id \in Tasks /\ task' = [task EXCEPT ![r.id] = "made"]
      \/ \E t \in Tasks : /\ task' = [task EXCEPT ![t] = "gone"]
                          /\ t = pTask[k] \/ (r.kind = "chunk" /\ t = r.id)
  BY ReadableTasks
<1> HIDE DEF r
<1>2. \A t \in Tasks : t # NULL
  BY DEF Tasks
<1>3. \A t \in Tasks : task[t] = "none" /\ task'[t] # "none" => t = r.id /\ r.kind # "rest"
  BY <1>1, <1>2 DEF Types, TypeOK
<1>4. QED
  BY <1>3, FreshReadable DEF r

\* With nothing closed or out of step onReadable takes whole requests, and frees nothing.
LEMMA UnfreedReadable ==
    ASSUME Types, up, Owned, Fresh, AllOpen, AllOpen', NEW k \in Conns, onReadable(k)
    PROVE  up' /\ Owned'
<1> DEFINE r == Head(inbox[k])
<1>1. peer[k] # "closed"
  BY DEF AllOpen
<1>2. up' = up
  BY <1>1, ReadableCases DEF Throws, ReceiveFails, Reply, Process, SendPart
<1>3. CASE UNCHANGED <<pTask, task, sock_>>
  BY <1>2, <1>3 DEF Owned
<1>4. CASE /\ r.id \in Tasks /\ task[r.id] = "none"
           /\ pTask' = [pTask EXCEPT ![k] = r.id] /\ sock_' = [sock_ EXCEPT ![r.id] = k]
           /\ task' = [task EXCEPT ![r.id] = "made"]
  <2> HIDE DEF r
  <2>1. /\ \A t \in Tasks \ {r.id} : task'[t] = task[t] /\ sock_'[t] = sock_[t]
        /\ \A j \in Conns \ {k} : pTask'[j] = pTask[j]
        /\ pTask'[k] = r.id /\ task'[r.id] = "made" /\ sock_'[r.id] = k
    BY <1>4 DEF Types, TypeOK
  <2>2. \A j \in Conns : pTask[j] \in Tasks \cup {NULL} /\ (pTask[j] # NULL => pTask[j] # r.id)
    BY <1>4 DEF Owned, Types, TypeOK
  <2>3. QED
    BY <1>2, <2>1, <2>2 DEF Owned
<1>5. QED
  BY <1>1, <1>3, <1>4, ReadableTasks

\* A handler owns a task of its own connection, at most one is about to be started, and a
\* task that has not been started has sent nothing.
Tied == /\ \A k \in Conns : pTask[k] # NULL => task[pTask[k]] # "none" /\ sock_[pTask[k]] = k
        /\ \A j, k \in starting : j = k
        /\ \A t \in Tasks : task[t] \in {"none", "made"} => nSend[t] = 0
        /\ turns = 0 => ~is_stopped

LEMMA TiedPeer == ASSUME Types, Tied, PeerStep PROVE Tied'
<1>1. /\ UNCHANGED <<pTask, task, sock_, nSend, starting, is_stopped>>
      /\ turns' = turns \/ turns' = turns + 1
  BY DEF PeerStep, Connect, Ask, Read, FindsClosed, Leave, Close, Turn, taskVars, handlerVars
<1>2. turns \in Nat
  BY DEF Types, TypeOK
<1>3. turns' = 0 => turns = 0
  BY <1>1, <1>2
<1>4. QED
  BY <1>1, <1>3 DEF Tied

LEMMA TiedReadable ==
    ASSUME Types, Fresh, Tied, NEW k \in Conns, onReadable(k)
    PROVE  Tied' /\ Fresh'
<1> DEFINE r == Head(inbox[k])
<1>1. nSend' = nSend /\ is_stopped' = is_stopped /\ turns' = turns /\ starting' \subseteq {k}
  BY RequestFacts, ReadableTasks
<1>2. \A j \in Conns : /\ pTask[j] \in Tasks \cup {NULL}
                       /\ pTask[j] # NULL => task[pTask[j]] # "none" /\ sock_[pTask[j]] = j
  BY DEF Tied, Types, TypeOK
<1>3. \A t \in Tasks : t # NULL
  BY DEF Tasks
<1>4. ASSUME UNCHANGED <<pTask, task, sock_>> PROVE Tied'
  <2>1. /\ \A j \in Conns : pTask'[j] # NULL => task'[pTask'[j]] # "none" /\ sock_'[pTask'[j]] = j
        /\ \A t \in Tasks : task'[t] \in {"none", "made"} => nSend'[t] = 0
    BY <1>1, <1>4 DEF Tied
  <2>2. (\A i, j \in starting' : i = j) /\ (turns' = 0 => ~is_stopped')
    BY <1>1 DEF Tied
  <2>3. QED
    BY <2>1, <2>2 DEF Tied
<1>5. ASSUME r.id \in Tasks, task[r.id] = "none", task' = [task EXCEPT ![r.id] = "made"],
             pTask' = [pTask EXCEPT ![k] = r.id], sock_' = [sock_ EXCEPT ![r.id] = k]
      PROVE  Tied'
  <2> HIDE DEF r
  <2>1. /\ \A t \in Tasks \ {r.id} : task'[t] = task[t] /\ sock_'[t] = sock_[t]
        /\ \A j \in Conns \ {k} : pTask'[j] = pTask[j]
        /\ pTask'[k] = r.id /\ task'[r.id] = "made" /\ sock_'[r.id] = k
    BY <1>5 DEF Types, TypeOK
  <2>2. \A j \in Conns : pTask'[j] # NULL => task'[pTask'[j]] # "none" /\ sock_'[pTask'[j]] = j
    BY <1>2, <1>5, <2>1
  <2>3. \A t \in Tasks : task'[t] \in {"none", "made"} => nSend'[t] = 0
    BY <1>1, <1>5, <2>1 DEF Tied
  <2>4. (\A i, j \in starting' : i = j) /\ (turns' = 0 => ~is_stopped')
    BY <1>1 DEF Tied
  <2>5. QED
    BY <2>2, <2>3, <2>4 DEF Tied
<1>6. ASSUME UNCHANGED <<pTask, sock_>>, \E t \in Tasks : task' = [task EXCEPT ![t] = "gone"]
      PROVE  Tied'
  <2>1. \A t \in Tasks : task'[t] \in {task[t], "gone"}
    BY <1>6 DEF Types, TypeOK
  <2>2. /\ \A j \in Conns : pTask'[j] # NULL => task'[pTask'[j]] # "none" /\ sock_'[pTask'[j]] = j
        /\ \A t \in Tasks : task'[t] \in {"none", "made"} => nSend'[t] = 0
    BY <1>1, <1>2, <1>6, <2>1 DEF Tied
  <2>3. (\A i, j \in starting' : i = j) /\ (turns' = 0 => ~is_stopped')
    BY <1>1 DEF Tied
  <2>4. QED
    BY <2>2, <2>3 DEF Tied
<1>7. Tied'
  BY <1>4, <1>5, <1>6, ReadableTasks
<1>8. Fresh'
  BY <1>2, FreshTasks
<1>9. QED
  BY <1>7, <1>8

\* A task that starts, sends or ends is none that waits or does not exist.
LEMMA TiedTasks ==
    ASSUME Types, Fresh, Tied, UNCHANGED <<sock_, inbox, asked>>,
           \A u \in Tasks : task'[u] # task[u] => task[u] # "none" /\ task'[u] \in {"runs", "gone"},
           \A u \in Tasks : nSend'[u] # nSend[u] => task[u] = "runs",
           \A j \in Conns : pTask'[j] \in {pTask[j], NULL},
           starting' \subseteq starting,
           turns' = 0 => turns = 0 /\ (is_stopped' => is_stopped)
    PROVE  Tied' /\ Fresh'
<1>1. \A j \in Conns : pTask[j] \in Tasks \cup {NULL}
  BY DEF Types, TypeOK
<1>2. Fresh'
  BY FreshKept DEF Types
<1>3. Tied'
  BY <1>1 DEF Tied
<1>4. QED
  BY <1>2, <1>3

LEMMA TiedStep == Types /\ Fresh /\ Tied /\ [Next]_vars => Tied' /\ Fresh'
<1> SUFFICES ASSUME Types, Fresh, Tied, [Next]_vars PROVE Tied' /\ Fresh'
  OBVIOUS
<1>1. turns \in Nat /\ is_stopped \in BOOLEAN
  BY DEF Types, TypeOK
<1>2. ASSUME NEW k \in Conns, StartTask(k) PROVE Tied' /\ Fresh'
  <2>1. /\ UNCHANGED <<sock_, nSend, inbox, asked, turns, is_stopped>>
        /\ starting' \subseteq starting
    BY <1>2 DEF StartTask, peerVars
  <2>2. \A u \in Tasks : task'[u] # task[u] => task[u] # "none" /\ task'[u] \in {"runs", "gone"}
    BY <1>2 DEF StartTask, Types, TypeOK
  <2>3. \A j \in Conns : pTask'[j] \in {pTask[j], NULL}
    BY <1>2 DEF StartTask, ReleaseOwnership, Types, TypeOK
  <2>4. QED
    BY <2>1, <2>2, <2>3, TiedTasks
<1>3. CASE onShutdown \/ (\E k \in Conns : DeleteHandler(k)) \/ StopOrResumeJob \/ UNCHANGED vars
  <2>1. UNCHANGED <<sock_, nSend, task, pTask, starting, inbox, asked>>
    BY <1>3 DEF onShutdown, DeleteHandler, StopOrResumeJob, vars, handlerVars, taskVars, peerVars
  <2>2. \/ turns' = turns /\ is_stopped' = is_stopped
        \/ turns' = turns /\ is_stopped' = FALSE
        \/ turns' = turns + 1
    BY <1>3 DEF onShutdown, DeleteHandler, StopOrResumeJob, vars, Turn
  <2>3. turns' = 0 => turns = 0 /\ (is_stopped' => is_stopped)
    BY <1>1, <2>2
  <2>4. QED
    BY <2>1, <2>3, TiedTasks
<1>4. ASSUME NEW t \in Tasks, RunTask(t) PROVE Tied' /\ Fresh'
  <2>1. /\ UNCHANGED <<sock_, pTask, starting, inbox, asked, is_stopped>>
        /\ task[t] = "runs" /\ (turns' = turns \/ turns' = turns + 1)
    BY <1>4 DEF RunTask, MapFails, Turn, handlerVars, peerVars
  <2>2. /\ task' = task \/ task' = [task EXCEPT ![t] = "gone"]
        /\ nSend' = nSend \/ nSend' = [nSend EXCEPT ![t] = @ + 1]
    BY <1>4 DEF RunTask, SendBytes, UseFreed, MapFails, Ends
  <2>3. /\ \A u \in Tasks : task'[u] # task[u] => task[u] # "none" /\ task'[u] \in {"runs", "gone"}
        /\ \A u \in Tasks : nSend'[u] # nSend[u] => task[u] = "runs"
    BY <2>1, <2>2 DEF Types, TypeOK
  <2>4. turns' = 0 => turns = 0
    BY <1>1, <2>1
  <2>5. QED
    BY <2>1, <2>3, <2>4, TiedTasks
<1>5. CASE PeerStep
  BY <1>5, TiedPeer, FreshPeer
<1>6. QED
  BY <1>2, <1>3, <1>4, <1>5, TiedReadable DEF Next, Reactor

LEMMA UnfreedStep ==
    ASSUME Types, Shelter, Fresh, Unfreed, [Next]_vars
    PROVE  Unfreed'
<1> SUFFICES ASSUME AllOpen' PROVE Owned' /\ (up' \/ (\E k \in Conns : LeftBehind(k))')
  BY DEF Unfreed
<1>1. AllOpen /\ Owned /\ (up \/ \E k \in Conns : LeftBehind(k))
  BY OpenBefore DEF Unfreed
<1>2. pTask \in [Conns -> Tasks \cup {NULL}] /\ task \in [Tasks -> {"none", "made", "runs", "gone"}]
  BY DEF Types, TypeOK
<1>3. CASE UNCHANGED vars
  BY <1>1, <1>3 DEF vars, handlerVars, taskVars, Owned, LeftBehind
<1>4. CASE PeerStep
  <2>1. up /\ UNCHANGED <<up, pTask, task, sock_>>
    BY <1>4, FreshPeer DEF PeerStep
  <2>2. QED
    BY <1>1, <2>1 DEF Owned
<1>5. ASSUME NEW k \in Conns, onReadable(k), up PROVE up' /\ Owned'
  BY <1>1, <1>5, UnfreedReadable
<1>6. ASSUME NEW k \in Conns, StartTask(k), up
      PROVE  Owned' /\ (up' \/ (\E j \in Conns : LeftBehind(j))')
  <2>1. sock_' = sock_ /\ starting' = {}
    BY <1>6 DEF StartTask
  <2>2. CASE pTask[k] = NULL
    <3>1. UNCHANGED <<up, pTask, task>>
      BY <1>6, <2>2 DEF StartTask
    <3>2. QED
      BY <1>1, <1>6, <2>1, <3>1 DEF Owned
  <2>3. CASE pTask[k] # NULL
    <3> DEFINE t == pTask[k]
    <3>1. t \in Tasks /\ task[t] \in {"made", "gone"} /\ sock_[t] = k
      BY <1>1, <1>2, <2>3 DEF Owned
    <3>2. CASE task[t] = "made"
      <4>1. /\ up' = up
            /\ \/ /\ task' = [task EXCEPT ![t] = "runs"]
                  /\ pTask' = [pTask EXCEPT ![k] = NULL]
               \/ task' = [task EXCEPT ![t] = "gone"] /\ pTask' = pTask
        BY <1>6, <2>3, <3>2 DEF StartTask, ReleaseOwnership
      <4>2. ASSUME NEW j \in Conns, pTask'[j] # NULL
            PROVE  task'[pTask'[j]] \in {"made", "gone"} /\ sock_'[pTask'[j]] = j
        <5>1. pTask'[j] = pTask[j] /\ pTask[j] \in Tasks /\ pTask[j] # NULL
          BY <1>2, <4>1, <4>2
        <5>2. task[pTask[j]] \in {"made", "gone"} /\ sock_[pTask[j]] = j
          BY <1>1, <5>1 DEF Owned
        <5>3. CASE pTask[j] # t
          <6>1. task'[pTask[j]] = task[pTask[j]]
            BY <1>2, <3>1, <4>1, <5>1, <5>3
          <6>2. QED
            BY <2>1, <5>1, <5>2, <6>1
        <5>4. CASE pTask[j] = t
          <6>1. j = k
            BY <3>1, <5>2, <5>4
          <6>2. pTask' = pTask
            BY <1>2, <4>1, <4>2, <6>1
          <6>3. task' = [task EXCEPT ![t] = "gone"]
            BY <1>2, <2>3, <4>1, <6>2
          <6>4. QED
            BY <1>2, <2>1, <3>1, <5>1, <5>2, <5>4, <6>3
        <5>5. QED
          BY <5>3, <5>4
      <4>3. QED
        BY <1>6, <4>1, <4>2 DEF Owned
    <3>3. CASE task[t] = "gone"
      <4>1. UNCHANGED <<pTask, task>>
        BY <1>6, <2>3, <3>3 DEF StartTask
      <4>2. LeftBehind(k)'
        BY <2>1, <2>3, <3>3, <4>1 DEF LeftBehind
      <4>3. QED
        BY <1>1, <2>1, <4>1, <4>2 DEF Owned
    <3>4. QED
      BY <3>1, <3>2, <3>3
  <2>4. QED
    BY <2>2, <2>3
<1>7. ASSUME NEW k \in Conns PROVE ~DeleteHandler(k)
  BY <1>1 DEF AllOpen, DeleteHandler, Disconnected
<1>8. ~onShutdown
  <2>1. onShutdown => \E k \in Conns : peer'[k] = "closed"
    BY DEF onShutdown, Types, TypeOK
  <2>2. QED
    BY <2>1 DEF AllOpen
<1>9. ASSUME NEW t \in Tasks, RunTask(t) PROVE up' /\ Owned'
  <2>1. sock_[t] \in handler /\ task[t] = "runs" /\ up
    BY <1>1, <1>9 DEF RunTask, Shelter, Sheltered, AllOpen, Types, SockTypes
  <2>2. /\ up' = up /\ UNCHANGED <<sock_, pTask>>
        /\ task' = task \/ task' = [task EXCEPT ![t] = "gone"]
    BY <1>9, <2>1 DEF RunTask, SendBytes, UseFreed, MapFails, Ends, handlerVars
  <2>3. \A u \in Tasks : task'[u] = task[u] \/ u = t
    BY <2>2 DEF Types, TypeOK
  <2>4. Owned'
    BY <1>1, <1>2, <2>1, <2>2, <2>3 DEF Owned
  <2>5. QED
    BY <2>1, <2>2, <2>4
<1>10. CASE StopOrResumeJob
  <2>1. up /\ UNCHANGED <<up, pTask, task, sock_>>
    BY <1>10 DEF StopOrResumeJob, handlerVars, taskVars
  <2>2. QED
    BY <1>1, <2>1 DEF Owned
<1>11. QED
  BY <1>3, <1>4, <1>5, <1>6, <1>7, <1>8, <1>9, <1>10 DEF Next, Reactor

\* Nor has a task that a handler owns sent anything: to forget a task when it has started
\* is what keeps the two apart.
Unsent == AllOpen => \A k \in Conns : pTask[k] # NULL => nSend[pTask[k]] = 0

LEMMA UnsentStep ==
    ASSUME Types, Types', Fresh, Tied, Tied', Unfreed, Unsent, [Next]_vars
    PROVE  Unsent'
<1> SUFFICES ASSUME AllOpen', NEW k \in Conns, pTask'[k] # NULL PROVE nSend'[pTask'[k]] = 0
  BY DEF Unsent
<1>1. Owned /\ (pTask[k] # NULL => nSend[pTask[k]] = 0)
  BY OpenBefore DEF Unfreed, Unsent
<1>2. pTask \in [Conns -> Tasks \cup {NULL}] /\ pTask'[k] \in Tasks
  BY DEF Types, TypeOK
<1>3. CASE pTask'[k] = pTask[k] /\ nSend' = nSend
  BY <1>1, <1>3
<1>4. ASSUME NEW j \in Conns, onReadable(j) PROVE nSend'[pTask'[k]] = 0
  <2>1. nSend' = nSend
    BY <1>4, RequestFacts
  <2>2. pTask'[k] = pTask[k] \/ task'[pTask'[k]] = "made"
    BY <1>2, <1>4, ReadableTasks DEF Types, TypeOK
  <2>3. CASE task'[pTask'[k]] = "made"
    BY <1>2, <2>3 DEF Tied
  <2>4. QED
    BY <1>3, <2>1, <2>2, <2>3
<1>5. ASSUME NEW j \in Conns, StartTask(j) PROVE pTask'[k] = pTask[k] /\ nSend' = nSend
  BY <1>2, <1>5 DEF StartTask, ReleaseOwnership
<1>6. ASSUME NEW t \in Tasks, RunTask(t) PROVE nSend'[pTask'[k]] = 0
  <2>1. pTask' = pTask /\ task[t] = "runs"
    BY <1>6 DEF RunTask, handlerVars
  <2>2. pTask[k] # t
    BY <1>1, <2>1 DEF Owned
  <2>3. nSend' = nSend \/ nSend' = [nSend EXCEPT ![t] = @ + 1]
    BY <1>6 DEF RunTask, SendBytes, UseFreed, MapFails
  <2>4. QED
    BY <1>1, <1>2, <2>1, <2>2, <2>3 DEF Types, TypeOK
<1>7. CASE PeerStep \/ onShutdown \/ (\E j \in Conns : DeleteHandler(j)) \/ StopOrResumeJob
           \/ UNCHANGED vars
  <2>1. pTask' = pTask /\ nSend' = nSend
    BY <1>7 DEF PeerStep, Connect, Ask, Read, FindsClosed, Leave, Close, onShutdown, DeleteHandler,
                StopOrResumeJob, vars, handlerVars, taskVars
  <2>2. QED
    BY <1>3, <2>1
<1>8. QED
  BY <1>3, <1>4, <1>5, <1>6, <1>7 DEF Next, Reactor

\* A handler that has started its task forgets it, and one that keeps it has not started
\* it: a deleted task is used only after a start that found no thread, and a socket after
\* its handler only when a connection was closed or is out of step.
THEOREM NothingFreedUsedAlways == Spec => []NothingFreedUsed
<1>1. Init => Fresh /\ Tied /\ Unfreed /\ Unsent
  BY DEF Init, Fresh, Tied, Unfreed, Owned, Unsent
<1>2. Unfreed /\ Unsent => NothingFreedUsed
  BY DEF Unfreed, Unsent, AllOpen, LeftBehind, Dangling, NothingFreedUsed
<1>3. Types /\ Shelter /\ Fresh /\ Unfreed /\ [Next]_vars => Unfreed'
  BY UnfreedStep
<1>4. Types /\ Types' /\ Fresh /\ Tied /\ Tied' /\ Unfreed /\ Unsent /\ [Next]_vars => Unsent'
  BY UnsentStep
<1>5. QED
  BY <1>1, <1>2, <1>3, <1>4, OrderInit, TypesInit, TypesStep, ShelterStep, TiedStep, PTL DEF Spec
-----------------------------------------------------------------------------
(* The way of a chunk.                                                     *)

\* A peer that has been promised a chunk has a task, and the task has sent its last piece
\* or has still to send it.
Promised(k) == \/ peer[k] = "chunk"
               \/ peer[k] = "reply" /\ \E i \in DOMAIN out[k] : out[k][i].what = "ok"
Bound(k) == asking[k] \in Tasks /\ sock_[asking[k]] = k /\ task[asking[k]] # "none"
Pending(k) ==
    /\ Bound(k)
    /\ \/ task[asking[k]] = "made" /\ k \in starting /\ pTask[k] = asking[k]
       \/ task[asking[k]] = "runs" /\ nSend[asking[k]] < Pieces
LastSent(k) == \E i \in DOMAIN out[k] : out[k][i].what = "last"
Kept(k) == Promised(k) => Bound(k) /\ (Pending(k) \/ LastSent(k))
KeptAll == MaxRequests <= Threads /\ up /\ turns = 0 => \A k \in Conns \ dirty : Kept(k)

\* Nothing has happened to the chunk of k.
LEMMA KeptCalm ==
    ASSUME NEW k, Kept(k), UNCHANGED <<asking, out[k], peer[k]>>, Pending(k) => Pending(k)',
           Bound(k) => Bound(k)'
    PROVE  Kept(k)'
BY DEF Kept, Promised, LastSent

LEMMA KeptPeer ==
    ASSUME Types, Order, PeerStep, turns' = 0, \A k \in Conns \ dirty : Kept(k)
    PROVE  \A k \in Conns \ dirty' : Kept(k)'
<1>1. PICK k \in Conns : Connect(k) \/ Ask(k) \/ Read(k) \/ FindsClosed(k) \/ Leave(k) \/ Close(k)
  BY DEF PeerStep
<1>2. /\ UNCHANGED <<pTask, starting, task, sock_, nSend>>
      /\ \A j \in Conns \ {k} : UNCHANGED <<asking[j], peer[j], out[j]>>
  BY <1>1 DEF PeerStep, Connect, Ask, Read, FindsClosed, Leave, Close, handlerVars, taskVars, Types, TypeOK,
              QueueTypes
<1> dirty \subseteq dirty'
  BY <1>1 DEF Connect, Ask, Read, FindsClosed, Leave, Close
<1>3. \A j \in Conns \ dirty' : j # k => Kept(j)'
  BY <1>2 DEF Kept, Promised, LastSent, Pending, Bound
<1>4. ASSUME k \notin dirty' PROVE Kept(k)'
  <2>1. SUFFICES ASSUME Promised(k)' PROVE Bound(k)' /\ (Pending(k)' \/ LastSent(k)')
    BY DEF Kept
  <2>2. peer'[k] \in {"reply", "chunk"}
    BY <2>1 DEF Promised
  <2>3. ~Connect(k) /\ ~FindsClosed(k) /\ ~Leave(k) /\ ~Close(k)
    BY <2>2 DEF Connect, FindsClosed, Leave, Close, Turn, Types, TypeOK
  <2>4. CASE Ask(k)
    <3>1. peer'[k] = "reply" /\ out' = out /\ peer[k] = "idle"
      BY <2>4 DEF Ask, Types, TypeOK
    <3>2. out[k] = << >>
      BY <1>4, <3>1 DEF Order, Orderly
    <3>3. QED
      BY <2>1, <3>1, <3>2 DEF Promised
  <2>5. CASE Read(k)
    <3> DEFINE o == out[k]
    <3>1. /\ peer[k] \in {"reply", "chunk"} /\ o # << >> /\ o \in Seq(Item)
          /\ peer'[k] = Understood(k, Head(o)) /\ out'[k] = Tail(o) /\ asking' = asking
      BY <2>5 DEF Read, Types, TypeOK, QueueTypes
    <3>2. /\ Len(o) \in Nat \ {0} /\ DOMAIN o = 1..Len(o) /\ Head(o) = o[1] /\ 1 \in DOMAIN o
          /\ DOMAIN Tail(o) = 1..(Len(o) - 1)
          /\ \A i \in 1..(Len(o) - 1) : Tail(o)[i] = o[i + 1]
      BY <3>1
    <3>3. peer'[k] = "chunk" /\ o[1].what = Continues(k)
      BY <2>2, <3>1, <3>2 DEF Understood
    <3>4. Promised(k) /\ o[1].what # "last"
      BY <3>1, <3>2, <3>3 DEF Promised, Continues
    <3>5. (Pending(k) => Pending(k)') /\ (Bound(k) => Bound(k)')
      BY <1>2, <3>1 DEF Pending, Bound
    <3>6. LastSent(k) => LastSent(k)'
      <4>1. SUFFICES ASSUME NEW i \in DOMAIN o, o[i].what = "last" PROVE LastSent(k)'
        BY DEF LastSent
      <4>2. i # 1
        BY <3>4, <4>1
      <4>3. i - 1 \in 1..(Len(o) - 1) /\ (i - 1) + 1 = i
        BY <3>2, <4>2
      <4>4. i - 1 \in DOMAIN out'[k] /\ out'[k][i - 1] = o[i]
        BY <3>1, <3>2, <4>3
      <4>5. QED
        BY <4>1, <4>4 DEF LastSent
    <3>7. QED
      BY <1>4, <3>4, <3>5, <3>6 DEF Kept
  <2>6. QED
    BY <1>1, <2>3, <2>4, <2>5
<1>5. QED
  BY <1>3, <1>4

\* onReadable leaves the running tasks of connections that are not closed.
LEMMA PendingReadable ==
    ASSUME Types, Fresh, Tied, NEW k \in Conns, onReadable(k),
           NEW j \in Conns, peer[j] # "closed"
    PROVE  (Pending(j) => Pending(j)') /\ (Bound(j) => Bound(j)')
<1> DEFINE r == Head(inbox[k])
<1>1. nSend' = nSend /\ asking' = asking /\ starting = {}
  BY RequestFacts
<1>2. \/ UNCHANGED <<task, sock_>>
      \/ /\ r.id \in Tasks /\ task[r.id] = "none" /\ sock_' = [sock_ EXCEPT ![r.id] = k]
         /\ task' = [task EXCEPT ![r.id] = "made"]
      \/ /\ sock_' = sock_ /\ peer[k] = "closed"
         /\ \E t \in Tasks : /\ task' = [task EXCEPT ![t] = "gone"]
                             /\ t = pTask[k] \/ task[t] = "none"
  BY ReadableTasks
<1> HIDE DEF r
<1>3. \A t \in Tasks : t # NULL
  BY DEF Tasks
<1>4. pTask[k] # NULL => sock_[pTask[k]] = k
  BY DEF Tied
<1>5. Bound(j) => Bound(j)'
  BY <1>1, <1>2 DEF Bound, Types, TypeOK
<1>6. ASSUME Pending(j) PROVE Pending(j)'
  <2> DEFINE t == asking[j]
  <2>1. t \in Tasks /\ t # NULL /\ sock_[t] = j /\ task[t] = "runs" /\ nSend[t] < Pieces
    BY <1>1, <1>3, <1>6 DEF Pending, Bound
  <2>2. task'[t] = task[t]
    BY <1>2, <1>4, <2>1 DEF Types, TypeOK
  <2>3. QED
    BY <1>1, <1>5, <1>6, <2>1, <2>2 DEF Pending
<1>7. QED
  BY <1>5, <1>6

LEMMA KeptReadable ==
    ASSUME Types, Order, Fresh, Tied, \A j \in Conns \ dirty : Kept(j),
           NEW k \in Conns, onReadable(k)
    PROVE  \A j \in Conns \ dirty' : Kept(j)'
<1>1. UNCHANGED <<nSend, peer, asking>> /\ dirty \subseteq dirty'
  BY RequestFacts
<1>2. ASSUME NEW j \in Conns \ dirty', out'[j] = out[j] PROVE Kept(j)'
  <2>1. CASE peer[j] = "closed"
    BY <1>1, <2>1 DEF Kept, Promised
  <2>2. CASE peer[j] # "closed"
    BY <1>1, <1>2, <2>2, PendingReadable, KeptCalm
  <2>3. QED
    BY <2>1, <2>2
<1>3. ASSUME NEW j \in Conns \ dirty', j # k PROVE Kept(j)'
  BY <1>2, <1>3, ReadableOthers
<1>4. ASSUME k \notin dirty' PROVE Kept(k)'
  <2> DEFINE r == Head(inbox[k])
  <2>1. /\ r \in Request /\ inbox[k] # << >> /\ ReadWhole(k)
        /\ Orderly(k) /\ r.kind # "rest"
    BY <1>1, <1>4, RequestFacts DEF Order, ReadWhole
  <2>2. r.id \in Tasks /\ task[r.id] = "none"
    BY <2>1, RequestTaken
  <2>3. peer[k] = "closed" \/ (peer[k] = "reply" /\ out[k] = << >> /\ r.id = asking[k])
    BY <2>1 DEF Orderly, Types, TypeOK, r
  <2> HIDE DEF r
  <2>4. CASE peer[k] = "closed"
    BY <1>1, <2>4 DEF Kept, Promised
  <2>5. CASE UNCHANGED out
    BY <1>2, <1>4, <2>5
  <2>6. CASE /\ peer[k] # "closed" /\ Process(k, r) /\ ~AssertFails(r)
    <3>1. Code(r.kind) \in Bytes /\ (Code(r.kind) = "ok" => r.kind = "chunk")
      BY <2>1, <2>6, CodeType
    <3>2. out'[k] = <<[id |-> r.id, what |-> Code(r.kind)]>>
          /\ starting' = (IF IsUpload(k, r) THEN {k} ELSE {})
      BY <2>2, <2>3, <2>6, <3>1, SentItem DEF Process, Types
    <3>3. DOMAIN out'[k] = {1} /\ out'[k][1].what = Code(r.kind)
      BY <3>2
    <3>4. ASSUME Code(r.kind) = "ok" PROVE Pending(k)'
      <4>1. r.kind = "chunk"
        BY <3>1, <3>4
      <4>2. /\ pTask' = [pTask EXCEPT ![k] = r.id] /\ task' = [task EXCEPT ![r.id] = "made"]
            /\ sock_' = [sock_ EXCEPT ![r.id] = k] /\ starting' = {k}
        BY <2>6, <3>2, <4>1 DEF Process, HandleUploadRequest, IsUpload
      <4>3. pTask'[k] = r.id /\ task'[r.id] = "made" /\ sock_'[r.id] = k
        BY <2>2, <4>2 DEF Types, TypeOK
      <4>4. asking'[k] = r.id
        BY <1>1, <2>3, <2>6
      <4>5. QED
        BY <2>2, <4>2, <4>3, <4>4 DEF Pending, Bound
    <3>5. QED
      BY <1>1, <2>3, <2>6, <3>3, <3>4 DEF Kept, Promised, Pending
  <2>7. QED
    BY <2>1, <2>3, <2>4, <2>5, <2>6 DEF ReadWhole, Throws, Reply, SendPart, r
<1>5. QED
  BY <1>3, <1>4

LEMMA KeptTask ==
    ASSUME Types, Shelter, turns = 0, turns' = 0, Tied, \A j \in Conns \ dirty : Kept(j), up',
           NEW t \in Tasks, RunTask(t)
    PROVE  \A j \in Conns \ dirty' : Kept(j)'
<1>1. /\ UNCHANGED <<sock_, pTask, starting, peer, asking, dirty>> /\ task[t] = "runs" /\ ~is_stopped
      /\ sock_[t] \in Conns
  BY DEF RunTask, handlerVars, peerVars, Tied, Types, SockTypes
<1> PICK k \in Conns : k = sock_[t]
  BY <1>1
<1>2. ASSUME UNCHANGED <<nSend, out>>, Ends(t), peer[k] = "closed" \/ k \in dirty \/ ~More(t)
      PROVE  \A j \in Conns \ dirty : Kept(j)'
  <2>1. task'[t] = "gone" /\ \A u \in Tasks \ {t} : task'[u] = task[u]
    BY <1>2 DEF Ends, Types, TypeOK
  <2>2. ASSUME NEW j \in Conns \ dirty, peer[j] # "closed", Pending(j) PROVE Pending(j)'
    <3>1. asking[j] # t
      BY <1>1, <1>2, <2>2 DEF Pending, Bound, More
    <3>2. QED
      BY <1>1, <1>2, <2>1, <2>2, <3>1 DEF Pending, Bound
  <2>3. ASSUME NEW j \in Conns \ dirty PROVE Kept(j)'
    <3>1. CASE peer[j] = "closed"
      BY <1>1, <3>1 DEF Kept, Promised
    <3>2. CASE peer[j] # "closed"
      <4>1. Bound(j) => Bound(j)'
        BY <1>1, <2>1 DEF Bound
      <4>2. QED
        BY <1>1, <1>2, <2>2, <3>2, <4>1, KeptCalm
    <3>3. QED
      BY <3>1, <3>2
  <2>4. QED
    BY <2>3
<1>3. ASSUME Sent(k, t, Piece(t)), nSend' = [nSend EXCEPT ![t] = @ + 1], UNCHANGED task, More(t)
      PROVE  \A j \in Conns \ dirty : Kept(j)'
  <2>1. Piece(t) \in Parts /\ Piece(t) \in Bytes
    BY DEF Piece, Parts, Bytes
  <2>2. /\ \A j \in Conns \ {k} : out'[j] = out[j]
        /\ peer[k] = "closed" => out'[k] = out[k]
        /\ peer[k] # "closed" => out'[k] = Append(out[k], [id |-> t, what |-> Piece(t)])
    BY <1>1, <1>3, <2>1, SentItem DEF Types
  <2>3. /\ nSend'[t] = nSend[t] + 1 /\ nSend[t] \in Nat /\ nSend[t] < Pieces
        /\ \A u \in Tasks \ {t} : nSend'[u] = nSend[u]
    BY <1>3 DEF More, Types, TypeOK
  <2>4. \A j \in Conns : Pending(j) /\ asking[j] # t => Pending(j)'
    BY <1>1, <1>3, <2>3 DEF Pending, Bound
  <2>5. ASSUME NEW j \in Conns \ dirty, j # k PROVE Kept(j)'
    <3>1. (Pending(j) => asking[j] # t) /\ (Bound(j) => Bound(j)')
      BY <1>1, <1>3, <2>5 DEF Pending, Bound
    <3>2. QED
      BY <1>1, <2>2, <2>4, <2>5, <3>1, KeptCalm
  <2>6. CASE peer[k] = "closed"
    BY <1>1, <2>5, <2>6 DEF Kept, Promised
  <2>7. CASE peer[k] # "closed"
    <3> DEFINE o == out[k]  p == [id |-> t, what |-> Piece(t)]
    <3>1. o \in Seq(Item) /\ out'[k] = Append(o, p)
      BY <1>1, <2>2, <2>7 DEF Types, QueueTypes
    <3>2. /\ Len(o) \in Nat /\ DOMAIN o = 1..Len(o)
          /\ DOMAIN Append(o, p) = 1..(Len(o) + 1) /\ Append(o, p)[Len(o) + 1] = p
          /\ \A i \in 1..Len(o) : Append(o, p)[i] = o[i]
      BY <3>1
    <3>3. \A i \in DOMAIN out'[k] : (i \in DOMAIN o /\ out'[k][i] = o[i]) \/ out'[k][i].what = Piece(t)
      BY <3>1, <3>2
    <3>4. Promised(k)' => Promised(k)
      BY <1>1, <2>1, <3>3 DEF Promised, Parts
    <3>5. LastSent(k) => LastSent(k)'
      BY <3>1, <3>2 DEF LastSent
    <3>6. Piece(t) = "last" => LastSent(k)'
      <4>1. Len(o) + 1 \in DOMAIN out'[k] /\ out'[k][Len(o) + 1].what = Piece(t)
        BY <3>1, <3>2
      <4>2. QED
        BY <4>1 DEF LastSent
    <3>7. Pending(k) => Pending(k)' \/ LastSent(k)'
      <4>1. CASE asking[k] # t
        BY <1>1, <2>4, <4>1
      <4>2. CASE asking[k] = t
        <5>1. nSend'[t] < Pieces \/ Piece(t) = "last"
          BY <2>3 DEF Piece
        <5>2. QED
          BY <1>1, <1>3, <3>6, <4>2, <5>1 DEF Pending, Bound
      <4>3. QED
        BY <4>1, <4>2
    <3>8. ASSUME k \notin dirty PROVE Kept(k)'
      <4>1. Bound(k) => Bound(k)'
        BY <1>1, <1>3 DEF Bound
      <4>2. QED
        BY <3>4, <3>5, <3>7, <3>8, <4>1 DEF Kept
    <3>9. QED
      BY <2>5, <3>8
  <2>8. QED
    BY <2>6, <2>7
<1>4. k \notin handler => peer[k] = "closed" \/ k \in dirty
  BY <1>1 DEF Shelter, Sheltered
<1>5. ~MapFails(t)
  BY DEF MapFails, Turn
<1>6. QED
  BY <1>1, <1>2, <1>3, <1>4, <1>5 DEF RunTask, SendBytes, UseFreed

LEMMA KeptStart ==
    ASSUME Types, MaxRequests <= Threads, Tied, \A j \in Conns \ dirty : Kept(j), up',
           NEW k \in Conns, StartTask(k)
    PROVE  \A j \in Conns \ dirty' : Kept(j)'
<1>1. /\ k \in starting /\ UNCHANGED <<sock_, nSend, peer, asking, dirty, out>>
      /\ \A j \in starting : j = k
  BY DEF StartTask, peerVars, Tied
<1> DEFINE t == pTask[k]
<1>2. ASSUME NEW j \in Conns, Pending(j) PROVE Pending(j)'
  <2>1. CASE task[asking[j]] = "runs"
    <3>1. asking[j] \in Tasks
      BY <1>2 DEF Pending, Bound
    <3>2. \/ UNCHANGED task
          \/ /\ t \in Tasks /\ task[t] = "made"
             /\ task' = [task EXCEPT ![t] = "runs"] \/ task' = [task EXCEPT ![t] = "gone"]
      BY DEF StartTask, Types, TypeOK
    <3>3. task'[asking[j]] = "runs"
      BY <2>1, <3>1, <3>2 DEF Types, TypeOK
    <3>4. QED
      BY <1>1, <1>2, <2>1, <3>3 DEF Pending, Bound
  <2>2. CASE task[asking[j]] = "made"
    <3>1. j = k /\ t = asking[j] /\ t \in Tasks /\ t # NULL /\ t \notin Running /\ nSend[t] = 0
      BY <1>1, <1>2, <2>2 DEF Pending, Bound, Tasks, Running, Tied
    <3>2. HasThread
      BY <3>1, ThreadLeft
    <3>3. task' = [task EXCEPT ![t] = "runs"]
      BY <2>2, <3>1, <3>2 DEF StartTask
    <3>4. task'[t] = "runs"
      BY <3>1, <3>3 DEF Types, TypeOK
    <3>5. QED
      BY <1>1, <1>2, <3>1, <3>4 DEF Pending, Bound
  <2>3. QED
    BY <1>2, <2>1, <2>2 DEF Pending, Bound
<1>3. \A j \in Conns : Bound(j) => Bound(j)'
  BY <1>1 DEF StartTask, Bound, Types, TypeOK
<1>4. QED
  BY <1>1, <1>2, <1>3, KeptCalm

LEMMA KeptStep ==
    ASSUME Types, Shelter, Order, Fresh, Tied, KeptAll, [Next]_vars
    PROVE  KeptAll'
<1> SUFFICES ASSUME MaxRequests <= Threads, up', turns' = 0
             PROVE  \A k \in Conns \ dirty' : Kept(k)'
  BY DEF KeptAll
<1>1. turns = 0 /\ up
  <2>1. turns' = turns \/ turns' = turns + 1
    <3>1. PeerStep \/ StopOrResumeJob => turns' = turns \/ turns' = turns + 1
      BY DEF PeerStep, Connect, Ask, Read, FindsClosed, Leave, Close, StopOrResumeJob, Turn
    <3>2. Reactor => turns' = turns \/ turns' = turns + 1
      BY DEF Reactor, onReadable, StartTask, DeleteHandler, onShutdown, Turn
    <3>3. (\E t \in Tasks : RunTask(t)) => turns' = turns \/ turns' = turns + 1
      BY DEF RunTask, MapFails, Turn
    <3>4. QED
      BY <3>1, <3>2, <3>3 DEF Next, vars
  <2>2. up
    BY DEF Next, PeerStep, Reactor, StopOrResumeJob, RunTask, vars
  <2>3. turns \in Nat
    BY DEF Types, TypeOK
  <2>4. QED
    BY <2>1, <2>2, <2>3
<1>2. \A k \in Conns \ dirty : Kept(k)
  BY <1>1 DEF KeptAll
<1>3. CASE (\E k \in Conns : DeleteHandler(k)) \/ StopOrResumeJob \/ UNCHANGED vars
  <2>1. UNCHANGED <<pTask, starting, task, sock_, nSend, peer, asking, out, dirty>>
    BY <1>3 DEF DeleteHandler, StopOrResumeJob, vars, taskVars, peerVars, handlerVars
  <2>2. QED
    BY <1>2, <2>1 DEF Kept, Promised, Pending, Bound, LastSent
<1>4. ~onShutdown
  BY <1>1 DEF onShutdown, Turn
<1>5. QED
  BY <1>1, <1>2, <1>3, <1>4, KeptPeer, KeptReadable, KeptStart, KeptTask DEF Next, Reactor

LEMMA KeptInit == Init => Shelter /\ Order /\ Fresh /\ Tied /\ KeptAll
<1>1. Init => Fresh /\ Tied
  BY DEF Init, Fresh, Tied
<1>2. Init => KeptAll
  BY DEF Init, KeptAll, Kept, Promised
<1>3. QED
  BY <1>1, <1>2, OrderInit

\* While nobody stops the job and no peer leaves a chunk, a peer that is promised a chunk
\* never waits in vain: it has a piece to read, its task is about to be started, or its
\* task can send, whichever other connections close or ask for what is not there.
THEOREM ChunkMovesAlways == Spec => []ChunkMoves
<1>1. Init => Shelter /\ Order /\ Fresh /\ Tied /\ KeptAll
  BY KeptInit
<1>2. Types /\ (Shelter /\ Order /\ Fresh /\ Tied /\ KeptAll) /\ [Next]_vars
         => (Shelter /\ Order /\ Fresh /\ Tied /\ KeptAll)'
  BY ShelterStep, OrderStep, TiedStep, KeptStep
<1>3. Types /\ Shelter /\ Order /\ Tied /\ KeptAll => ChunkMoves
  <2> SUFFICES ASSUME Types, Shelter, Order, Tied, KeptAll, NEW k \in Conns, Undisturbed(k),
                      out[k] = << >>, k \notin starting
               PROVE  \E t \in Running : Sends(t, k)
    BY DEF ChunkMoves
  <2>1. ~LastSent(k) /\ Promised(k) /\ Kept(k)
    BY DEF Undisturbed, KeptAll, LastSent, Promised
  <2>2. Pending(k) /\ task[asking[k]] = "runs"
    BY <2>1 DEF Kept, Pending
  <2>3. k \in handler
    BY <2>2 DEF Pending, Bound, Shelter, Sheltered, Undisturbed
  <2>4. QED
    BY <2>2, <2>3 DEF Pending, Bound, Running, Sends, More, Tied, Undisturbed
<1>4. QED
  BY <1>1, <1>2, <1>3, TypesInit, TypesStep, PTL DEF Spec

\* A step on the way of a chunk: only its peer, the start of its task and its task change
\* what is left.
LEMMA ChunkStep ==
    ASSUME Types, Order, Tied, Shelter, KeptAll, [Next]_vars,
           NEW k \in Conns, Undisturbed(k), Undisturbed(k)'
    PROVE  \/ Left(k)' < Left(k)
           \/ out'[k] = out[k] /\ nSend'[asking'[k]] = nSend[asking[k]]
              /\ (k \in starting' <=> k \in starting)
<1>1. /\ peer[k] = "chunk" /\ peer'[k] = "chunk" /\ turns = 0 /\ turns' = 0 /\ up
      /\ k \notin dirty /\ k \notin dirty' /\ ~is_stopped
  BY DEF Undisturbed, Tied
<1>2. Orderly(k) /\ Kept(k)
  BY <1>1 DEF Order, KeptAll, Undisturbed
<1>3. asking[k] \in Tasks /\ sock_[asking[k]] = k /\ task[asking[k]] # "none"
  BY <1>1, <1>2 DEF Kept, Bound, Promised
<1> DEFINE a == asking[k]
<1>4. nSend[a] \in Nat /\ Pieces \in Nat /\ out[k] \in Seq(Item) /\ Len(out[k]) \in Nat
  BY <1>3 DEF Types, TypeOK, QueueTypes
<1>5. ASSUME starting' = starting, asking'[k] = asking[k], nSend'[a] \in Nat, Len(out'[k]) \in Nat,
             \/ nSend'[a] = nSend[a] /\ Len(out'[k]) = Len(out[k]) - 1
             \/ nSend'[a] = nSend[a] + 1 /\ Len(out'[k]) = Len(out[k]) + 1
      PROVE  Left(k)' < Left(k)
  <2>1. PICK s \in {0, 1} : s = IF k \in starting THEN 1 ELSE 0
    OBVIOUS
  <2>2. Left(k) = 2 * (Pieces - nSend[a]) + Len(out[k]) + s
    BY <2>1 DEF Left
  <2>3. Left(k)' = 2 * (Pieces - nSend'[a]) + Len(out'[k]) + s
    BY <1>5, <2>1 DEF Left
  <2>4. \A p, m, n, l, q \in Nat :
           \/ n = m /\ q = l - 1
           \/ n = m + 1 /\ q = l + 1
           => 2 * (p - n) + q + s < 2 * (p - m) + l + s
    BY <2>1
  <2>5. PICK m, n, l, q : /\ m = nSend[a] /\ n = nSend'[a] /\ l = Len(out[k]) /\ q = Len(out'[k])
    OBVIOUS
  <2>6. 2 * (Pieces - n) + q + s < 2 * (Pieces - m) + l + s
    BY <1>4, <1>5, <2>4, <2>5
  <2>7. QED
    BY <2>2, <2>3, <2>5, <2>6
<1>6. CASE PeerStep
  <2>1. PICK j \in Conns :
           Connect(j) \/ Ask(j) \/ Read(j) \/ FindsClosed(j) \/ Leave(j) \/ Close(j)
    BY <1>6 DEF PeerStep
  <2>2. nSend' = nSend /\ starting' = starting
    BY <1>6, <2>1 DEF PeerStep, Connect, Ask, Read, FindsClosed, Leave, Close, handlerVars, taskVars
  <2>3. CASE j # k
    BY <2>1, <2>2, <2>3 DEF Connect, Ask, Read, FindsClosed, Leave, Close, Types, TypeOK, QueueTypes
  <2>4. CASE j = k
    <3>1. Read(k)
      BY <1>1, <2>1, <2>4 DEF Connect, Ask, FindsClosed, Leave, Close, Turn, Types, TypeOK
    <3>2. out[k] # << >> /\ out'[k] = Tail(out[k]) /\ asking' = asking
      BY <3>1 DEF Read, Types, QueueTypes
    <3>3. Len(out'[k]) = Len(out[k]) - 1
      BY <1>4, <3>2
    <3>4. Len(out'[k]) \in Nat
      BY <1>4, <3>2
    <3>5. QED
      BY <1>4, <1>5, <2>2, <3>2, <3>3, <3>4
  <2>5. QED
    BY <2>3, <2>4
<1>7. ASSUME NEW j \in Conns, onReadable(j)
      PROVE  /\ out'[k] = out[k] /\ nSend'[asking'[k]] = nSend[asking[k]]
             /\ (k \in starting' <=> k \in starting)
  <2>1. inbox[j] # << >> /\ starting = {} /\ UNCHANGED <<nSend, asking>>
    BY <1>7, RequestFacts
  <2>2. j # k
    BY <1>1, <1>2, <2>1 DEF Orderly
  <2>3. starting' \subseteq {j} /\ k \notin starting'
    <3>1. starting' \subseteq {j}
      BY <1>7, <2>1 DEF onReadable, ReadWhole, ReadShort, ReceiveFails, Throws, Reply, Process,
                        SendPart, handlerVars
    <3>2. QED
      BY <2>2, <3>1
  <2>4. out'[k] = out[k]
    BY <1>7, <2>2, ReadableOthers
  <2>5. QED
    BY <2>1, <2>3, <2>4
<1>8. ASSUME NEW j \in Conns, StartTask(j)
      PROVE  \/ Left(k)' < Left(k)
             \/ out'[k] = out[k] /\ nSend'[asking'[k]] = nSend[asking[k]]
                /\ (k \in starting' <=> k \in starting)
  <2>1. j \in starting /\ starting' = {} /\ UNCHANGED <<nSend, asking, out>>
    BY <1>8 DEF StartTask, peerVars
  <2>2. CASE k \notin starting
    BY <2>1, <2>2
  <2>3. CASE k \in starting
    <3>1. Left(k)' = Left(k) - 1 /\ Left(k) \in Int
      BY <1>4, <2>1, <2>3 DEF Left
    <3>2. QED
      BY <3>1
  <2>4. QED
    BY <2>2, <2>3
<1>9. CASE (\E j \in Conns : DeleteHandler(j)) \/ StopOrResumeJob \/ UNCHANGED vars
  BY <1>9 DEF DeleteHandler, StopOrResumeJob, vars, taskVars, peerVars, handlerVars
<1>10. ~onShutdown
  BY <1>1 DEF onShutdown, Turn
<1>11. ASSUME NEW t \in Tasks, RunTask(t)
       PROVE  \/ Left(k)' < Left(k)
              \/ out'[k] = out[k] /\ nSend'[asking'[k]] = nSend[asking[k]]
                 /\ (k \in starting' <=> k \in starting)
  <2>1. /\ UNCHANGED <<asking, starting>> /\ task[t] = "runs" /\ sock_[t] \in Conns
        /\ Piece(t) \in Bytes
    BY <1>11 DEF RunTask, handlerVars, peerVars, Types, SockTypes, Piece, Bytes
  <2>2. CASE UNCHANGED <<nSend, out>>
    BY <2>1, <2>2
  <2>3. CASE Sent(sock_[t], t, Piece(t)) /\ nSend' = [nSend EXCEPT ![t] = @ + 1] /\ More(t)
    <3>1. CASE sock_[t] # k
      <4>1. out'[k] = out[k]
        BY <2>3, <3>1 DEF Sent, Types, QueueTypes
      <4>2. nSend'[a] = nSend[a]
        BY <1>3, <2>3, <3>1 DEF Types, TypeOK
      <4>3. QED
        BY <2>1, <4>1, <4>2
    <3>2. CASE sock_[t] = k
      <4>1. t \in Busy(k)
        BY <2>1, <2>3, <3>2 DEF Busy, More
      <4>2. t = a
        BY <1>1, <1>2, <4>1 DEF Orderly
      <4>3. out'[k] = Append(out[k], [id |-> t, what |-> Piece(t)])
        BY <1>1, <2>1, <2>3, <3>2, SentItem DEF Types
      <4>4. Len(out'[k]) = Len(out[k]) + 1
        BY <1>4, <4>3
      <4>5. nSend'[a] = nSend[a] + 1
        BY <1>3, <2>3, <4>2 DEF Types, TypeOK
      <4>6. Len(out'[k]) \in Nat /\ nSend'[a] \in Nat
        BY <1>4, <4>4, <4>5
      <4>7. QED
        BY <1>5, <2>1, <4>4, <4>5, <4>6
    <3>3. QED
      BY <3>1, <3>2
  <2>4. QED
    BY <1>11, <2>2, <2>3 DEF RunTask, SendBytes, UseFreed, MapFails
<1>12. QED
  BY <1>6, <1>7, <1>8, <1>9, <1>10, <1>11 DEF Next, Reactor

\* Each step on the way of a chunk leaves less of it, and no other step makes it longer:
\* the reactor, the other tasks and the other connections do not disturb it.
THEOREM ChunkShrinksAlways == Spec => ChunkShrinks
<1>1. Init => Shelter /\ Order /\ Fresh /\ Tied /\ KeptAll
  BY KeptInit
<1>2. Types /\ (Shelter /\ Order /\ Fresh /\ Tied /\ KeptAll) /\ [Next]_vars
         => (Shelter /\ Order /\ Fresh /\ Tied /\ KeptAll)'
  BY ShelterStep, OrderStep, TiedStep, KeptStep
<1>3. Types /\ Shelter /\ Order /\ Tied /\ KeptAll /\ [Next]_vars =>
        [\A k \in Conns : Undisturbed(k) /\ Undisturbed(k)' =>
            \/ Left(k)' < Left(k)
            \/ out'[k] = out[k] /\ nSend'[asking'[k]] = nSend[asking[k]]
               /\ (k \in starting' <=> k \in starting)]_vars
  BY ChunkStep
<1>4. QED
  BY <1>1, <1>2, <1>3, TypesInit, TypesStep, PTL DEF Spec, ChunkShrinks
=============================================================================
