------------------------------- MODULE Upload -------------------------------
(***************************************************************************)
(* The uploading side of a client.  One reactor thread runs the handlers   *)
(* of all connections, a request at a time; the bytes of a chunk are sent  *)
(* by an UploadTask on a pool thread, over the socket on which the handler *)
(* goes on to answer requests.  The two are kept apart by the downloader   *)
(* alone, which asks for the next chunk when it has read the last one.     *)
(*                                                                         *)
(* A request stands for a ShakeHand or an UploadRequest, a reply for the   *)
(* packet that answers it, and a piece for the bytes of one call of        *)
(* sendBytes.  A handler may read less than a request: then the connection *)
(* is out of step, and what was left is read as the next request.  Sockets *)
(* have no timeouts.                                                       *)
(***************************************************************************)
EXTENDS Integers, Sequences, FiniteSets

CONSTANTS
    Conns,
    Kinds,          \* what a request may be: see Requests below
    Threads,        \* pool threads for tasks: ThreadPool::defaultPool less the timer's
    Pieces,         \* the pieces of a chunk
    Buffer,         \* how much a connection holds unread
    MaxRequests,    \* bound: requests
    MaxTurns        \* bound: how often a peer leaves a chunk, the user stops the job or
                    \* the client, or a file cannot be mapped

\* A chunk this client can send, a chunk of a file it has no job for, a chunk whose
\* recorded size is zero, and a greeting.
Requests == {"chunk", "unknown", "empty", "hand"}

ASSUME KindsAssumption == Kinds \subseteq Requests
ASSUME BoundsAssumption ==
    /\ Threads \in Nat /\ Pieces \in Nat \ {0} /\ Buffer \in Nat \ {0}
    /\ MaxRequests \in Nat /\ MaxTurns \in Nat

Tasks == 1..MaxRequests
NULL  == 0

VARIABLES
    up,             \* the process runs, and no freed memory has been used
    handler,        \* the connections that have a ClientConnectionHandler
    last_request_upload, pTask,     \* its members; a task is named by its request
    starting,       \* the connection whose task onReadable is about to start
    task,           \* an UploadTask: "none", "made", "runs" on a thread, or "gone"
    sock_, nSend,   \* its connection, and how many pieces it has sent
    is_stopped,     \* DownloadInfo::is_stopped of the job that uploads
    peer,           \* the far end of a connection
    asking,         \* the last request of the peer
    inbox,          \* requests on their way
    out,            \* what was sent to the peer and not read
    dirty,          \* history: connections out of step, their peer having left a chunk
                    \* unread or their handler a part of a request
    asked, turns

handlerVars == <<handler, last_request_upload, pTask, starting>>
taskVars    == <<task, sock_, nSend>>
peerVars    == <<peer, asking, dirty, asked>>
vars == <<up, handlerVars, taskVars, is_stopped, peerVars, inbox, out, turns>>

Init ==
    /\ up = TRUE /\ is_stopped = FALSE
    /\ handler = {} /\ starting = {}
    /\ last_request_upload = [k \in Conns |-> FALSE] /\ pTask = [k \in Conns |-> NULL]
    /\ task = [t \in Tasks |-> "none"]
    /\ sock_ = [t \in Tasks |-> NULL] /\ nSend = [t \in Tasks |-> 0]
    /\ peer = [k \in Conns |-> "none"] /\ asking = [k \in Conns |-> NULL] /\ dirty = {}
    /\ inbox = [k \in Conns |-> << >>] /\ out = [k \in Conns |-> << >>]
    /\ asked = 0 /\ turns = 0

Turn == turns < MaxTurns /\ turns' = turns + 1
-----------------------------------------------------------------------------
(* The peer: the tasks of a download job, one at a time on a socket.       *)

Connect(k) ==
    /\ peer[k] = "none" /\ peer' = [peer EXCEPT ![k] = "idle"]
    /\ handler' = handler \cup {k}
    /\ UNCHANGED <<last_request_upload, pTask, starting, asking, dirty, asked, inbox, out,
                   turns>>

Ask(k) ==
    /\ peer[k] = "idle" /\ asked < MaxRequests /\ asked' = asked + 1
    /\ peer' = [peer EXCEPT ![k] = "reply"] /\ asking' = [asking EXCEPT ![k] = asked']
    /\ \E kind \in Kinds :
          inbox' = [inbox EXCEPT ![k] = Append(@, [id |-> asked', kind |-> kind])]
    /\ UNCHANGED <<handlerVars, dirty, out, turns>>

\* Bytes that are no reply to its request fail the request, and the socket goes back
\* to the pool.
Continues(k) == IF peer[k] = "reply" THEN "ok" ELSE "more"

Understood(k, item) ==
    IF item.id = asking[k] /\ item.what = Continues(k) THEN "chunk" ELSE "idle"

Read(k) ==
    /\ peer[k] \in {"reply", "chunk"} /\ out[k] # << >>
    /\ peer' = [peer EXCEPT ![k] = Understood(k, Head(out[k]))]
    /\ out' = [out EXCEPT ![k] = Tail(@)]
    /\ UNCHANGED <<handlerVars, asking, dirty, asked, inbox, turns>>

\* The handler is gone, and with it the connection.
FindsClosed(k) ==
    /\ peer[k] \in {"reply", "chunk"} /\ out[k] = << >> /\ k \notin handler
    /\ peer' = [peer EXCEPT ![k] = "closed"]
    /\ UNCHANGED <<handlerVars, asking, dirty, asked, inbox, out, turns>>

\* A download task that is stopped gives its socket back in the middle of a chunk.
Leave(k) ==
    /\ peer[k] = "chunk" /\ Turn
    /\ peer' = [peer EXCEPT ![k] = "idle"] /\ dirty' = dirty \cup {k}
    /\ UNCHANGED <<handlerVars, asking, asked, inbox, out>>

\* The downloading process ends.
Close(k) ==
    /\ peer[k] \in {"idle", "reply", "chunk"} /\ peer' = [peer EXCEPT ![k] = "closed"]
    /\ out' = [out EXCEPT ![k] = << >>]
    /\ UNCHANGED <<handlerVars, asking, dirty, asked, inbox, turns>>

PeerStep ==
    /\ up /\ \E k \in Conns : \/ Connect(k) \/ Ask(k) \/ Read(k) \/ FindsClosed(k)
                             \/ Leave(k) \/ Close(k)
    /\ UNCHANGED <<up, taskVars, is_stopped>>
-----------------------------------------------------------------------------
(* The reactor: onReadable of one handler after another.                   *)

Sent(k, id, what) ==
    out' = IF peer[k] = "closed" THEN out
           ELSE [out EXCEPT ![k] = Append(@, [id |-> id, what |-> what])]

\* HandleUploadRequest, and the code of its reply.  Nothing is put into the reply to a
\* packet of another type.
CodeOk(kind) == IF kind = "hand" THEN "hand" ELSE "ok"
Code(kind)   == CASE kind = "chunk" -> "ok" [] kind = "unknown" -> "refused"
                  [] kind = "hand" -> "hand" [] kind = "rest" -> "blank"

HandleUploadRequest(k, r) ==
    IF r.kind = "chunk"
    THEN /\ pTask' = [pTask EXCEPT ![k] = r.id] /\ task' = [task EXCEPT ![r.id] = "made"]
         /\ sock_' = [sock_ EXCEPT ![r.id] = k]
    ELSE UNCHANGED <<pTask, task, sock_>>

\* Process sets last_request_upload for an UploadRequest, refused or not, resets it for a
\* ShakeHand, and leaves it for a packet of another type.
IsUpload(k, r) == IF r.kind = "rest" THEN last_request_upload[k] ELSE r.kind # "hand"

\* The reply is sent; once the peer has closed, the socket may throw.
Process(k, r) ==
    /\ HandleUploadRequest(k, r)
    /\ last_request_upload' = [last_request_upload EXCEPT ![k] = IsUpload(k, r)]
    /\ \/ Sent(k, r.id, Code(r.kind)) /\ starting' = IF IsUpload(k, r) THEN {k} ELSE {}
       \/ peer[k] = "closed" /\ UNCHANGED <<out, starting>>
    /\ UNCHANGED <<up, handler>>

\* Only a part of the reply is sent: onReadable deletes the task and the handler.
SendPart(k, r) ==
    LET t == IF r.kind = "chunk" THEN r.id ELSE pTask[k] IN
    /\ peer[k] = "closed" /\ handler' = handler \ {k}
    /\ IF ~IsUpload(k, r) \/ t = NULL THEN UNCHANGED <<up, task>>
       ELSE IF task[t] = "gone" THEN up' = FALSE /\ UNCHANGED task
       ELSE task' = [task EXCEPT ![t] = "gone"] /\ UNCHANGED up
    /\ UNCHANGED <<last_request_upload, pTask, starting, sock_, out>>

Reply(k, r) == Process(k, r) \/ SendPart(k, r)

Throws == UNCHANGED <<up, handlerVars, task, sock_, out>>

\* The assertion chunk_size > 0 throws: there is no reply, and onReadable ends.
AssertFails(r) == r.kind = "empty"

ReadWhole(k) ==
    LET r == Head(inbox[k]) IN
    /\ r.kind # "rest" /\ inbox' = [inbox EXCEPT ![k] = Tail(@)] /\ UNCHANGED dirty
    /\ IF AssertFails(r) THEN Throws ELSE Reply(k, r)

\* receiveFrom gets less than a request, or the rest of one.  Of a request something is
\* left unread; a rest is read to its end, or over its end into the next request.
Rest(q) == <<[Head(q) EXCEPT !.kind = "rest"]>> \o Tail(q)

Unread(k) == IF Head(inbox[k]).kind # "rest" THEN {Rest(inbox[k])}
             ELSE {Tail(inbox[k])} \cup {Rest(q) : q \in {Tail(inbox[k])} \ {<< >>}}

\* The beginning of a header may parse, with the type of the request or without it, and
\* names no message; a rest may parse as anything that names none.
Misread(r) == {"rest"} \cup (CASE r.kind = "rest" -> {"unknown", "hand"}
                               [] r.kind = "hand" -> {"hand"}
                               [] OTHER           -> {"unknown"})

\* An error: onReadable deletes the handler, its socket is closed, and what was sent may
\* be lost.
ReceiveFails(k) ==
    /\ handler' = handler \ {k} /\ out' \in {out, [out EXCEPT ![k] = << >>]}
    /\ UNCHANGED <<up, last_request_upload, pTask, starting, task, sock_>>

\* receiveFrom returns an error, its assertion on the length of the header throws, or it
\* takes what it has for a packet.
ReadShort(k) ==
    LET r == Head(inbox[k]) IN
    /\ inbox' \in {[inbox EXCEPT ![k] = left] : left \in Unread(k)} /\ dirty' = dirty \cup {k}
    /\ \/ ReceiveFails(k)
       \/ Throws
       \/ \E kind \in Misread(r) : Reply(k, [r EXCEPT !.kind = kind])

onReadable(k) ==
    /\ k \in handler /\ starting = {} /\ inbox[k] # << >>
    /\ ReadWhole(k) \/ ReadShort(k)
    /\ UNCHANGED <<nSend, is_stopped, peer, asking, asked, turns>>

\* TaskManager::start.  A null task throws.  Without an idle thread the task is
\* deleted and the exception leaves pTask as it is.  To start a task that was deleted
\* is to use freed memory.
Running   == {t \in Tasks : task[t] = "runs"}
HasThread == Cardinality(Running) < Threads

KeepOwnership(k)    == pTask
ReleaseOwnership(k) == [pTask EXCEPT ![k] = NULL]

StartTask(k) ==
    /\ k \in starting /\ starting' = {}
    /\ LET t == pTask[k] IN
       \/ t = NULL /\ UNCHANGED <<up, pTask, task>>
       \/ /\ t # NULL /\ task[t] = "made" /\ UNCHANGED up
          /\ IF HasThread
             THEN task' = [task EXCEPT ![t] = "runs"] /\ pTask' = ReleaseOwnership(k)
             ELSE task' = [task EXCEPT ![t] = "gone"] /\ UNCHANGED pTask
       \/ t # NULL /\ task[t] # "made" /\ up' = FALSE /\ UNCHANGED <<pTask, task>>
    /\ UNCHANGED <<handler, last_request_upload, sock_, nSend, is_stopped, peerVars, inbox,
                   out, turns>>

\* A connection that is closed at the far end is readable.  The length that was not read
\* is compared with what memory holds: the assertion throws, and the handler stays, or
\* the handler deletes itself, with the socket that a task may refer to.
Quiet(k)        == peer[k] # "none"
Disconnected(k) == peer[k] = "closed"

DeleteHandler(k) ==
    /\ k \in handler /\ starting = {} /\ inbox[k] = << >> /\ Disconnected(k)
    /\ handler' = handler \ {k}
    /\ UNCHANGED <<up, last_request_upload, pTask, starting, taskVars, is_stopped, peerVars,
                   inbox, out, turns>>

\* reactor.stop(): onShutdown deletes every handler, and the connections close.
onShutdown ==
    /\ handler # {} /\ starting = {} /\ Turn /\ handler' = {}
    /\ peer' = [k \in Conns |-> "closed"] /\ out' = [k \in Conns |-> << >>]
    /\ UNCHANGED <<up, last_request_upload, pTask, starting, taskVars, is_stopped, asking,
                   dirty, asked, inbox>>

Reactor == up /\ \/ \E k \in Conns : onReadable(k) \/ StartTask(k) \/ DeleteHandler(k)
                 \/ onShutdown
-----------------------------------------------------------------------------
(* UploadTask::runTask on a pool thread.                                   *)

Ends(t) == task' = [task EXCEPT ![t] = "gone"]

MoreOrEqual(t) == nSend[t] <= Pieces
More(t)        == nSend[t] < Pieces

Piece(t) == IF nSend[t] + 1 = Pieces THEN "last" ELSE "more"

\* sendBytes blocks while the connection is full.  After the peer has closed, it
\* takes bytes for a while, and then throws.
SendBytes(t) ==
    LET k == sock_[t] IN
    /\ k \in handler /\ Len(out[k]) < Buffer
    /\ \/ Sent(k, t, Piece(t)) /\ nSend' = [nSend EXCEPT ![t] = @ + 1] /\ UNCHANGED task
       \/ peer[k] = "closed" /\ Ends(t) /\ UNCHANGED <<nSend, out>>
    /\ UNCHANGED up

\* The socket is a member of a handler that is gone.
UseFreed(t) ==
    /\ sock_[t] \notin handler /\ UNCHANGED <<nSend, out>>
    /\ \/ up' = FALSE /\ UNCHANGED task
       \/ Ends(t) /\ UNCHANGED up

\* The chunk is taken from a mapping of its file, which may fail.
MapFails(t) == nSend[t] = 0 /\ Turn /\ Ends(t) /\ UNCHANGED <<up, nSend, out>>

RunTask(t) ==
    /\ up /\ task[t] = "runs"
    /\ \/ More(t) /\ ~is_stopped /\ (SendBytes(t) \/ UseFreed(t)) /\ UNCHANGED turns
       \/ (More(t) => is_stopped) /\ Ends(t) /\ UNCHANGED <<up, nSend, out, turns>>
       \/ MapFails(t)
    /\ UNCHANGED <<handlerVars, sock_, is_stopped, peerVars, inbox>>

StopOrResumeJob ==
    /\ up /\ \/ ~is_stopped /\ Turn /\ is_stopped' = TRUE
             \/ is_stopped /\ is_stopped' = FALSE /\ UNCHANGED turns
    /\ UNCHANGED <<up, handlerVars, taskVars, peerVars, inbox, out>>

Next == PeerStep \/ Reactor \/ StopOrResumeJob \/ \E t \in Tasks : RunTask(t)

Spec == Init /\ [][Next]_vars

\* The reactor takes every connection that is readable, each pool thread runs, and a
\* peer reads what it has asked for.
FairSpec ==
    /\ Spec /\ \A t \in Tasks : WF_vars(RunTask(t))
    /\ \A k \in Conns : /\ WF_vars(up /\ onReadable(k)) /\ WF_vars(up /\ StartTask(k))
                        /\ WF_vars(/\ up /\ (Read(k) \/ FindsClosed(k))
                                   /\ UNCHANGED <<up, taskVars, is_stopped>>)
-----------------------------------------------------------------------------
TypeOK ==
    /\ handler \subseteq Conns /\ starting \subseteq handler /\ dirty \subseteq Conns
    /\ last_request_upload \in [Conns -> BOOLEAN] /\ pTask \in [Conns -> Tasks \cup {NULL}]
    /\ task \in [Tasks -> {"none", "made", "runs", "gone"}]
    /\ sock_ \in [Tasks -> Conns \cup {NULL}] /\ nSend \in [Tasks -> 0..Pieces]
    /\ peer \in [Conns -> {"none", "idle", "reply", "chunk", "closed"}]
    /\ asking \in [Conns -> Tasks \cup {NULL}]
    /\ up \in BOOLEAN /\ is_stopped \in BOOLEAN
    /\ asked \in 0..MaxRequests /\ turns \in 0..MaxTurns

Replies == {"ok", "refused", "hand"}

\* Replies and chunks never mix: on a connection that is in step the peer finds what it
\* waits for, although the reactor and a pool thread write to the same socket.
InStep ==
    \A k \in Conns \ dirty : out[k] # << >> =>
        /\ peer[k] \in {"reply", "chunk"} /\ Head(out[k]).id = asking[k]
        /\ Head(out[k]).what \in (IF peer[k] = "reply" THEN Replies ELSE {"more", "last"})

\* A handler deletes itself, with the socket that a task refers to, on whatever error.  A
\* task that has bytes to send loses its socket only when the far end has closed, or on a
\* connection that was out of step before: the first request that is read short finds no
\* task at work, since the peer asks only when it has read the last chunk.
SocketKept ==
    [][\A t \in Running : More(t) /\ sock_[t] \in handler \ handler' =>
            peer'[sock_[t]] = "closed" \/ sock_[t] \in dirty]_vars

\* A task is deleted twice or started when it is deleted, and a socket is used after its
\* handler, only if a connection was closed or is out of step, or a start that found no
\* thread has left pTask behind.
Dangling(k) ==
    k \notin starting /\ pTask[k] # NULL /\ task[pTask[k]] = "gone" /\ nSend[pTask[k]] = 0
NothingFreedUsed == up \/ \E k \in Conns : peer[k] = "closed" \/ k \in dirty \/ Dangling(k)

\* A peer that is promised a chunk gets it or closes, unless its start finds no thread,
\* whatever other connections do, when nobody stops the job, no peer leaves a chunk and
\* files can be mapped.
ChunkArrives ==
    \A k \in Conns :
        peer[k] = "chunk" ~> (peer[k] # "chunk" \/ ~up \/ turns > 0 \/ Dangling(k))

\* What ChunkArrives rests on, with a thread for every request.  On the way of a chunk
\* somebody has a step to take: the peer reads a piece, the reactor starts the task, or
\* the task sends a piece, whatever becomes of the other connections.
Undisturbed(k) == /\ MaxRequests <= Threads /\ up /\ turns = 0
                  /\ peer[k] = "chunk" /\ k \notin dirty
Sends(t, k)    == sock_[t] = k /\ k \in handler /\ More(t) /\ ~is_stopped

ChunkMoves ==
    \A k \in Conns : Undisturbed(k) =>
        out[k] # << >> \/ k \in starting \/ \E t \in Running : Sends(t, k)

\* And each of these steps leaves less of it, while all others leave it as it is.
Left(k) == 2 * (Pieces - nSend[asking[k]]) + Len(out[k]) + (IF k \in starting THEN 1 ELSE 0)
ChunkShrinks ==
    [][\A k \in Conns : Undisturbed(k) /\ Undisturbed(k)' =>
            \/ Left(k)' < Left(k)
            \/ out'[k] = out[k] /\ nSend'[asking'[k]] = nSend[asking[k]]
               /\ (k \in starting' <=> k \in starting)]_vars
=============================================================================
