--------------------------- MODULE JobProperties ---------------------------
(***************************************************************************)
(* What Job promises.                                                      *)
(***************************************************************************)
EXTENDS Job

\* Every variable has its type, and every chunk, owner and socket index is one
\* of the job's.
WithPeer == {"shake", "getSock", "goSock", "sockWait", "pool", "launch"}
ThreadTypeOK ==
    /\ jpc \in JobPc /\ held \subseteq Entry
    /\ peer \in Owners \cup {NoOwner} /\ sock \in Nat
    /\ jpc \in WithPeer => peer \in Owners
    /\ rfile \in Files \cup {NoFile} /\ (jpc \in {"connect", "shake"} => rfile \in Files)
    /\ todo \subseteq Owners \X {1, 2}
DataTypeOK ==
    /\ queue \subseteq Entry
    /\ ownerInfo \in [Files -> [Owners -> OwnerEntry]] /\ known \subseteq Files
    /\ bitmap \subseteq Chunks /\ written \subseteq Chunks
    /\ socks \in [Owners -> Seq(Sock)]
    /\ task \in [Workers -> Task]
    /\ faults \in Nat /\ cmds \in Nat
FlagTypeOK ==
    /\ stopped \in BOOLEAN /\ paused \in BOOLEAN /\ removed \in BOOLEAN
    /\ throttled \in BOOLEAN /\ up \in BOOLEAN
TypeOK == ThreadTypeOK /\ DataTypeOK /\ FlagTypeOK
-----------------------------------------------------------------------------
\* The threads that work on chunk c and have not reported it yet.
Unreported == Stages \ {"idle", "reported", "finished"}
Fetchers(c) == {w \in Workers : task[w].chunk = c /\ task[w].stage \in Unreported}

\* A chunk is in one place at most: done, in the queue once, in the hands of the
\* job thread, or fetched by one pool thread.  onFailed puts a chunk back while
\* its task is still alive, and init_queue rebuilds the queue from the bitmap.
OnePlace ==
    /\ \A e \in queue \cup held :
        /\ e.chunk \notin bitmap
        /\ Fetchers(e.chunk) = {}
        /\ \A x \in queue \cup held : x.chunk = e.chunk => x = e
    /\ queue \cap held = {}
    /\ \A w \in Workers : task[w].stage \in Unreported =>
        /\ task[w].chunk \notin bitmap
        /\ Fetchers(task[w].chunk) = {w}

\* A set bit means that verified bytes were written: onFinished runs for failed
\* tasks too, and only set_reported in onFailed tells them apart.
DoneIsWritten == bitmap \subseteq written

\* tm_.start finds a free thread: ThreadPool::start throws when there is none,
\* and the chunk would be lost (job.cc:256).
PoolHasRoom == jpc = "launch" => \E w \in Workers : task[w].stage = "idle"

\* The sockets tasks and the job thread have taken out.
Holders == {w \in Workers : task[w].stage \notin {"idle", "finished"}}
SockOf(w) == <<task[w].owner, task[w].sock>>
JobSock == {<<peer, sock>> : x \in {s \in {sock} : s # 0}}

\* No socket serves two tasks, or a task and the job thread, at a time; a socket
\* in use is marked USED, so that get_idle_client_sock cannot hand it out again.
SockExclusive ==
    /\ \A w \in Holders :
        /\ task[w].owner \in Owners /\ task[w].sock \in DOMAIN socks[task[w].owner]
        /\ socks[task[w].owner][task[w].sock].st = "USED"
        /\ SockOf(w) \notin JobSock
        /\ \A v \in Holders : SockOf(v) = SockOf(w) => v = w
    /\ sock # 0 => /\ peer \in Owners /\ sock \in DOMAIN socks[peer]
                   /\ socks[peer][sock].st = "USED"

\* In the loop, a chunk that is neither done nor anywhere has cost a socket: both
\* are dropped together, when the constructor of DownloadTask throws.
InLoop == \/ jpc \in Running \ {"init", "connect", "shake", "dead"}
          \/ jpc \in {"connect", "shake"} /\ held # {}
Lost   == {c \in Chunks \ bitmap : /\ Fetchers(c) = {}
                                   /\ \A e \in queue \cup held : e.chunk # c}
Leaked == {s \in UNION {{o} \X DOMAIN socks[o] : o \in Owners} :
              /\ socks[s[1]][s[2]].st = "USED" /\ socks[s[1]][s[2]].health # "null"
              /\ s \notin JobSock /\ \A w \in Holders : SockOf(w) # s}
LossIsLeak == InLoop => Cardinality(Lost) <= Cardinality(Leaked)

\* get_sock_idel_condition and return_sock assert that the peer has a condition:
\* the owners recorded in an entry, however old, have a connection.
ClientsConnected ==
    /\ \A e \in queue \cup held : \A o \in e.clients : IsConnected(socks[o])
    /\ jpc \in {"getSock", "goSock", "sockWait"} => IsConnected(socks[peer])

\* The wait for a socket uses no lock that return_sock takes, so its signal may
\* come before the wait, and the wait has no timeout.  As a peer may have more
\* connections than there are pool threads, the job thread waits for a peer none
\* of whose sockets is in use by a task only when a socket of that peer is marked
\* as used for ever: a failed connection's, or one a failed launch dropped.
DeadSock(o) == \E i \in DOMAIN socks[o] : /\ socks[o][i].st = "USED"
                                         /\ \A w \in Holders : SockOf(w) # <<o, i>>
MissedNeedsDead ==
    /\ jpc = "sockWait" /\ MaxConn >= Cardinality(Workers)
    /\ \A w \in Holders : task[w].owner # peer
    => DeadSock(peer)

\* The log line and the comment of report_no_owner_chunk: a chunk without owners
\* comes last.  When one is taken, nothing that has an owner is passed over
\* except chunks that were themselves without one.
NoOwnerLast ==
    [][jpc = "take" =>
         \A e \in queue \ queue' : e.status = "NOOWNER" =>
            \A x \in queue' : x.status # "FREE" /\ (x.status = "FAILED" => x.clients = {})]_vars

\* The copies of equal files are made when the download is complete
\* (job_info.h:75, job.cc:239).
CopyAfterComplete == jpc = "copy" => bitmap = Chunks

\* They are, when nothing has failed and the user neither stops nor removes the job,
\* however often it is paused and resumed: an empty queue then means that every chunk
\* is in the hands of a thread that will finish it.
Uninterrupted   == Allowed \cap {"stop", "remove"} = {}
CopyUndisturbed == faults = 0 /\ Uninterrupted => CopyAfterComplete

\* Where nothing has failed, every entry of an owner list has its bitmap when the
\* owners have been greeted ("since all clients are in the list, we just update the
\* bitmap of peer client", job.cc:376).
EveryEntryShaken ==
    jpc = "connect" /\ todo = {} /\ faults = 0 =>
        \A o \in Owners : ownerInfo[rfile][o].listed =>
            ownerInfo[rfile][o].shaken /\ ~ownerInfo[rfile][o].twice

\* One run of a job comes to an end: Job::run returns, or the process aborts, or after a
\* failure an exception ends the thread (a peer has more connections than the pool has
\* threads, so that a handshake finds a socket).  Two things can keep it from that: chunks
\* that no owner the tracker names has, as when it names none, which the loop tries again
\* and again (NOOWNER); and the wait for a socket of a peer that has a dead one.
Ended         == jpc = "idle" \/ ~up \/ (jpc = "dead" /\ faults > 0)
LacksOwner    == jpc = "owner" /\ \E e \in held : e.clients = {}
AwaitsTheDead == jpc = "sockWait" /\ DeadSock(peer)
RunEnds == (jpc = "starting" ~> Ended) \/ []<>LacksOwner \/ <>[]AwaitsTheDead

\* The job implements JobLedger.
ledgerOf == [c \in Chunks |-> IF c \in bitmap THEN "done"
                              ELSE IF Fetchers(c) # {} THEN "fetching" ELSE "missing"]
Ledger == INSTANCE JobLedger WITH ledger <- ledgerOf, Slots <- Cardinality(Workers)
LedgerSpec == Ledger!Spec
=============================================================================
