-------------------------------- MODULE Job --------------------------------
(***************************************************************************)
(* One download job of the client: the thread that executes Job::run, the  *)
(* pool threads that execute DownloadTask::runTask and the observers that  *)
(* collect their results, the chunk queue and the owner lists they share   *)
(* without a lock, the connections of the job, and the user's controls.    *)
(*                                                                         *)
(* Abstractions.  A chunk is a value of Chunks and its bytes arrive in     *)
(* Pieces pieces.  The tracker and the peers are external: they answer as  *)
(* tracker_connection_handler.cc and client_connection_handler.cc let      *)
(* them.  An exchange of one request and one reply is one step, which is   *)
(* taken by a thread that owns the socket.  A process that abort()s on an  *)
(* out of range dynamic_bitset::test stops (up).  StartJob is not called   *)
(* again between the start of the thread and is_running_ = true.           *)
(***************************************************************************)
EXTENDS Integers, Sequences, FiniteSets, ChunkSelector, LocalSockManager

CONSTANTS
    Files, Chunks, FileOf,  \* unique fileids, their chunks, the file of a chunk
    Owners,                 \* clients that may own a file
    Offers,                 \* the bitmaps a peer may answer a handshake with
    Workers,                \* threads of tp_(2, 4)
    Pieces,                 \* pieces a chunk arrives in
    CanExceed,              \* whether a second's bytes may exceed the speed limit
    FaultKinds,             \* what may fail outside of the client
    MaxFaults,              \* bound: how often
    Allowed,                \* the calls the user makes
    MaxCmds,                \* bound: how many
    NoChunk, NoOwner, NoFile

ASSUME SetsAssumption ==
    /\ IsFiniteSet(Chunks) /\ IsFiniteSet(Owners) /\ IsFiniteSet(Workers)
    /\ Workers # {}
    /\ FileOf \in [Chunks -> Files]
    /\ Offers \subseteq SUBSET Chunks
    /\ NoChunk \notin Chunks /\ NoOwner \notin Owners /\ NoFile \notin Files
ASSUME BoundsAssumption ==
    /\ Pieces \in Nat \ {0} /\ CanExceed \in BOOLEAN
    /\ MaxFaults \in Nat /\ MaxCmds \in Nat

VARIABLES
    jpc,        \* where the job thread is in Job::run
    held,       \* chunk_info: the entry the job thread holds, as a set of at most one
    peer, sock, \* the owner the job thread deals with and the index of its socket
    rfile, todo,\* reinit_file_owner_info: the file, and the owners still to greet
    queue,      \* ChunkSelector::chunk_queue_
    ownerInfo,  \* JobInfo::ownerInfoMap, an entry per file and owner
    known,      \* the files that have an entry in ownerInfoMap
    bitmap,     \* DownloadInfo::bitmap_map: the chunks whose bit is set
    written,    \* the chunks whose verified bytes are in the local file
    socks,      \* LocalSockManager::client_sock_map_
    task,       \* the DownloadTask of each pool thread
    stopped, paused, removed, throttled,    \* DownloadInfo
    up,         \* the process has not aborted
    faults, cmds

jobVars == <<jpc, held, peer, sock, rfile, todo>>
ownVars == <<ownerInfo, known>>
datVars == <<bitmap, written>>
ctlVars == <<stopped, paused, removed, throttled>>
vars    == <<jobVars, queue, ownVars, datVars, socks, task, ctlVars, up, faults, cmds>>

Running == {"init", "connect", "shake", "check", "goStop", "stopWait", "goPause",
            "pauseWait", "take", "refresh", "owner", "getSock", "goSock", "sockWait",
            "pool", "launch", "join", "copy", "dead"}
JobPc   == {"idle", "starting"} \cup Running

Stages  == {"idle", "request", "recv", "goPause", "pauseWait", "goLimit",
            "limitWait", "written", "thrown", "reported", "finished"}

\* An owner's entry in the list of a file; twice when the list has a second
\* entry for it, whose bitmap no handshake ever fills.
OwnerEntry == [listed : BOOLEAN, twice : BOOLEAN, shaken : BOOLEAN, bits : SUBSET Chunks]
Unlisted   == [listed |-> FALSE, twice |-> FALSE, shaken |-> FALSE, bits |-> {}]
ListedFull(twice) == [listed |-> TRUE, twice |-> twice, shaken |-> TRUE, bits |-> Chunks]
Listed(twice)     == [listed |-> TRUE, twice |-> twice, shaken |-> FALSE, bits |-> {}]

Entry == [chunk : Chunks, status : ChunkStatus, clients : SUBSET Owners, priority : Int]

NoTask == [stage |-> "idle", chunk |-> NoChunk, owner |-> NoOwner, sock |-> 0, left |-> 0]
Task   == {NoTask} \cup [stage : Stages \ {"idle"}, chunk : Chunks, owner : Owners,
                         sock : Nat, left : 0..Pieces]

ListedOwners(f) == {o \in Owners : ownerInfo[f][o].listed}

\* get_priority's clientLists, and its out of range test on an entry whose
\* bitmap no handshake has filled.
ClientsOf(c)  == {o \in Owners : c \in ownerInfo[FileOf[c]][o].bits}
AbortsOn(c)   == \E o \in Owners : LET info == ownerInfo[FileOf[c]][o] IN
                                   info.listed /\ (~info.shaken \/ info.twice)

NewEntry(c, status) == ChunkInfo(c, status, ClientsOf(c))

\* The report functions give a chunk back to the queue, with the owners known now.
PushServed(c, status) ==
    queue' = IF ClientsOf(c) = {} THEN queue ELSE queue \cup {NewEntry(c, status)}
Push(c, status) == queue' = queue \cup {NewEntry(c, status)}

Fault(kind) == kind \in FaultKinds /\ faults < MaxFaults /\ faults' = faults + 1

Init ==
    /\ jpc = "idle" /\ held = {} /\ peer = NoOwner /\ sock = 0
    /\ rfile = NoFile /\ todo = {}
    /\ queue = {}
    /\ ownerInfo = [f \in Files |-> [o \in Owners |-> Unlisted]] /\ known = {}
    /\ bitmap \in SUBSET Chunks /\ written = bitmap
    /\ socks = [o \in Owners |-> << >>]
    /\ task = [w \in Workers |-> NoTask]
    /\ stopped = TRUE /\ paused = TRUE /\ removed = FALSE /\ throttled = FALSE
    /\ up = TRUE /\ faults = 0 /\ cmds = 0
-----------------------------------------------------------------------------
(* Finding the owners of a file: reinit_file_owner_info and its callees.   *)

Goto(pc) == jpc' = pc /\ UNCHANGED <<held, peer, sock, rfile, todo>>

\* An exception leaves Job::run: the thread ends and is_running_ stays true.
Die == /\ jpc' = "dead" /\ held' = {} /\ peer' = NoOwner /\ sock' = 0
       /\ rfile' = NoFile /\ todo' = {}

\* Where reinit_file_owner_info returns to: the file loop before init_queue,
\* or the chunk that has no owner.
AfterRefresh == IF held = {} THEN "init" ELSE "owner"

\* The tracker's search_percentage_raw moves to the next row before it reads
\* one: it skips the first row and returns the last one twice, unless that is
\* the only one.
Search(rows) ==
    IF Cardinality(rows) <= 1 THEN {[all |-> rows, again |-> {}]}
    ELSE UNION {{[all |-> rows \ {first}, again |-> {last}] : last \in rows \ {first}} :
                   first \in rows}

\* The unlisted owners that are ahead of this client, and then those that are
\* behind, which are only searched when its own percentage is not zero.
Answers(f) ==
    LET free    == Owners \ ListedOwners(f)
        started == \E c \in bitmap : FileOf[c] = f
    IN UNION {{[all |-> a.all \cup b.all, again |-> a.again \cup b.again] :
                  a \in Search(ahead),
                  b \in UNION {Search(rows) : rows \in
                           IF started THEN SUBSET (free \ ahead) ELSE {{}}}} :
              ahead \in SUBSET free}

\* The tracker names owners that are not in the list: they replace the list.
NewOwners(f, new, again) ==
    /\ new # {}
    /\ ownerInfo' = [ownerInfo EXCEPT ![f] =
                        [o \in Owners |-> IF o \in again THEN Listed(TRUE)
                                         ELSE IF o \in new THEN Listed(FALSE) ELSE Unlisted]]
    /\ known' = known \cup {f}
    /\ jpc' = "connect" /\ rfile' = f /\ todo' = (new \X {1}) \cup (again \X {2})
    /\ UNCHANGED <<held, peer, sock, faults>>

\* No new owner, or an error of the tracker: the list stays as it is.  Neither is a
\* failure: it is what the tracker answers while nobody else is online.
KeepOwners(f) ==
    /\ known' = known \cup {f}
    /\ Goto(AfterRefresh)
    /\ UNCHANGED ownerInfo

\* request_clients: RequestClients dereferences a null reply when the
\* exchange with the tracker fails.
RequestClients(f) ==
    /\ \/ \E a \in Answers(f) : NewOwners(f, a.all, a.again)
       \/ KeepOwners(f) /\ UNCHANGED faults
       \/ Die /\ known' = known \cup {f} /\ UNCHANGED ownerInfo /\ Fault("tracker")
    /\ UNCHANGED <<queue, datVars, socks, task, ctlVars, up, cmds>>

\* Before init_queue, every file that has no owner list; in the loop, the file
\* of a chunk whose status is NOOWNER.
FindOwners ==
    \/ jpc = "init" /\ \E f \in Files \ known : RequestClients(f)
    \/ jpc = "refresh" /\ \E e \in held : RequestClients(FileOf[e.chunk])

\* The loop over the owner list: connect first, when there is no connection.
ConnectClient ==
    /\ jpc = "connect"
    /\ \E o \in {t[1] : t \in todo} :
        /\ peer' = o /\ jpc' = "shake"
        /\ \/ IsConnected(socks[o]) /\ UNCHANGED <<socks, faults>>
           \/ /\ ~IsConnected(socks[o]) /\ UNCHANGED faults
              /\ socks' = [socks EXCEPT ![o] = Connect(@)]
           \/ ~IsConnected(socks[o]) /\ Fault("connect") /\ UNCHANGED socks
    /\ UNCHANGED <<held, sock, rfile, todo, queue, ownVars, datVars, task, ctlVars, up, cmds>>

Greeted == /\ \E t \in todo : t[1] = peer /\ todo' = todo \ {t}
           /\ jpc' = "connect" /\ peer' = NoOwner
           /\ UNCHANGED <<held, sock, rfile>>

\* The peer answers with its bitmap of the file: find_if meets the first entry.
ShakeOk(list) ==
    /\ \E b \in Offers :
        ownerInfo' = [ownerInfo EXCEPT ![rfile][peer] =
            [listed |-> TRUE, twice |-> ownerInfo[rfile][peer].twice, shaken |-> TRUE,
             bits |-> {c \in b : FileOf[c] = rfile}]]
    /\ socks' = [socks EXCEPT ![peer] = list]
    /\ Greeted /\ UNCHANGED faults

\* The exchange fails, or the peer has no such file, and the bitmap stays empty; or what
\* is read as a reply throws out of Job::run: the assertion on the length of its header, or
\* the null pointer of a message of another type.  The socket is given back either way.
ShakeFails(list, i) ==
    /\ \/ list[i].health = "ok" /\ Fault("shake") /\ socks' = [socks EXCEPT ![peer] = list]
       \/ /\ list[i].health = "dirty" /\ UNCHANGED faults
          /\ socks' = [socks EXCEPT ![peer] = list]
       \/ /\ list[i].health \in Broken /\ UNCHANGED faults
          /\ socks' = [socks EXCEPT ![peer] = SetHealth(list, i, "reset")]
    /\ Greeted \/ Die
    /\ UNCHANGED ownerInfo

\* CoolClient::shake_hand takes a socket and gives it back; it asserts that
\* there is one.
ShakeHand ==
    /\ jpc = "shake"
    /\ LET list == socks[peer] IN
       \/ \E i \in DOMAIN list : IsFirstIdle(list, i)
            /\ \/ list[i].health = "ok" /\ ShakeOk(list)
               \/ ShakeFails(list, i)
       \/ /\ MayGrow(list) /\ ~NoAddress(list)
          /\ LET new == Connect(list) IN
             ShakeOk(new) \/ ShakeFails(new, Len(new))
       \/ /\ MayGrow(list) /\ ~NoAddress(list) /\ Fault("grow") /\ Die
          /\ socks' = [socks EXCEPT ![peer] = Grow(list, "null")] /\ UNCHANGED ownerInfo
       \/ /\ Exhausted(list) \/ (MayGrow(list) /\ NoAddress(list))
          /\ Die /\ UNCHANGED <<ownerInfo, socks, faults>>
    /\ UNCHANGED <<known, queue, datVars, task, ctlVars, up, cmds>>

RefreshDone ==
    /\ jpc = "connect" /\ todo = {}
    /\ jpc' = AfterRefresh /\ rfile' = NoFile
    /\ UNCHANGED <<held, peer, sock, todo, queue, ownVars, datVars, socks, task,
                   ctlVars, up, faults, cmds>>
-----------------------------------------------------------------------------
(* The job thread: Job::run.                                               *)

Begin ==
    /\ jpc = "starting" /\ Goto("init")
    /\ UNCHANGED <<queue, ownVars, datVars, socks, task, ctlVars, up, faults, cmds>>

\* init_queue: one entry per chunk whose bit is not set.
WantedAll == Chunks
Wanted    == Chunks \ bitmap

InitQueue ==
    /\ jpc = "init" /\ Files \subseteq known
    /\ IF \E c \in Wanted : AbortsOn(c)
       THEN up' = FALSE /\ UNCHANGED <<jobVars, queue>>
       ELSE queue' = {NewEntry(c, "FREE") : c \in Wanted} /\ Goto("check") /\ UNCHANGED up
    /\ UNCHANGED <<ownVars, datVars, socks, task, ctlVars, faults, cmds>>

\* The head of the loop: removed, then stopped, then paused.
CheckFlags ==
    /\ jpc = "check"
    /\ Goto(IF removed THEN "join" ELSE IF stopped THEN "goStop"
            ELSE IF paused THEN "goPause" ELSE "take")
    /\ UNCHANGED <<queue, ownVars, datVars, socks, task, ctlVars, up, faults, cmds>>

\* Condition::wait enqueues the caller: a broadcast before this step is lost.
EnterWait ==
    /\ \/ jpc = "goStop"  /\ Goto("stopWait")
       \/ jpc = "goPause" /\ Goto("pauseWait")
       \/ jpc = "goSock"  /\ Goto("sockWait")
    /\ UNCHANGED <<queue, ownVars, datVars, socks, task, ctlVars, up, faults, cmds>>

\* download_pause_cond.wait(mutex, 1000) throws when nobody signals in time.
PauseTimeout ==
    /\ jpc = "pauseWait" /\ Die
    /\ UNCHANGED <<queue, ownVars, datVars, socks, task, ctlVars, up, faults, cmds>>

\* get_chunk; an empty queue ends the loop.
TakeChunk ==
    /\ jpc = "take"
    /\ \/ queue = {} /\ Goto("join") /\ UNCHANGED queue
       \/ \E e \in Top(queue) :
            /\ queue' = queue \ {e} /\ held' = {e}
            /\ jpc' = IF e.status = "NOOWNER" THEN "refresh" ELSE "owner"
            /\ UNCHANGED <<peer, sock, rfile, todo>>
    /\ UNCHANGED <<ownVars, datVars, socks, task, ctlVars, up, faults, cmds>>

\* report_no_owner_chunk.
ReportNoOwner ==
    /\ jpc = "owner"
    /\ \E e \in held :
        /\ e.clients = {}
        /\ IF AbortsOn(e.chunk)
           THEN up' = FALSE /\ UNCHANGED <<jobVars, queue>>
           ELSE /\ Push(e.chunk, "NOOWNER")
                /\ held' = {} /\ jpc' = "check"
                /\ UNCHANGED <<peer, sock, rfile, todo, up>>
    /\ UNCHANGED <<ownVars, datVars, socks, task, ctlVars, faults, cmds>>

\* min_element over the payloads of the owners listed in the entry.
ChooseOwner ==
    /\ jpc = "owner"
    /\ \E e \in held : \E o \in e.clients :
        /\ \A p \in e.clients : Payload(socks[o]) <= Payload(socks[p])
        /\ peer' = o /\ jpc' = "getSock"
    /\ UNCHANGED <<held, sock, rfile, todo, queue, ownVars, datVars, socks, task,
                   ctlVars, up, faults, cmds>>

\* get_idle_client_sock.  A null result leads to the wait on the peer's condition;
\* the exception of a reset first socket, whose address a new connection needs,
\* leaves Job::run.
GotSock(i) == sock' = i /\ jpc' = "pool" /\ UNCHANGED <<held, peer, rfile, todo>>

GetSock ==
    /\ jpc = "getSock"
    /\ LET list == socks[peer] IN
       \/ \E i \in DOMAIN list :
            /\ IsFirstIdle(list, i) /\ GotSock(i)
            /\ socks' = [socks EXCEPT ![peer] = SetStatus(list, i, "USED")]
            /\ UNCHANGED faults
       \/ /\ MayGrow(list) /\ ~NoAddress(list) /\ GotSock(Len(list) + 1)
          /\ socks' = [socks EXCEPT ![peer] = Grow(list, "ok")]
          /\ UNCHANGED faults
       \/ /\ MayGrow(list) /\ ~NoAddress(list) /\ Fault("grow") /\ Goto("goSock")
          /\ socks' = [socks EXCEPT ![peer] = Grow(list, "null")]
       \/ /\ MayGrow(list) /\ NoAddress(list) /\ Die
          /\ UNCHANGED <<socks, faults>>
       \/ /\ Exhausted(list) /\ Goto("goSock")
          /\ UNCHANGED <<socks, faults>>
    /\ UNCHANGED <<queue, ownVars, datVars, task, ctlVars, up, cmds>>

\* tp_.available() > 0.
AvailableUnchecked == TRUE
Available == \E w \in Workers : task[w].stage = "idle"

\* The loop on tp_.available(), whose wait is retried after its timeout.
AwaitThread ==
    /\ jpc = "pool" /\ Available /\ Goto("launch")
    /\ UNCHANGED <<queue, ownVars, datVars, socks, task, ctlVars, up, faults, cmds>>

\* tm_.start(new DownloadTask).  The constructor asks the socket for its peer
\* address; the exception of a reset socket is caught and logged, and neither
\* the chunk nor the socket is given back.
Launch ==
    /\ jpc = "launch"
    /\ \E e \in held :
        IF socks[peer][sock].health = "reset"
        THEN UNCHANGED task
        ELSE \E w \in Workers :
                /\ task[w].stage = "idle"
                /\ task' = [task EXCEPT ![w] = [stage |-> "request", chunk |-> e.chunk,
                              owner |-> peer, sock |-> sock, left |-> Pieces]]
    /\ jpc' = "check" /\ held' = {} /\ peer' = NoOwner /\ sock' = 0
    /\ UNCHANGED <<rfile, todo, queue, ownVars, datVars, socks, ctlVars, up, faults, cmds>>

\* joinAll waits for the pool threads; then the copies of equal files are made.
AllJoinedUnchecked == TRUE
AllJoined == \A w \in Workers : task[w].stage = "idle"

Join ==
    /\ jpc = "join" /\ AllJoined /\ Goto("copy")
    /\ UNCHANGED <<queue, ownVars, datVars, socks, task, ctlVars, up, faults, cmds>>

CopySameFiles ==
    /\ jpc = "copy" /\ Goto("idle")
    /\ UNCHANGED <<queue, ownVars, datVars, socks, task, ctlVars, up, faults, cmds>>

JobStep == \/ Begin \/ FindOwners \/ ConnectClient \/ ShakeHand \/ RefreshDone
           \/ InitQueue \/ CheckFlags \/ EnterWait \/ PauseTimeout \/ TakeChunk
           \/ ReportNoOwner \/ ChooseOwner \/ GetSock \/ AwaitThread \/ Launch
           \/ Join \/ CopySameFiles
-----------------------------------------------------------------------------
(* A pool thread: DownloadTask::runTask and the observers it calls.        *)

Stage(w, from, to) == /\ task[w].stage = from
                      /\ task' = [task EXCEPT ![w].stage = to]

HealthOf(w)     == socks[task[w].owner][task[w].sock].health
Becomes(w, health) ==
    socks' = [socks EXCEPT ![task[w].owner] = SetHealth(@, task[w].sock, health)]

\* The UploadRequest and its reply.  A closed connection answers with a reset.
SendRequest(w) ==
    /\ task[w].stage = "request"
    /\ \/ /\ HealthOf(w) = "ok" /\ Stage(w, "request", "recv")
          /\ UNCHANGED <<socks, faults>>
       \/ /\ HealthOf(w) = "ok" /\ Stage(w, "request", "thrown") /\ Fault("request")
          /\ UNCHANGED socks
       \/ /\ HealthOf(w) = "dirty" /\ Stage(w, "request", "thrown")
          /\ UNCHANGED <<socks, faults>>
       \/ /\ HealthOf(w) \in Broken /\ Stage(w, "request", "thrown")
          /\ Becomes(w, "reset") /\ UNCHANGED faults
    /\ UNCHANGED <<jobVars, queue, ownVars, datVars, ctlVars, up, cmds>>

\* The head of the receive loop: stopped or removed ends the task and leaves
\* the rest of the chunk in the socket.
Interrupted(w) ==
    /\ Stage(w, "recv", "thrown") /\ task[w].left > 0 /\ (stopped \/ removed)
    /\ IF HealthOf(w) = "ok" THEN Becomes(w, "dirty") ELSE UNCHANGED socks
    /\ UNCHANGED <<jobVars, queue, ownVars, datVars, ctlVars, up, faults, cmds>>

ProceedsPastEnd(w) == ~stopped /\ ~removed
Proceeds(w) == task[w].left > 0 /\ ~stopped /\ ~removed

\* The flags are read before the wait enqueues the thread.
HoldBack(w) ==
    /\ \/ Stage(w, "recv", "goPause") /\ Proceeds(w) /\ paused
       \/ Stage(w, "recv", "goLimit") /\ Proceeds(w) /\ ~paused /\ throttled
       \/ Stage(w, "goPause", "pauseWait")
       \/ Stage(w, "goLimit", "limitWait")
    /\ UNCHANGED <<jobVars, queue, ownVars, datVars, socks, ctlVars, up, faults, cmds>>

\* receiveBytes: a piece of the chunk, or n <= 0 when the peer has closed.
Receive(w) ==
    /\ task[w].stage = "recv" /\ Proceeds(w) /\ ~paused /\ ~throttled
    /\ IF HealthOf(w) = "ok"
       THEN /\ task' = [task EXCEPT ![w].left = @ - 1]
            /\ throttled' \in {FALSE, CanExceed} /\ UNCHANGED socks
       ELSE /\ task' = [task EXCEPT ![w].stage = "thrown"]
            /\ (\E h \in Broken : Becomes(w, h)) /\ UNCHANGED throttled
    /\ UNCHANGED <<jobVars, queue, ownVars, datVars, stopped, paused, removed, up, faults, cmds>>

\* The checksum, and the copy into the mapped file.
Verify(w) ==
    /\ task[w].left = 0
    /\ \/ /\ Stage(w, "recv", "written") /\ written' = written \cup {task[w].chunk}
          /\ UNCHANGED faults
       \/ Stage(w, "recv", "thrown") /\ Fault("content") /\ UNCHANGED written
    /\ UNCHANGED <<jobVars, queue, ownVars, bitmap, socks, ctlVars, up, cmds>>

\* report_failed_chunk; the socket stays in use.
OnFailed(w) ==
    /\ task[w].stage = "thrown"
    /\ IF AbortsOn(task[w].chunk)
       THEN up' = FALSE /\ UNCHANGED <<queue, task>>
       ELSE /\ Push(task[w].chunk, "FAILED")
            /\ Stage(w, "thrown", "reported") /\ UNCHANGED up
    /\ UNCHANGED <<jobVars, ownVars, datVars, socks, ctlVars, faults, cmds>>

\* The reported flag, which only onFailed sets.
NeverReported(w) == TRUE
NotReported(w)   == task[w].stage = "written"

\* report_success_chunk unless onFailed has reported the task, and in either
\* case return_sock, whose signal reaches the job thread if it waits.
OnFinished(w) ==
    /\ task[w].stage \in {"written", "reported"}
    /\ bitmap' = IF NotReported(w) THEN bitmap \cup {task[w].chunk} ELSE bitmap
    /\ task' = [task EXCEPT ![w].stage = "finished"]
    /\ socks' = [socks EXCEPT ![task[w].owner] = SetStatus(@, task[w].sock, "IDLE")]
    /\ jpc' = IF jpc = "sockWait" /\ peer = task[w].owner THEN "getSock" ELSE jpc
    /\ UNCHANGED <<held, peer, sock, rfile, todo, queue, ownVars, written, ctlVars, up,
                   faults, cmds>>

\* The pool counts the thread as available again.
ThreadIdle(w) ==
    /\ task[w].stage = "finished" /\ task' = [task EXCEPT ![w] = NoTask]
    /\ UNCHANGED <<jobVars, queue, ownVars, datVars, socks, ctlVars, up, faults, cmds>>

TaskStep(w) == \/ SendRequest(w) \/ Interrupted(w) \/ HoldBack(w) \/ Receive(w)
               \/ Verify(w) \/ OnFailed(w) \/ OnFinished(w) \/ ThreadIdle(w)
-----------------------------------------------------------------------------
(* The user and the surroundings: client.cc's controls, the collector's    *)
(* timer, and peers that close connections.                                *)

Command(call) == call \in Allowed /\ cmds < MaxCmds /\ cmds' = cmds + 1

\* A broadcast reaches the threads that wait now.
WakeNobody(w, stages) == task[w]
Wake(w, stages) == IF task[w].stage \in stages THEN [task[w] EXCEPT !.stage = "recv"]
                   ELSE task[w]

ResumeWithoutLock ==
    /\ ~removed /\ stopped' = FALSE /\ paused' = FALSE
    /\ task' = [w \in Workers |-> Wake(w, {"pauseWait"})]
    /\ UNCHANGED <<removed, throttled>>

\* ResumeJob, and StartJob of a job that is running.
ResumeJob ==
    /\ Command("resume") /\ ResumeWithoutLock
    /\ Goto(IF jpc \in {"stopWait", "pauseWait"} THEN "check" ELSE jpc)
    /\ UNCHANGED <<queue, ownVars, datVars, socks, up, faults>>

StartJob ==
    /\ Command("start") /\ ResumeWithoutLock
    /\ jpc = "idle" /\ Goto("starting")
    /\ UNCHANGED <<queue, ownVars, datVars, socks, up, faults>>

StopJob ==
    /\ Command("stop") /\ ~removed /\ stopped' = TRUE
    /\ UNCHANGED <<jobVars, queue, ownVars, datVars, socks, task, paused, removed,
                   throttled, up, faults>>

PauseJob ==
    /\ Command("pause") /\ ~removed /\ paused' = TRUE
    /\ UNCHANGED <<jobVars, queue, ownVars, datVars, socks, task, stopped, removed,
                   throttled, up, faults>>

\* RemoveJob broadcasts on the pause and speed conditions, not on the stop one.
RemoveJob ==
    /\ Command("remove") /\ ~removed /\ removed' = TRUE
    /\ task' = [w \in Workers |-> Wake(w, {"pauseWait", "limitWait"})]
    /\ Goto(IF jpc = "pauseWait" THEN "check" ELSE jpc)
    /\ UNCHANGED <<queue, ownVars, datVars, socks, stopped, paused, throttled, up, faults>>

\* onJobInfoCollectorWakeUp visits the jobs that have not been removed.
CollectorTick ==
    /\ ~removed /\ throttled' = FALSE
    /\ task' = [w \in Workers |-> Wake(w, {"limitWait"})]
    /\ UNCHANGED <<jobVars, queue, ownVars, datVars, socks, stopped, paused, removed,
                   up, faults, cmds>>

PeerCloses ==
    /\ Fault("close")
    /\ \E o \in Owners : \E i \in DOMAIN socks[o] :
        /\ socks[o][i].health \in {"ok", "dirty"}
        /\ socks' = [socks EXCEPT ![o] = SetHealth(@, i, "closed")]
    /\ UNCHANGED <<jobVars, queue, ownVars, datVars, task, ctlVars, up, cmds>>

UserStep == ResumeJob \/ StartJob \/ StopJob \/ PauseJob \/ RemoveJob

Next == /\ up
        /\ \/ JobStep \/ (\E w \in Workers : TaskStep(w))
           \/ UserStep \/ CollectorTick \/ PeerCloses

Spec == Init /\ [][Next]_vars

\* Every thread keeps running, the collector's timer keeps firing, and a peer
\* or tracker that does not fail answers.
Fairness == /\ WF_vars(up /\ JobStep)
            /\ \A w \in Workers : WF_vars(up /\ TaskStep(w))
            /\ WF_vars(up /\ CollectorTick)

FairSpec == Spec /\ Fairness
=============================================================================
