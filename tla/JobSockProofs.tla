--------------------------- MODULE JobSockProofs ---------------------------
(***************************************************************************)
(* Proofs about the sockets of a job, for every value of its constants: a  *)
(* socket serves one chunk at a time, the owners an entry names have a     *)
(* connection, a chunk is lost only together with a socket, the wait for a *)
(* socket is entered for good only when one is dead, a chunk without       *)
(* owners comes last, copies are made of a complete download when nothing  *)
(* has failed, and the threads of a removed job do not wait for each other.*)
(***************************************************************************)
EXTENDS JobProofs, JobRemoval

-----------------------------------------------------------------------------
(* How a step changes the lists of sockets and the tasks.                  *)

\* next is list with more sockets, and as many of the old ones in use.
Keeps(list, next) ==
    /\ Len(list) <= Len(next)
    /\ \A i \in 1..Len(list) : /\ next[i].st = list[i].st
                               /\ next[i].health = "null" => list[i].health = "null"
KeepsAll == \A o \in Owners : Keeps(socks[o], socks'[o])

LEMMA KeepsItself == ASSUME NEW list \in Seq(Sock) PROVE Keeps(list, list)
<1>1. Len(list) \in Nat
  OBVIOUS
<1>2. QED
  BY <1>1 DEF Keeps

LEMMA KeepsOps ==
    ASSUME NEW list \in Seq(Sock), NEW i, NEW h \in Health \ {"null"}, NEW any
    PROVE  /\ Keeps(list, SetHealth(list, i, h))
           /\ Keeps(list, Connect(list)) /\ Keeps(list, Grow(list, any))
           /\ Keeps(list, SetHealth(Connect(list), Len(Connect(list)), h))
<1>1. list \in [1..Len(list) -> Sock] /\ Len(list) \in Nat
  OBVIOUS
<1>2. Keeps(list, SetHealth(list, i, h))
  BY <1>1 DEF Keeps, SetHealth, Sock
<1>3. Keeps(list, Connect(list)) /\ Keeps(list, Grow(list, any))
  BY <1>1 DEF Keeps, Connect, Grow
<1>4. Keeps(list, SetHealth(Connect(list), Len(Connect(list)), h))
  <2>1. Connect(list) \in Seq(Sock) /\ Keeps(list, Connect(list))
    BY <1>3, SockListType DEF Health
  <2> DEFINE next == Connect(list)  n == Len(next)
  <2>2. Len(next) = Len(list) + 1
    BY DEF Connect
  <2>3. /\ Len(SetHealth(next, n, h)) = Len(next)
        /\ \A j \in 1..Len(list) : SetHealth(next, n, h)[j] = next[j]
    BY <1>1, <2>1, <2>2 DEF SetHealth
  <2>4. QED
    BY <1>1, <2>1, <2>2, <2>3 DEF Keeps
<1>5. QED
  BY <1>2, <1>3, <1>4

LEMMA KeepsOne ==
    ASSUME DataTypeOK, NEW o \in Owners, NEW list,
           socks' = [socks EXCEPT ![o] = list], Keeps(socks[o], list)
    PROVE  KeepsAll
<1>1. \A p \in Owners : Keeps(socks[p], socks[p])
  BY KeepsItself DEF DataTypeOK
<1>2. QED
  BY <1>1 DEF KeepsAll, DataTypeOK

LEMMA KeepsSame == ASSUME DataTypeOK, socks' = socks PROVE KeepsAll
  BY KeepsItself DEF KeepsAll, DataTypeOK

\* No task takes a socket.
TasksKeep == \A w \in Workers :
    task'[w].stage \notin {"idle", "finished"} =>
        /\ task[w].stage \notin {"idle", "finished"}
        /\ task'[w].owner = task[w].owner /\ task'[w].sock = task[w].sock

\* The socket of the job thread is given back or stays.
JobKeeps == sock' = 0 \/ (sock' = sock /\ peer' = peer)
SockPc   == sock # 0 <=> jpc \in {"pool", "launch"}
\* The steps of the job thread, but for one that takes a socket or starts a task.
LEMMA WalkKeeps ==
    ASSUME TypeOK, SockPc, HeldInv, JobStep, ~GetSock, ~Launch
    PROVE  KeepsAll /\ TasksKeep /\ JobKeeps /\ SockPc'
<1> USE DEF TypeOK, SockPc, JobKeeps
<1>1. TasksKeep
  BY DEF TasksKeep, JobStep, Begin, FindOwners, RequestClients, ConnectClient, ShakeHand,
         RefreshDone, InitQueue, CheckFlags, EnterWait, PauseTimeout, TakeChunk,
         ReportNoOwner, ChooseOwner, AwaitThread, Join, CopySameFiles
<1>2. CASE FindOwners
  <2>1. KeepsAll
    BY <1>2, KeepsSame DEF FindOwners, RequestClients
  <2>2. Die \/ (sock' = sock /\ peer' = peer /\ jpc \in {"init", "refresh"}
                    /\ jpc' \in {"connect", AfterRefresh})
    BY <1>2 DEF FindOwners, RequestClients, NewOwners, KeepOwners, Goto
  <2>3. QED
    BY <1>1, <2>1, <2>2 DEF Die, AfterRefresh
<1>3. CASE ConnectClient
  <2>1. sock' = sock /\ jpc = "connect" /\ jpc' = "shake"
    BY <1>3 DEF ConnectClient
  <2>2. ASSUME NEW o \in Owners, socks' = [socks EXCEPT ![o] = Connect(@)]
        PROVE  KeepsAll
    BY <2>2, KeepsOne, KeepsOps, "ok" \in Health \ {"null"} DEF DataTypeOK, Health
  <2>3. KeepsAll
    BY <1>3, <2>2, KeepsSame DEF ConnectClient, ThreadTypeOK
  <2>4. QED
    BY <1>1, <2>1, <2>3
<1>4. CASE ShakeHand
  <2>1. Die \/ (sock' = sock /\ jpc = "shake" /\ jpc' = "connect")
    BY <1>4 DEF ShakeHand, ShakeOk, ShakeFails, Greeted
  <2> DEFINE list == socks[peer]  new == Connect(list)
  <2>2. peer \in Owners /\ list \in Seq(Sock)
    BY <1>4 DEF ShakeHand, ThreadTypeOK, WithPeer, DataTypeOK
  <2>3. \/ socks' = socks
        \/ \E i : \E l \in {list, SetHealth(list, i, "reset"), new, Grow(list, "null"),
                           SetHealth(new, Len(new), "reset")} :
              socks' = [socks EXCEPT ![peer] = l]
    BY <1>4 DEF ShakeHand, ShakeOk, ShakeFails
  <2>4. \A i : /\ Keeps(list, list) /\ Keeps(list, SetHealth(list, i, "reset"))
              /\ Keeps(list, new) /\ Keeps(list, Grow(list, "null"))
              /\ Keeps(list, SetHealth(new, Len(new), "reset"))
    BY <2>2, KeepsItself, KeepsOps, "reset" \in Health \ {"null"} DEF Health
  <2> HIDE DEF list, new
  <2>5. KeepsAll
    BY <2>2, <2>3, <2>4, KeepsOne, KeepsSame DEF list
  <2>6. QED
    BY <1>1, <2>1, <2>5 DEF Die, ShakeHand
<1>5. CASE \/ Begin \/ RefreshDone \/ InitQueue \/ CheckFlags \/ EnterWait \/ PauseTimeout
           \/ TakeChunk \/ ReportNoOwner \/ ChooseOwner \/ AwaitThread \/ Join \/ CopySameFiles
  <2>1. KeepsAll
    BY <1>5, KeepsSame DEF Begin, RefreshDone, InitQueue, CheckFlags, EnterWait, PauseTimeout,
          TakeChunk, ReportNoOwner, ChooseOwner, AwaitThread, Join, CopySameFiles
  <2>2. JobKeeps /\ SockPc'
    BY <1>5 DEF Begin, RefreshDone, InitQueue, CheckFlags, EnterWait, PauseTimeout, Die, Goto,
          TakeChunk, ReportNoOwner, ChooseOwner, AwaitThread, Join, CopySameFiles, AfterRefresh,
          jobVars
  <2>3. QED
    BY <1>1, <2>1, <2>2
<1>6. QED
  BY <1>2, <1>3, <1>4, <1>5 DEF JobStep

\* What get_idle_client_sock does to the lists.
LEMMA GetSockKeeps ==
    ASSUME TypeOK, SockPc, GetSock
    PROVE  /\ TasksKeep /\ SockPc' /\ peer \in Owners
           /\ \/ KeepsAll /\ JobKeeps /\ jpc' \in {"goSock", "dead"}
              \/ /\ KeepsAll /\ peer' = peer /\ sock' = Len(socks[peer]) + 1
                 /\ jpc' = "pool" /\ socks' = [socks EXCEPT ![peer] = Grow(@, "ok")]
              \/ /\ peer' = peer /\ sock' \in DOMAIN socks[peer] /\ jpc' = "pool"
                 /\ socks[peer][sock'].st = "IDLE"
                 /\ socks' = [socks EXCEPT ![peer] = SetStatus(@, sock', "USED")]
<1> USE DEF TypeOK, SockPc, JobKeeps
<1> DEFINE list == socks[peer]
<1>1. peer \in Owners /\ list \in Seq(Sock) /\ jpc = "getSock"
  BY DEF GetSock, ThreadTypeOK, WithPeer, DataTypeOK
<1>2. TasksKeep
  BY DEF GetSock, TasksKeep
<1>3. Len(list) + 1 # 0 /\ \A i \in DOMAIN list : i # 0
  BY <1>1
<1>4. ASSUME NEW i \in DOMAIN list, IsFirstIdle(list, i), GotSock(i),
             socks' = [socks EXCEPT ![peer] = SetStatus(list, i, "USED")]
      PROVE  /\ SockPc' /\ peer' = peer /\ sock' \in DOMAIN list /\ jpc' = "pool"
             /\ list[sock'].st = "IDLE"
             /\ socks' = [socks EXCEPT ![peer] = SetStatus(@, sock', "USED")]
  BY <1>1, <1>3, <1>4 DEF GotSock, IsFirstIdle, IsIdle
<1>5. ASSUME NEW h, socks' = [socks EXCEPT ![peer] = Grow(list, h)] PROVE KeepsAll
  BY <1>1, <1>5, KeepsOne, KeepsOps, "ok" \in Health \ {"null"} DEF Health
<1>6. ASSUME GotSock(Len(list) + 1), socks' = [socks EXCEPT ![peer] = Grow(list, "ok")]
      PROVE  /\ SockPc' /\ KeepsAll /\ peer' = peer /\ sock' = Len(list) + 1 /\ jpc' = "pool"
             /\ socks' = [socks EXCEPT ![peer] = Grow(@, "ok")]
  BY <1>1, <1>3, <1>5, <1>6 DEF GotSock
<1>7. ASSUME Goto("goSock") \/ Die, socks' = socks \/ socks' = [socks EXCEPT ![peer] = Grow(list, "null")]
      PROVE  SockPc' /\ KeepsAll /\ JobKeeps /\ jpc' \in {"goSock", "dead"}
  BY <1>1, <1>5, <1>7, KeepsSame DEF Goto, Die
<1>8. \/ \E i \in DOMAIN list : /\ IsFirstIdle(list, i) /\ GotSock(i)
                                /\ socks' = [socks EXCEPT ![peer] = SetStatus(list, i, "USED")]
      \/ GotSock(Len(list) + 1) /\ socks' = [socks EXCEPT ![peer] = Grow(list, "ok")]
      \/ /\ Goto("goSock") \/ Die
         /\ socks' = socks \/ socks' = [socks EXCEPT ![peer] = Grow(list, "null")]
  BY DEF GetSock
<1> HIDE DEF list
<1>9. QED
  BY <1>1, <1>2, <1>4, <1>6, <1>7, <1>8 DEF list

LEMMA LaunchKeeps ==
    ASSUME TypeOK, SockPc, Launch
    PROVE  /\ KeepsAll /\ sock' = 0 /\ SockPc' /\ sock # 0 /\ jpc' = "check"
           /\ \/ socks[peer][sock].health = "reset" /\ task' = task
              \/ \E w \in Workers, e \in held :
                    /\ task[w].stage = "idle"
                    /\ task' = [task EXCEPT ![w] = [stage |-> "request", chunk |-> e.chunk,
                                  owner |-> peer, sock |-> sock, left |-> Pieces]]
<1>1. KeepsAll
  BY KeepsSame DEF Launch, TypeOK
<1>2. QED
  BY <1>1 DEF Launch, SockPc

\* The steps of a task but for its end.
LEMMA TaskKeeps ==
    ASSUME TypeOK, SockPc, NEW w \in Workers, TaskStep(w), ~OnFinished(w)
    PROVE  KeepsAll /\ TasksKeep /\ JobKeeps /\ SockPc'
<1> USE DEF TypeOK, SockPc, JobKeeps, jobVars
<1>1. JobKeeps /\ SockPc'
  BY DEF TaskStep, SendRequest, Interrupted, HoldBack, Receive, Verify, OnFailed, ThreadIdle
<1>2. TasksKeep
  <2>1. task \in [Workers -> Task] /\ \A t \in Task : DOMAIN t = DOMAIN NoTask
    BY DEF DataTypeOK, Task, NoTask
  <2>2. ASSUME NEW from \in Stages \ {"idle", "finished"}, NEW to, Stage(w, from, to)
        PROVE  TasksKeep
    BY <2>1, <2>2 DEF Stage, TasksKeep, NoTask
  <2>3. ASSUME task[w].stage = "recv", NEW n, task' = [task EXCEPT ![w].left = n] \/
                 task' = [task EXCEPT ![w].stage = n]
        PROVE  TasksKeep
    BY <2>1, <2>3 DEF TasksKeep, NoTask
  <2>4. CASE SendRequest(w) \/ Interrupted(w) \/ HoldBack(w) \/ Verify(w)
    BY <2>2, <2>4 DEF SendRequest, Interrupted, HoldBack, Verify, Stages
  <2>5. CASE Receive(w)
    BY <2>3, <2>5 DEF Receive
  <2>6. CASE OnFailed(w)
    BY <2>2, <2>6 DEF OnFailed, TasksKeep, Stages
  <2>7. CASE ThreadIdle(w)
    BY <2>7 DEF ThreadIdle, TasksKeep, NoTask, DataTypeOK
  <2>8. QED
    BY <2>4, <2>5, <2>6, <2>7 DEF TaskStep
<1>3. task[w].stage # "idle" => task[w].owner \in Owners
  BY DEF DataTypeOK, Task, NoTask
<1>4. ASSUME NEW h \in {"reset", "dirty", "closed"}, Becomes(w, h), task[w].stage # "idle"
      PROVE  KeepsAll
  BY <1>3, <1>4, KeepsOne, KeepsOps, h \in Health \ {"null"} DEF Becomes, Health, DataTypeOK
<1>5. KeepsAll
  BY <1>4, KeepsSame
  DEF TaskStep, SendRequest, Interrupted, HoldBack, Receive, Verify, OnFailed, ThreadIdle,
      Stage, Broken
<1>6. QED
  BY <1>1, <1>2, <1>5

LEMMA UserKeeps ==
    ASSUME TypeOK, SockPc, UserStep \/ CollectorTick \/ PeerCloses \/ UNCHANGED vars
    PROVE  KeepsAll /\ TasksKeep /\ JobKeeps /\ SockPc'
<1> USE DEF TypeOK, SockPc, JobKeeps, jobVars, UserStep, vars
<1>1. JobKeeps /\ SockPc'
  BY DEF ResumeJob, StartJob, StopJob, PauseJob, RemoveJob, CollectorTick, PeerCloses, Goto
<1>2. TasksKeep
  <2>1. \A w, stages : \/ Wake(w, stages) = task[w]
                       \/ /\ Wake(w, stages) = [task[w] EXCEPT !.stage = "recv"]
                          /\ task[w].stage \in stages
    BY DEF Wake
  <2>2. CASE task' = task
    BY <2>2 DEF TasksKeep
  <2>3. CASE \E stages \in SUBSET {"pauseWait", "limitWait"} :
                  task' = [w \in Workers |-> Wake(w, stages)]
    <3>1. PICK stages \in SUBSET {"pauseWait", "limitWait"} :
                  task' = [w \in Workers |-> Wake(w, stages)]
      BY <2>3
    <3>2. ASSUME NEW w \in Workers PROVE task'[w] = Wake(w, stages)
      BY <3>1
    <3>3. \A w \in Workers : task[w] \in Task
      BY DEF DataTypeOK
    <3>4. \A t \in Task : /\ [t EXCEPT !.stage = "recv"].owner = t.owner
                          /\ [t EXCEPT !.stage = "recv"].sock = t.sock
      BY DEF Task, NoTask
    <3>5. QED
      BY <2>1, <3>2, <3>3, <3>4 DEF TasksKeep
  <2>4. QED
    BY <2>2, <2>3
    DEF ResumeJob, StartJob, ResumeWithoutLock, StopJob, PauseJob, RemoveJob, CollectorTick,
        PeerCloses
<1>3. KeepsAll
  <2>1. ASSUME NEW o \in Owners, NEW i, socks' = [socks EXCEPT ![o] = SetHealth(@, i, "closed")]
        PROVE  KeepsAll
    BY <2>1, KeepsOne, KeepsOps, "closed" \in Health \ {"null"} DEF Health, DataTypeOK
  <2>2. QED
    BY <2>1, KeepsSame
    DEF ResumeJob, StartJob, StopJob, PauseJob, RemoveJob, CollectorTick, PeerCloses
<1>4. QED
  BY <1>1, <1>2, <1>3
-----------------------------------------------------------------------------
(* A socket serves one chunk at a time.                                    *)

LEMMA ExclusiveInit == Init => SockPc /\ SockExclusive
  BY DEF Init, SockPc, SockExclusive, Holders, NoTask

LEMMA SocksStay ==
    ASSUME TypeOK, TypeOK', KeepsAll, NEW o \in Owners, NEW i \in DOMAIN socks[o]
    PROVE  /\ i \in DOMAIN socks'[o] /\ socks'[o][i].st = socks[o][i].st
           /\ socks'[o][i].health = "null" => socks[o][i].health = "null"
<1>1. socks[o] \in Seq(Sock) /\ socks'[o] \in Seq(Sock)
  BY DEF TypeOK, DataTypeOK
<1>2. /\ Len(socks[o]) \in Nat /\ Len(socks'[o]) \in Nat
      /\ DOMAIN socks[o] = 1..Len(socks[o]) /\ DOMAIN socks'[o] = 1..Len(socks'[o])
  BY <1>1
<1>3. QED
  BY <1>2 DEF KeepsAll, Keeps

LEMMA ExclusiveKept ==
    ASSUME TypeOK, TypeOK', SockExclusive, KeepsAll, TasksKeep, JobKeeps
    PROVE  SockExclusive'
<1>1. \A o \in Owners : \A i \in DOMAIN socks[o] :
         i \in DOMAIN socks'[o] /\ socks'[o][i].st = socks[o][i].st
  BY SocksStay
<1>2. \A w \in Holders' : /\ w \in Holders /\ SockOf(w)' = SockOf(w)
                          /\ task'[w].owner = task[w].owner /\ task'[w].sock = task[w].sock
  BY DEF TasksKeep, Holders, SockOf
<1>3. JobSock' \subseteq JobSock
  BY DEF JobSock, JobKeeps
<1>4. QED
  BY <1>1, <1>2, <1>3 DEF SockExclusive, JobKeeps

\* A socket that was idle, or did not exist, is nobody's.
LEMMA ExclusiveTaken ==
    ASSUME TypeOK, TypeOK', SockPc, SockExclusive, GetSock
    PROVE  SockExclusive'
<1>1. TasksKeep /\ peer \in Owners /\ jpc = "getSock" /\ sock = 0
  BY GetSockKeeps DEF GetSock, SockPc
<1>2. CASE KeepsAll /\ JobKeeps
  BY <1>1, <1>2, ExclusiveKept
<1>3. \A w \in Holders' : /\ w \in Holders /\ SockOf(w)' = SockOf(w)
                          /\ task'[w].owner = task[w].owner /\ task'[w].sock = task[w].sock
  BY <1>1 DEF TasksKeep, Holders, SockOf
<1>4. socks[peer] \in Seq(Sock) /\ socks \in [Owners -> Seq(Sock)]
  BY <1>1 DEF TypeOK, DataTypeOK
<1>5. CASE /\ KeepsAll /\ peer' = peer /\ sock' = Len(socks[peer]) + 1
           /\ socks' = [socks EXCEPT ![peer] = Grow(@, "ok")]
  <2>1. \A o \in Owners : \A i \in DOMAIN socks[o] :
           i \in DOMAIN socks'[o] /\ socks'[o][i].st = socks[o][i].st
    BY <1>5, SocksStay
  <2>2. sock' \notin DOMAIN socks[peer] /\ sock' \in DOMAIN socks'[peer]
        /\ socks'[peer][sock'].st = "USED"
    BY <1>1, <1>4, <1>5 DEF Grow
  <2>3. \A w \in Holders : SockOf(w) # <<peer, sock'>>
    BY <2>2 DEF SockExclusive, SockOf
  <2>4. JobSock' \subseteq {<<peer, sock'>>}
    BY <1>5 DEF JobSock
  <2>5. QED
    BY <1>1, <1>3, <1>5, <2>1, <2>2, <2>3, <2>4 DEF SockExclusive
<1>6. CASE /\ peer' = peer /\ sock' \in DOMAIN socks[peer] /\ socks[peer][sock'].st = "IDLE"
           /\ socks' = [socks EXCEPT ![peer] = SetStatus(@, sock', "USED")]
  <2>1. /\ socks'[peer] = [socks[peer] EXCEPT ![sock'].st = "USED"]
        /\ \A o \in Owners \ {peer} : socks'[o] = socks[o]
    BY <1>1, <1>4, <1>6 DEF SetStatus
  <2>2. /\ DOMAIN socks'[peer] = DOMAIN socks[peer]
        /\ \A i \in DOMAIN socks[peer] : i # sock' => socks'[peer][i] = socks[peer][i]
        /\ socks'[peer][sock'].st = "USED"
    <3>1. socks[peer][sock'] \in Sock
      BY <1>4, <1>6
    <3>2. QED
      BY <1>4, <1>6, <2>1, <3>1 DEF Sock
  <2>3. \A w \in Holders : SockOf(w) # <<peer, sock'>>
    BY <1>6 DEF SockExclusive, SockOf
  <2>4. JobSock' \subseteq {<<peer, sock'>>}
    BY <1>6 DEF JobSock
  <2>5. QED
    BY <1>1, <1>3, <1>6, <2>1, <2>2, <2>3, <2>4 DEF SockExclusive, SockOf
<1>7. QED
  BY <1>2, <1>5, <1>6, GetSockKeeps

\* The socket of the job thread goes to the task, and to no other.
LEMMA ExclusiveLaunch ==
    ASSUME TypeOK, TypeOK', SockPc, SockExclusive, Launch
    PROVE  SockExclusive'
<1>1. KeepsAll /\ sock' = 0 /\ sock # 0
  BY LaunchKeeps
<1>2. CASE task' = task
  <2>1. TasksKeep /\ JobKeeps
    BY <1>1, <1>2 DEF TasksKeep, JobKeeps
  <2>2. QED
    BY <1>1, <2>1, ExclusiveKept
<1>3. CASE \E w \in Workers, e \in held :
              /\ task[w].stage = "idle"
              /\ task' = [task EXCEPT ![w] = [stage |-> "request", chunk |-> e.chunk,
                            owner |-> peer, sock |-> sock, left |-> Pieces]]
  <2>1. PICK w \in Workers, e \in held :
              /\ task[w].stage = "idle"
              /\ task' = [task EXCEPT ![w] = [stage |-> "request", chunk |-> e.chunk,
                            owner |-> peer, sock |-> sock, left |-> Pieces]]
    BY <1>3
  <2>2. task'[w].owner = peer /\ task'[w].sock = sock /\ SockOf(w)' = <<peer, sock>>
    BY <2>1 DEF TypeOK, DataTypeOK, SockOf
  <2>3. \A v \in Workers \ {w} : task'[v] = task[v] /\ SockOf(v)' = SockOf(v)
    BY <2>1 DEF TypeOK, DataTypeOK, SockOf
  <2>4. \A v \in Holders' : v = w \/ (v \in Holders /\ SockOf(v) # <<peer, sock>>)
    BY <1>1, <2>3 DEF Holders, SockExclusive, JobSock
  <2>5. \A o \in Owners : \A i \in DOMAIN socks[o] :
           i \in DOMAIN socks'[o] /\ socks'[o][i].st = socks[o][i].st
    BY <1>1, SocksStay
  <2>6. JobSock' = {}
    BY <1>1 DEF JobSock
  <2>7. peer \in Owners /\ sock \in DOMAIN socks[peer] /\ socks[peer][sock].st = "USED"
    BY <1>1 DEF SockExclusive
  <2>8. \A v \in Holders' : /\ task'[v].owner \in Owners
                           /\ task'[v].sock \in DOMAIN socks'[task'[v].owner]
                           /\ socks'[task'[v].owner][task'[v].sock].st = "USED"
    <3>1. ASSUME NEW v \in Holders' \ {w}
          PROVE  /\ task'[v].owner \in Owners /\ task'[v].sock \in DOMAIN socks'[task'[v].owner]
                 /\ socks'[task'[v].owner][task'[v].sock].st = "USED"
      <4>1. v \in Holders /\ v \in Workers /\ task'[v] = task[v]
        BY <2>3, <2>4 DEF Holders
      <4>2. QED
        BY <2>5, <4>1 DEF SockExclusive
    <3>2. QED
      BY <2>2, <2>5, <2>7, <3>1
  <2>9. \A v, x \in Holders' : SockOf(x)' = SockOf(v)' => x = v
    <3>1. \A v \in Holders' : v # w => v \in Holders /\ SockOf(v)' = SockOf(v)
                                     /\ SockOf(v)' # SockOf(w)'
      BY <2>2, <2>3, <2>4 DEF Holders
    <3>2. QED
      BY <3>1 DEF SockExclusive
  <2>10. QED
    BY <1>1, <2>6, <2>8, <2>9 DEF SockExclusive
<1>4. QED
  BY <1>2, <1>3, LaunchKeeps

\* return_sock: the task is no holder any more, and no other task has its socket.
LEMMA FinishFacts ==
    ASSUME TypeOK, TypeOK', SockPc, SockExclusive, NEW w \in Workers, OnFinished(w)
    PROVE  /\ w \in Holders /\ Holders' = Holders \ {w}
           /\ task[w].owner \in Owners /\ task[w].sock \in DOMAIN socks[task[w].owner]
           /\ \A v \in Workers : task'[v].owner = task[v].owner /\ task'[v].sock = task[v].sock
           /\ \A o \in Owners : DOMAIN socks'[o] = DOMAIN socks[o]
           /\ \A o \in Owners : \A i \in DOMAIN socks[o] :
                 /\ socks'[o][i].health = socks[o][i].health
                 /\ <<o, i>> # SockOf(w) => socks'[o][i].st = socks[o][i].st
           /\ sock' = sock /\ peer' = peer /\ SockPc'
<1>1. w \in Holders /\ Holders' = Holders \ {w}
  BY DEF OnFinished, Holders, TypeOK, DataTypeOK
<1>2. task[w].owner \in Owners /\ task[w].sock \in DOMAIN socks[task[w].owner]
  BY <1>1 DEF SockExclusive
<1>3. \A v \in Workers : task'[v].owner = task[v].owner /\ task'[v].sock = task[v].sock
  <2>1. task \in [Workers -> Task] /\ \A t \in Task : DOMAIN t = DOMAIN NoTask
    BY DEF TypeOK, DataTypeOK, Task, NoTask
  <2>2. QED
    BY <2>1 DEF OnFinished, NoTask
<1>4. sock' = sock /\ peer' = peer /\ SockPc'
  BY DEF OnFinished, SockPc
<1> DEFINE o == task[w].owner  i == task[w].sock
<1>5. socks \in [Owners -> Seq(Sock)] /\ socks[o][i] \in Sock
  BY <1>2 DEF TypeOK, DataTypeOK
<1>6. /\ socks'[o] = [socks[o] EXCEPT ![i].st = "IDLE"]
      /\ \A p \in Owners \ {o} : socks'[p] = socks[p]
  BY <1>2, <1>5 DEF OnFinished, SetStatus
<1>7. /\ DOMAIN socks'[o] = DOMAIN socks[o]
      /\ \A j \in DOMAIN socks[o] : j # i => socks'[o][j] = socks[o][j]
      /\ socks'[o][i].health = socks[o][i].health
  BY <1>2, <1>5, <1>6 DEF Sock
<1>8. QED
  BY <1>1, <1>2, <1>3, <1>4, <1>6, <1>7 DEF SockOf

LEMMA ExclusiveFinish ==
    ASSUME TypeOK, TypeOK', SockPc, SockExclusive, NEW w \in Workers, OnFinished(w)
    PROVE  SockExclusive'
<1>1. \A v \in Holders' : v \in Holders /\ SockOf(v)' = SockOf(v) /\ SockOf(v) # SockOf(w)
  BY FinishFacts DEF SockExclusive, SockOf, Holders
<1>2. JobSock' = JobSock /\ SockOf(w) \notin JobSock
  BY FinishFacts DEF SockExclusive, JobSock
<1>3. sock # 0 => <<peer, sock>> # SockOf(w)
  BY <1>2 DEF JobSock
<1>4. QED
  BY <1>1, <1>2, <1>3, FinishFacts DEF SockExclusive, SockOf, Holders

SockInv == IInv /\ SockPc /\ SockExclusive

LEMMA SockInvStep == SockInv /\ [Next]_vars => SockInv'
<1> SUFFICES ASSUME SockInv, [Next]_vars PROVE SockInv'
  OBVIOUS
<1>1. IInv' /\ TypeOK /\ TypeOK' /\ HeldInv
  BY IInvStep DEF SockInv, IInv
<1>2. CASE JobStep /\ ~GetSock /\ ~Launch
  BY <1>1, <1>2, WalkKeeps, ExclusiveKept DEF SockInv
<1>3. CASE GetSock
  BY <1>1, <1>3, GetSockKeeps, ExclusiveTaken DEF SockInv
<1>4. CASE Launch
  BY <1>1, <1>4, LaunchKeeps, ExclusiveLaunch DEF SockInv
<1>5. ASSUME NEW w \in Workers, TaskStep(w) PROVE SockInv'
  <2>1. CASE OnFinished(w)
    BY <1>1, <2>1, FinishFacts, ExclusiveFinish DEF SockInv
  <2>2. CASE ~OnFinished(w)
    BY <1>1, <1>5, <2>2, TaskKeeps, ExclusiveKept DEF SockInv
  <2>3. QED
    BY <2>1, <2>2
<1>6. CASE UserStep \/ CollectorTick \/ PeerCloses \/ UNCHANGED vars
  BY <1>1, <1>6, UserKeeps, ExclusiveKept DEF SockInv
<1>7. QED
  BY <1>2, <1>3, <1>4, <1>5, <1>6 DEF Next

\* No socket serves two chunks at a time, whatever fails and whatever the user does:
\* what one task leaves of its chunk in a socket, another cannot take for its own
\* (get_idle_client_sock and return_sock).
THEOREM SockExclusiveAlways == Spec => []SockExclusive
<1>1. Init => SockInv
  BY IInvInit, ExclusiveInit DEF SockInv
<1>2. SockInv => SockExclusive
  BY DEF SockInv
<1>3. QED
  BY <1>1, <1>2, SockInvStep, PTL DEF Spec
-----------------------------------------------------------------------------
(* The entries of the queue: their owners are connected, and a chunk that  *)
(* had no owner comes last.                                                *)

\* An entry is not changed: it was there, or it is built now.
LEMMA EntrySource ==
    ASSUME IInv, [Next]_vars, NEW e \in queue' \cup held'
    PROVE  \/ e \in queue \cup held
           \/ \E c \in Chunks, st \in ChunkStatus : e = NewEntry(c, st) /\ ownerInfo' = ownerInfo
<1>1. CASE UNCHANGED <<queue, held>>
  BY <1>1
<1>2. CASE FindOwners \/ ConnectClient \/ ShakeHand \/ RefreshDone
  <2>1. queue' = queue /\ held' \subseteq held
    BY <1>2 DEF FindOwners, RequestClients, NewOwners, KeepOwners, Goto, Die, ConnectClient,
                ShakeHand, ShakeOk, ShakeFails, Greeted, RefreshDone
  <2>2. QED
    BY <2>1
<1>3. CASE \/ Begin \/ CheckFlags \/ EnterWait \/ PauseTimeout \/ ChooseOwner
           \/ GetSock \/ AwaitThread \/ Join \/ CopySameFiles \/ Launch
  <2>1. queue' = queue /\ held' \subseteq held
    BY <1>3 DEF Begin, CheckFlags, EnterWait, PauseTimeout, ChooseOwner, GetSock, GotSock,
                AwaitThread, Join, CopySameFiles, Launch, Goto, Die
  <2>2. QED
    BY <2>1
<1>4. CASE InitQueue
  <2>1. ownerInfo' = ownerInfo /\ held' = held
    BY <1>4 DEF InitQueue, ownVars, jobVars, Goto
  <2>2. queue' = queue \/ queue' = {NewEntry(c, "FREE") : c \in Wanted}
    BY <1>4 DEF InitQueue
  <2>3. QED
    BY <2>1, <2>2 DEF Wanted, ChunkStatus
<1>5. CASE TakeChunk
  BY <1>5 DEF TakeChunk, Top, Goto
<1>6. CASE ReportNoOwner
  <2>1. /\ ownerInfo' = ownerInfo /\ held' \subseteq held
        /\ \/ queue' = queue
           \/ \E x \in held : queue' = queue \cup {NewEntry(x.chunk, "NOOWNER")}
    BY <1>6 DEF ReportNoOwner, Push, ownVars, jobVars
  <2>2. \A x \in held : x.chunk \in Chunks
    BY DEF IInv, TypeOK, ThreadTypeOK, Entry
  <2>3. QED
    BY <2>1, <2>2 DEF ChunkStatus
<1>7. ASSUME NEW w \in Workers, TaskStep(w)
      PROVE  \/ UNCHANGED <<queue, held>>
             \/ /\ ownerInfo' = ownerInfo /\ held' = held /\ task[w].chunk \in Chunks
                /\ queue' = queue \cup {NewEntry(task[w].chunk, "FAILED")}
  <2>1. CASE OnFailed(w)
    BY <2>1 DEF OnFailed, Push, ownVars, jobVars, IInv, TaskInv
  <2>2. CASE ~OnFailed(w)
    BY <1>7, <2>2, ProgressMoves DEF TaskStep, OnFinished, ThreadIdle, jobVars
  <2>3. QED
    BY <2>1, <2>2
<1>8. CASE UserStep \/ CollectorTick \/ PeerCloses
  BY <1>8, <1>1, OutsideMoves
<1>9. CASE UNCHANGED vars
  BY <1>1, <1>9 DEF vars, jobVars
<1>10. QED
  BY <1>2, <1>3, <1>4, <1>5, <1>6, <1>7, <1>8, <1>9 DEF Next, JobStep, ChunkStatus

\* A connection stays in the list.
LEMMA ConnectionStays ==
    ASSUME SockInv, [Next]_vars, NEW o \in Owners, IsConnected(socks[o])
    PROVE  IsConnected(socks'[o])
<1>1. TypeOK /\ TypeOK' /\ HeldInv
  BY IInvStep DEF SockInv, IInv
<1>2. socks[o] \in Seq(Sock) /\ socks'[o] \in Seq(Sock)
  BY <1>1 DEF TypeOK, DataTypeOK
<1>3. CASE KeepsAll
  BY <1>2, <1>3 DEF KeepsAll, Keeps, IsConnected
<1>4. CASE \E p, i, st : socks' = [socks EXCEPT ![p] = SetStatus(@, i, st)]
  <2>1. DOMAIN socks'[o] = DOMAIN socks[o]
    BY <1>1, <1>4 DEF SetStatus, TypeOK, DataTypeOK
  <2>2. QED
    BY <1>2, <2>1 DEF IsConnected
<1>5. CASE JobStep
  BY <1>1, <1>3, <1>4, <1>5, WalkKeeps, GetSockKeeps, LaunchKeeps DEF SockInv
<1>6. ASSUME NEW w \in Workers, TaskStep(w) PROVE IsConnected(socks'[o])
  <2>1. CASE OnFinished(w)
    BY <1>4, <2>1 DEF OnFinished
  <2>2. QED
    BY <1>1, <1>3, <1>6, <2>1, TaskKeeps DEF SockInv
<1>7. CASE UserStep \/ CollectorTick \/ PeerCloses \/ UNCHANGED vars
  BY <1>1, <1>3, <1>7, UserKeeps DEF SockInv
<1>8. QED
  BY <1>5, <1>6, <1>7 DEF Next

\* Only a peer that was shaken hands with has bits, over its first connection.
BitsConnected == \A f \in Files : \A o \in Owners :
    ownerInfo[f][o].bits # {} => IsConnected(socks[o])

LEMMA BitsStep ==
    ASSUME SockInv, [Next]_vars, BitsConnected
    PROVE  BitsConnected'
<1>1. TypeOK /\ TypeOK' /\ HeldInv
  BY IInvStep DEF SockInv, IInv
<1>2. CASE ownerInfo' = ownerInfo
  BY <1>2, ConnectionStays DEF BitsConnected
<1>3. ASSUME NEW f \in Files, NEW new, NEW again, NewOwners(f, new, again) PROVE BitsConnected'
  <2>1. \A g \in Files \ {f} : ownerInfo'[g] = ownerInfo[g]
    BY <1>1, <1>3 DEF NewOwners, TypeOK, DataTypeOK
  <2>2. \A o \in Owners : ownerInfo'[f][o].bits = {}
    BY <1>1, <1>3 DEF NewOwners, TypeOK, DataTypeOK, Listed, Unlisted
  <2>3. QED
    BY <2>1, <2>2, ConnectionStays DEF BitsConnected
<1>4. ASSUME NEW list, ShakeOk(list), ShakeHand, list # << >> PROVE BitsConnected'
  <2>1. peer \in Owners /\ rfile \in Files
    BY <1>1, <1>4 DEF ShakeHand, TypeOK, ThreadTypeOK, WithPeer
  <2>2. IsConnected(socks'[peer])
    BY <1>1, <1>4, <2>1 DEF ShakeOk, IsConnected, TypeOK, DataTypeOK
  <2>3. \A f \in Files : \A o \in Owners :
           <<f, o>> # <<rfile, peer>> => ownerInfo'[f][o] = ownerInfo[f][o]
    BY <1>1, <1>4, <2>1 DEF ShakeOk, TypeOK, DataTypeOK
  <2>4. QED
    BY <2>1, <2>2, <2>3, ConnectionStays DEF BitsConnected
<1>5. CASE FindOwners
  <2>1. \A e \in held : FileOf[e.chunk] \in Files
    BY <1>1, SetsAssumption DEF TypeOK, ThreadTypeOK, Entry
  <2>2. PICK f \in Files : RequestClients(f)
    BY <1>5, <2>1 DEF FindOwners
  <2>3. QED
    BY <1>2, <1>3, <2>2 DEF RequestClients, KeepOwners
<1>6. CASE ShakeHand
  <2>1. socks[peer] \in Seq(Sock)
    BY <1>1, <1>6 DEF ShakeHand, TypeOK, ThreadTypeOK, WithPeer, DataTypeOK
  <2>2. Connect(socks[peer]) # << >>
    BY <2>1 DEF Connect
  <2>3. \A i \in DOMAIN socks[peer] : socks[peer] # << >>
    BY <2>1
  <2>4. QED
    BY <1>2, <1>4, <1>6, <2>2, <2>3 DEF ShakeHand, ShakeFails
<1>7. CASE JobStep /\ ~FindOwners /\ ~ShakeHand
  BY <1>2, <1>7 DEF JobStep, Begin, ConnectClient, RefreshDone, InitQueue, CheckFlags, EnterWait,
     PauseTimeout, TakeChunk, ReportNoOwner, ChooseOwner, GetSock, AwaitThread, Launch, Join,
     CopySameFiles, ownVars
<1>8. CASE \E w \in Workers : TaskStep(w)
  BY <1>2, <1>8 DEF TaskStep, SendRequest, Interrupted, HoldBack, Receive, Verify, OnFailed,
     OnFinished, ThreadIdle, ownVars
<1>9. CASE UserStep \/ CollectorTick \/ PeerCloses \/ UNCHANGED vars
  BY <1>2, <1>9 DEF UserStep, ResumeJob, StartJob, StopJob, PauseJob, RemoveJob, CollectorTick,
     PeerCloses, vars, ownVars
<1>10. QED
  BY <1>5, <1>6, <1>7, <1>8, <1>9 DEF Next

\* The peer is chosen among the owners of the entry.
LEMMA ClientsStep ==
    ASSUME SockInv, [Next]_vars, BitsConnected, ClientsConnected
    PROVE  ClientsConnected'
<1>1. TypeOK /\ TypeOK' /\ HeldInv
  BY IInvStep DEF SockInv, IInv
<1>2. ASSUME NEW e \in queue' \cup held', NEW o \in e.clients PROVE IsConnected(socks'[o])
  <2>1. o \in Owners
    BY <1>1, <1>2 DEF TypeOK, DataTypeOK, ThreadTypeOK, Entry
  <2>2. CASE e \in queue \cup held
    BY <2>1, <2>2, ConnectionStays DEF ClientsConnected
  <2>3. ASSUME NEW c \in Chunks, NEW st \in ChunkStatus, e = NewEntry(c, st)
        PROVE  IsConnected(socks[o])
    <3>1. e.clients = ClientsOf(c)
      BY <2>3 DEF NewEntry, ChunkInfo
    <3>2. ownerInfo[FileOf[c]][o].bits # {} /\ FileOf[c] \in Files
      BY <1>2, <2>1, <3>1, SetsAssumption DEF ClientsOf
    <3>3. QED
      BY <2>1, <3>2 DEF BitsConnected
  <2>4. QED
    BY <2>1, <2>2, <2>3, EntrySource, ConnectionStays DEF SockInv
<1>3. ASSUME jpc' \in {"getSock", "goSock", "sockWait"} PROVE IsConnected(socks'[peer'])
  <2>1. CASE ChooseOwner
    BY <1>1, <2>1 DEF ChooseOwner, ClientsConnected
  <2>2. CASE ~ChooseOwner
    <3>1. jpc \in {"getSock", "goSock", "sockWait"} /\ peer' = peer
      <4>1. CASE JobStep
        BY <1>3, <2>2, <4>1
        DEF JobStep, Begin, FindOwners, RequestClients, NewOwners, KeepOwners, AfterRefresh, Die,
            Goto, ConnectClient, ShakeHand, ShakeOk, ShakeFails, Greeted, RefreshDone, InitQueue,
            CheckFlags, EnterWait, PauseTimeout, TakeChunk, ReportNoOwner, GetSock, GotSock,
            AwaitThread, Launch, Join, CopySameFiles, jobVars
      <4>2. CASE \E w \in Workers : TaskStep(w)
        BY <1>3, <4>2 DEF TaskStep, SendRequest, Interrupted, HoldBack, Receive, Verify, OnFailed,
           OnFinished, ThreadIdle, jobVars
      <4>3. CASE UserStep \/ CollectorTick \/ PeerCloses \/ UNCHANGED vars
        BY <1>3, <4>3 DEF UserStep, ResumeJob, StartJob, StopJob, PauseJob, RemoveJob,
           CollectorTick, PeerCloses, vars, jobVars, Goto
      <4>4. QED
        BY <4>1, <4>2, <4>3 DEF Next
    <3>2. peer \in Owners /\ IsConnected(socks[peer])
      BY <1>1, <3>1 DEF TypeOK, ThreadTypeOK, WithPeer, ClientsConnected
    <3>3. QED
      BY <3>1, <3>2, ConnectionStays
  <2>3. QED
    BY <2>1, <2>2
<1>4. QED
  BY <1>2, <1>3 DEF ClientsConnected

LinkedInv == SockInv /\ BitsConnected /\ ClientsConnected

LEMMA LinkedInit == Init => LinkedInv
<1> SUFFICES ASSUME Init PROVE LinkedInv
  OBVIOUS
<1>1. BitsConnected
  BY DEF Init, BitsConnected, Unlisted
<1>2. ClientsConnected
  BY DEF Init, ClientsConnected
<1>3. QED
  BY <1>1, <1>2, IInvInit, ExclusiveInit DEF LinkedInv, SockInv

LEMMA LinkedStep == LinkedInv /\ [Next]_vars => LinkedInv'
  BY SockInvStep, BitsStep, ClientsStep DEF LinkedInv

\* The owners an entry names, however old the entry is, have a connection, so that
\* get_idle_client_sock and return_sock find the peer's condition they assert.
THEOREM ClientsConnectedAlways == Spec => []ClientsConnected
<1>1. LinkedInv => ClientsConnected
  BY DEF LinkedInv
<1>2. QED
  BY <1>1, LinkedInit, LinkedStep, PTL DEF Spec

\* The priority of an entry is computed once, and goes with its status.
EntryInv == \A e \in queue \cup held : e.priority = Priority(Cardinality(e.clients), e.status)

LEMMA EntryInvStep == IInv /\ EntryInv /\ [Next]_vars => EntryInv'
<1>1. \A c, st : NewEntry(c, st).priority
                    = Priority(Cardinality(NewEntry(c, st).clients), NewEntry(c, st).status)
  BY DEF NewEntry, ChunkInfo
<1>2. QED
  BY <1>1, EntrySource DEF EntryInv

\* Whatever the number of its owners, the priority of a chunk that was put back
\* without one is below that of a fresh one, and of a failed one that has an owner.
LEMMA PriorityOrder ==
    ASSUME NEW m \in Nat, NEW n \in Nat
    PROVE  /\ Priority(m, "NOOWNER") < Priority(n, "FREE")
           /\ n # 0 => Priority(m, "NOOWNER") < Priority(n, "FAILED")
<1>1. RareCount \in 1..10
  BY RareCountAssumption
<1>2. \A k \in Nat : Rarity(k) \in 0..19 /\ (k # 0 => Rarity(k) \in 10..19)
  BY <1>1 DEF Rarity, HIGHEST, NORMAL, UNAVAILABLE
<1>3. Priority(m, "NOOWNER") = Rarity(m) - 20 /\ Priority(n, "FREE") = Rarity(n)
      /\ Priority(n, "FAILED") = Rarity(n) - 10
  BY <1>2 DEF Priority, Baseline, HIGHEST, NORMAL
<1>4. QED
  BY <1>2, <1>3

LEMMA TakenLast ==
    ASSUME IInv, EntryInv, [Next]_vars, jpc = "take",
           NEW e \in queue \ queue', e.status = "NOOWNER", NEW x \in queue'
    PROVE  x.status # "FREE" /\ (x.status = "FAILED" => x.clients = {})
<1>1. TakeChunk
  BY DEF Next, JobStep, Begin, FindOwners, RequestClients, ConnectClient, ShakeHand, RefreshDone,
         InitQueue, CheckFlags, EnterWait, PauseTimeout, ReportNoOwner, ChooseOwner, GetSock,
         AwaitThread, Launch, Join, CopySameFiles, TaskStep, SendRequest, Interrupted, HoldBack,
         Receive, Verify, OnFailed, Push, OnFinished, ThreadIdle, UserStep, ResumeJob, StartJob,
         StopJob, PauseJob, RemoveJob, CollectorTick, PeerCloses, vars
<1>2. x \in queue /\ x.priority <= e.priority
  BY <1>1 DEF TakeChunk, Top
<1>3. \A y \in queue : Cardinality(y.clients) \in Nat /\ IsFiniteSet(y.clients)
  <2>1. \A y \in queue : y.clients \in SUBSET Owners
    BY DEF IInv, TypeOK, DataTypeOK, Entry
  <2>2. QED
    BY <2>1, SetsAssumption, FS_Subset, FS_CardinalityType
<1>4. /\ e.priority = Priority(Cardinality(e.clients), "NOOWNER")
      /\ x.priority = Priority(Cardinality(x.clients), x.status)
  BY <1>2 DEF EntryInv
<1>5. e.priority \in Int /\ x.priority \in Int
  BY <1>2 DEF IInv, TypeOK, DataTypeOK, Entry
<1>6. x.status # "FREE"
  BY <1>2, <1>3, <1>4, <1>5, PriorityOrder
<1>7. x.status = "FAILED" => Cardinality(x.clients) = 0
  BY <1>2, <1>3, <1>4, <1>5, PriorityOrder
<1>8. QED
  BY <1>2, <1>3, <1>6, <1>7, FS_EmptySet

\* When a chunk that was put back without owners is taken, no chunk with an owner is
\* passed over, but those that were themselves put back so (get_priority and the
\* log line of report_no_owner_chunk).
THEOREM NoOwnerLastAlways == Spec => NoOwnerLast
<1>1. Init => EntryInv
  BY DEF Init, EntryInv
<1>2. IInv /\ EntryInv /\ [Next]_vars =>
        [jpc = "take" =>
           \A e \in queue \ queue' : e.status = "NOOWNER" =>
              \A x \in queue' : x.status # "FREE" /\ (x.status = "FAILED" => x.clients = {})]_vars
  BY TakenLast
<1>3. QED
  BY <1>1, <1>2, IInvInit, IInvStep, EntryInvStep, PTL DEF Spec, NoOwnerLast
-----------------------------------------------------------------------------
(* The wait for a socket.                                                  *)

\* More sockets in use than there are tasks: one of them is in use for ever.
LEMMA MoreThanTasks ==
    ASSUME TypeOK, NEW o \in Owners, NoneIdle(socks[o]), Len(socks[o]) > Cardinality(Workers)
    PROVE  DeadSock(o)
<1> DEFINE n == Len(socks[o])
           H == {w \in Holders : task[w].owner = o /\ task[w].sock \in 1..n}
           g == [w \in H |-> task[w].sock]
<1>1. socks[o] \in Seq(Sock) /\ n \in Nat /\ DOMAIN socks[o] = 1..n
  BY DEF TypeOK, DataTypeOK
<1>2. \A i \in 1..n : socks[o][i].st = "USED"
  <2>1. \A i \in 1..n : socks[o][i] \in Sock
    BY <1>1
  <2>2. \A i \in 1..n : socks[o][i].st # "IDLE"
    BY <1>1 DEF NoneIdle, IsIdle
  <2>3. QED
    BY <2>1, <2>2 DEF Sock
<1>3. H \in SUBSET Workers /\ IsFiniteSet(H) /\ Cardinality(H) <= Cardinality(Workers)
  <2>1. H \in SUBSET Workers
    BY DEF Holders
  <2>2. QED
    BY <2>1, SetsAssumption, FS_Subset
<1>4. SUFFICES ASSUME ~DeadSock(o) PROVE FALSE
  OBVIOUS
<1>5. \A i \in 1..n : \E w \in H : task[w].sock = i
  BY <1>1, <1>2, <1>4 DEF DeadSock, SockOf
<1>6. g \in Surjection(H, 1..n)
  BY <1>5 DEF Surjection
<1>7. Cardinality(1..n) = n
  <2>1. n \in Int /\ 1 \in Int
    BY <1>1
  <2>2. Cardinality(1..n) = IF 1 > n THEN 0 ELSE n - 1 + 1
    BY <2>1, FS_Interval
  <2>3. QED
    BY <1>1, <2>2
<1> HIDE DEF g, H, n
<1>8. Cardinality(1..n) <= Cardinality(H)
  BY <1>3, <1>6, FS_Surjection
<1>9. Cardinality(H) \in Nat /\ Cardinality(Workers) \in Nat
  BY <1>3, SetsAssumption, FS_CardinalityType
<1>10. QED
  BY <1>1, <1>3, <1>7, <1>8, <1>9 DEF n

\* What is in use for ever stays so: no task takes it, and only a task gives back.
LEMMA DeadStays ==
    ASSUME TypeOK, TypeOK', KeepsAll, TasksKeep, NEW o \in Owners, DeadSock(o)
    PROVE  DeadSock(o)'
<1>1. PICK i \in DOMAIN socks[o] : /\ socks[o][i].st = "USED"
                                   /\ \A w \in Holders : SockOf(w) # <<o, i>>
  BY DEF DeadSock
<1>2. i \in DOMAIN socks'[o] /\ socks'[o][i].st = "USED"
  BY <1>1, SocksStay
<1>3. \A w \in Holders' : w \in Holders /\ SockOf(w)' = SockOf(w)
  BY DEF TasksKeep, Holders, SockOf
<1>4. QED
  BY <1>1, <1>2, <1>3 DEF DeadSock

\* The job thread turns to the wait with no socket of the peer left to come back,
\* when a peer may have more connections than there are pool threads.
DeadInv == /\ jpc \in {"goSock", "sockWait"}
           /\ MaxConn >= Cardinality(Workers)
           => DeadSock(peer)

LEMMA DeadGetSock ==
    ASSUME TypeOK, TypeOK', SockPc, ClientsConnected, SockExclusive, GetSock, jpc' = "goSock",
           MaxConn >= Cardinality(Workers)
    PROVE  DeadSock(peer)'
<1> DEFINE list == socks[peer]
<1>1. jpc = "getSock" /\ peer \in Owners /\ list \in Seq(Sock) /\ list # << >>
  BY DEF GetSock, TypeOK, ThreadTypeOK, DataTypeOK, WithPeer, ClientsConnected, IsConnected
<1>2. task' = task /\ peer' = peer
  BY DEF GetSock, GotSock, Goto, Die
<1>3. CASE Exhausted(list) /\ UNCHANGED socks
  <2>1. Len(list) > MaxConn /\ NoneIdle(list)
    BY <1>1, <1>3, MaxConnAssumption DEF Exhausted, MayGrow
  <2>2. Len(list) > Cardinality(Workers)
    <3>1. Cardinality(Workers) \in Nat /\ Len(list) \in Nat /\ MaxConn \in Nat
      BY <1>1, SetsAssumption, FS_CardinalityType, MaxConnAssumption
    <3>2. QED
      BY <2>1, <3>1
  <2>3. DeadSock(peer)
    BY <1>1, <2>1, <2>2, MoreThanTasks
  <2>4. QED
    BY <1>2, <1>3, <2>3 DEF DeadSock, Holders, SockOf
<1>4. CASE socks' = [socks EXCEPT ![peer] = Grow(list, "null")]
  <2> DEFINE i == Len(list) + 1
  <2>1. i \in DOMAIN socks'[peer] /\ socks'[peer][i].st = "USED" /\ i \notin DOMAIN list
    BY <1>1, <1>4 DEF Grow, TypeOK, DataTypeOK
  <2>2. \A w \in Holders : SockOf(w) # <<peer, i>>
    BY <2>1 DEF SockExclusive, SockOf
  <2>3. QED
    BY <1>2, <2>1, <2>2 DEF DeadSock, Holders, SockOf
<1>5. QED
  BY <1>3, <1>4 DEF GetSock, GotSock, Goto, Die

LEMMA DeadStep == LinkedInv /\ DeadInv /\ [Next]_vars => DeadInv'
<1> SUFFICES ASSUME LinkedInv, DeadInv, [Next]_vars,
                    jpc' \in {"goSock", "sockWait"}, MaxConn >= Cardinality(Workers)
             PROVE  DeadSock(peer)'
  BY DEF DeadInv
<1>1. TypeOK /\ TypeOK' /\ HeldInv /\ SockPc /\ SockExclusive /\ ClientsConnected
  BY IInvStep DEF LinkedInv, SockInv, IInv
<1>2. ASSUME jpc \in {"goSock", "sockWait"}, peer' = peer, KeepsAll, TasksKeep
      PROVE  DeadSock(peer)'
  <2>1. peer \in Owners /\ DeadSock(peer)
    BY <1>1, <1>2 DEF DeadInv, TypeOK, ThreadTypeOK, WithPeer
  <2>2. \A o \in Owners : o = peer => DeadSock(o)'
    BY <1>1, <1>2, <2>1, DeadStays
  <2>3. QED
    BY <1>2, <2>1, <2>2 DEF DeadSock
<1>3. CASE GetSock
  <2>1. jpc' = "goSock"
    BY <1>3 DEF GetSock, GotSock, Goto, Die
  <2>2. QED
    BY <1>1, <1>3, <2>1, DeadGetSock
<1>4. CASE JobStep /\ ~GetSock
  <2>1. jpc \in {"goSock", "sockWait"} /\ peer' = peer /\ ~Launch
    BY <1>4
    DEF JobStep, Begin, FindOwners, RequestClients, NewOwners, KeepOwners, AfterRefresh, Die,
        Goto, ConnectClient, ShakeHand, ShakeOk, ShakeFails, Greeted, RefreshDone, InitQueue,
        CheckFlags, EnterWait, PauseTimeout, TakeChunk, ReportNoOwner, ChooseOwner,
        AwaitThread, Launch, Join, CopySameFiles, jobVars
  <2>2. QED
    BY <1>1, <1>2, <1>4, <2>1, WalkKeeps
<1>5. ASSUME NEW w \in Workers, TaskStep(w) PROVE DeadSock(peer)'
  <2>1. CASE OnFinished(w)
    <3>1. jpc' = jpc /\ peer' = peer /\ jpc \in {"goSock", "sockWait"}
      BY <2>1 DEF OnFinished
    <3>2. PICK i \in DOMAIN socks[peer] : /\ socks[peer][i].st = "USED"
                                          /\ \A v \in Holders : SockOf(v) # <<peer, i>>
      BY <3>1 DEF DeadInv, DeadSock
    <3>3. peer \in Owners
      BY <1>1, <3>1 DEF TypeOK, ThreadTypeOK, WithPeer
    <3>4. /\ w \in Holders /\ Holders' = Holders \ {w}
          /\ \A v \in Workers : SockOf(v)' = SockOf(v)
          /\ DOMAIN socks'[peer] = DOMAIN socks[peer]
          /\ <<peer, i>> # SockOf(w) => socks'[peer][i].st = socks[peer][i].st
      BY <1>1, <2>1, <3>2, <3>3, FinishFacts DEF SockOf
    <3>5. QED
      BY <3>1, <3>2, <3>4 DEF DeadSock, Holders
  <2>2. CASE ~OnFinished(w)
    <3>1. jpc' = jpc /\ peer' = peer
      BY <1>5, <2>2 DEF TaskStep, SendRequest, Interrupted, HoldBack, Receive, Verify, OnFailed,
         ThreadIdle, jobVars
    <3>2. QED
      BY <1>1, <1>2, <1>5, <2>2, <3>1, TaskKeeps
  <2>3. QED
    BY <2>1, <2>2
<1>6. CASE UserStep \/ CollectorTick \/ PeerCloses \/ UNCHANGED vars
  <2>1. jpc' = jpc /\ peer' = peer
    BY <1>6 DEF UserStep, ResumeJob, StartJob, StopJob, PauseJob, RemoveJob,
       CollectorTick, PeerCloses, vars, jobVars, Goto
  <2>2. QED
    BY <1>1, <1>2, <1>6, <2>1, UserKeeps
<1>7. QED
  BY <1>3, <1>4, <1>5, <1>6 DEF Next

\* However the signal of return_sock and the wait of the job thread interleave, it is
\* left waiting on a peer that no task uses only when a socket of that peer is dead:
\* with MAX_CONNECTION_PER_CLIENT at least the size of the pool, a missed signal
\* alone never stops a job.
THEOREM MissedNeedsDeadAlways == Spec => []MissedNeedsDead
<1>1. Init => DeadInv
  BY DEF Init, DeadInv
<1>2. DeadInv => MissedNeedsDead
  BY DEF DeadInv, MissedNeedsDead
<1>3. QED
  BY <1>1, <1>2, LinkedInit, LinkedStep, DeadStep, PTL DEF Spec
-----------------------------------------------------------------------------
(* A chunk is lost only together with a socket.                            *)

LEMMA IndicesFinite ==
    ASSUME NEW lists \in [Owners -> Seq(Sock)],
           NEW S \in SUBSET UNION {{o} \X DOMAIN lists[o] : o \in Owners}
    PROVE  IsFiniteSet(S)
<1> DEFINE Of(o) == {o} \X DOMAIN lists[o]
           All   == {Of(o) : o \in Owners}
           g     == [o \in Owners |-> Of(o)]
<1>1. g \in Surjection(Owners, All)
  BY DEF Surjection
<1>2. IsFiniteSet(All)
  BY <1>1, SetsAssumption, FS_Surjection
<1>3. \A o \in Owners : IsFiniteSet(Of(o))
  <2>1. TAKE o \in Owners
  <2>2. Len(lists[o]) \in Int /\ DOMAIN lists[o] = 1..Len(lists[o]) /\ 1 \in Int
    OBVIOUS
  <2>3. IsFiniteSet(DOMAIN lists[o])
    BY <2>2, FS_Interval
  <2>4. QED
    BY <2>3, FS_Singleton, FS_Product
<1>4. IsFiniteSet(UNION All)
  BY <1>2, <1>3, FS_UNION
<1>5. QED
  BY <1>4, FS_Subset

\* A leaked socket is never given to anybody, and nobody gives it back.
LEMMA LeakedElement ==
    ASSUME NEW s \in Leaked
    PROVE  /\ s = <<s[1], s[2]>> /\ s[1] \in Owners /\ s[2] \in DOMAIN socks[s[1]]
           /\ socks[s[1]][s[2]].st = "USED" /\ socks[s[1]][s[2]].health # "null"
           /\ s \notin JobSock /\ \A w \in Holders : SockOf(w) # s
  BY DEF Leaked

LEMMA LeakedKept ==
    ASSUME TypeOK, TypeOK', NEW s \in Leaked,
           s[2] \in DOMAIN socks'[s[1]],
           socks'[s[1]][s[2]].st = "USED", socks'[s[1]][s[2]].health # "null",
           s \notin JobSock', \A w \in Holders' : SockOf(w)' # s
    PROVE  s \in Leaked'
<1>1. s = <<s[1], s[2]>> /\ s[1] \in Owners
  BY LeakedElement
<1>2. s \in UNION {{o} \X DOMAIN socks'[o] : o \in Owners}
  BY <1>1
<1>3. QED
  BY <1>2 DEF Leaked

LEMMA LeakedCalm ==
    ASSUME TypeOK, TypeOK', KeepsAll, TasksKeep, JobKeeps
    PROVE  Leaked \subseteq Leaked'
<1> SUFFICES ASSUME NEW s \in Leaked PROVE s \in Leaked'
  OBVIOUS
<1>1. /\ s[2] \in DOMAIN socks'[s[1]]
      /\ socks'[s[1]][s[2]].st = "USED" /\ socks'[s[1]][s[2]].health # "null"
  BY LeakedElement, SocksStay
<1>2. \A w \in Holders' : w \in Holders /\ SockOf(w)' = SockOf(w)
  BY DEF TasksKeep, Holders, SockOf
<1>3. s \notin JobSock'
  BY LeakedElement DEF JobKeeps, JobSock
<1>4. QED
  BY <1>1, <1>2, <1>3, LeakedElement, LeakedKept

LEMMA LeakedGetSock ==
    ASSUME TypeOK, TypeOK', SockPc, GetSock
    PROVE  Leaked \subseteq Leaked'
<1>1. TasksKeep /\ peer \in Owners
  BY GetSockKeeps
<1>2. CASE KeepsAll /\ JobKeeps
  BY <1>1, <1>2, LeakedCalm
<1>3. \A w \in Holders' : w \in Holders /\ SockOf(w)' = SockOf(w)
  BY <1>1 DEF TasksKeep, Holders, SockOf
<1>4. CASE KeepsAll /\ peer' = peer /\ sock' = Len(socks[peer]) + 1
  <2> SUFFICES ASSUME NEW s \in Leaked PROVE s \in Leaked'
    OBVIOUS
  <2>1. /\ s[2] \in DOMAIN socks'[s[1]]
        /\ socks'[s[1]][s[2]].st = "USED" /\ socks'[s[1]][s[2]].health # "null"
    BY <1>4, LeakedElement, SocksStay
  <2>2. sock' \notin DOMAIN socks[peer]
    BY <1>1, <1>4 DEF TypeOK, DataTypeOK
  <2>3. s \notin JobSock'
    BY <1>4, <2>2, LeakedElement DEF JobSock
  <2>4. QED
    BY <1>3, <2>1, <2>3, LeakedElement, LeakedKept
<1>5. CASE /\ peer' = peer /\ sock' \in DOMAIN socks[peer] /\ socks[peer][sock'].st = "IDLE"
           /\ socks' = [socks EXCEPT ![peer] = SetStatus(@, sock', "USED")]
  <2> SUFFICES ASSUME NEW s \in Leaked PROVE s \in Leaked'
    OBVIOUS
  <2>1. s # <<peer, sock'>>
    BY <1>5, LeakedElement
  <2>2. s[2] \in DOMAIN socks'[s[1]] /\ socks'[s[1]][s[2]] = socks[s[1]][s[2]]
    BY <1>5, <2>1, LeakedElement DEF SetStatus, TypeOK, DataTypeOK
  <2>3. s \notin JobSock'
    BY <1>5, <2>1 DEF JobSock
  <2>4. QED
    BY <1>3, <2>2, <2>3, LeakedElement, LeakedKept
<1>6. QED
  BY <1>2, <1>4, <1>5, GetSockKeeps

LEMMA LeakedLaunch ==
    ASSUME TypeOK, TypeOK', SockPc, SockExclusive, Launch
    PROVE  /\ Leaked \subseteq Leaked'
           /\ task' = task => <<peer, sock>> \in Leaked' \ Leaked
<1>1. /\ KeepsAll /\ sock' = 0 /\ sock # 0 /\ socks' = socks /\ JobSock' = {}
      /\ peer \in Owners /\ sock \in DOMAIN socks[peer] /\ socks[peer][sock].st = "USED"
  BY LaunchKeeps DEF Launch, SockExclusive, JobSock
<1>2. <<peer, sock>> \in JobSock
  BY <1>1 DEF JobSock
<1>3. CASE task' = task /\ socks[peer][sock].health = "reset"
  <2>1. Leaked \subseteq Leaked'
    BY <1>1, <1>3, LeakedCalm DEF TasksKeep, JobKeeps
  <2>2. \A w \in Holders' : SockOf(w)' # <<peer, sock>>
    BY <1>2, <1>3 DEF SockExclusive, Holders, SockOf
  <2>3. <<peer, sock>> \in UNION {{o} \X DOMAIN socks'[o] : o \in Owners}
    BY <1>1
  <2>4. QED
    BY <1>1, <1>2, <1>3, <2>1, <2>2, <2>3 DEF Leaked
<1>4. ASSUME NEW w \in Workers, NEW e \in held, task[w].stage = "idle",
             task' = [task EXCEPT ![w] = [stage |-> "request", chunk |-> e.chunk,
                        owner |-> peer, sock |-> sock, left |-> Pieces]]
      PROVE  Leaked \subseteq Leaked' /\ task' # task
  <2>1. task' # task
    BY <1>4 DEF TypeOK, DataTypeOK
  <2>2. \A v \in Holders' : SockOf(v)' = <<peer, sock>> \/ (v \in Holders /\ SockOf(v)' = SockOf(v))
    BY <1>4 DEF Holders, SockOf, TypeOK, DataTypeOK
  <2>3. ASSUME NEW s \in Leaked PROVE s \in Leaked'
    <3>1. s # <<peer, sock>> /\ \A v \in Holders' : SockOf(v)' # s
      BY <1>2, <2>2, LeakedElement
    <3>2. QED
      BY <1>1, <3>1, LeakedElement, LeakedKept
  <2>4. QED
    BY <2>1, <2>3
<1>5. QED
  BY <1>3, <1>4, LaunchKeeps

LEMMA LeakedFinish ==
    ASSUME TypeOK, TypeOK', SockPc, SockExclusive, NEW w \in Workers, OnFinished(w)
    PROVE  Leaked \subseteq Leaked'
<1> SUFFICES ASSUME NEW s \in Leaked PROVE s \in Leaked'
  OBVIOUS
<1>1. s # SockOf(w)
  BY FinishFacts, LeakedElement
<1>2. /\ s[2] \in DOMAIN socks'[s[1]]
      /\ socks'[s[1]][s[2]].st = "USED" /\ socks'[s[1]][s[2]].health # "null"
  BY <1>1, FinishFacts, LeakedElement
<1>3. \A v \in Holders' : v \in Holders /\ SockOf(v)' = SockOf(v)
  BY FinishFacts DEF SockOf, Holders
<1>4. JobSock' = JobSock
  BY FinishFacts DEF JobSock
<1>5. QED
  BY <1>2, <1>3, <1>4, LeakedElement, LeakedKept

LEMMA LeakedStays ==
    ASSUME SockInv, [Next]_vars
    PROVE  Leaked \subseteq Leaked'
<1>1. TypeOK /\ TypeOK' /\ HeldInv /\ SockPc /\ SockExclusive
  BY IInvStep DEF SockInv, IInv
<1>2. CASE JobStep /\ ~GetSock /\ ~Launch
  BY <1>1, <1>2, WalkKeeps, LeakedCalm
<1>3. CASE GetSock \/ Launch
  BY <1>1, <1>3, LeakedGetSock, LeakedLaunch
<1>4. ASSUME NEW w \in Workers, TaskStep(w) PROVE Leaked \subseteq Leaked'
  BY <1>1, <1>4, TaskKeeps, LeakedCalm, LeakedFinish
<1>5. CASE UserStep \/ CollectorTick \/ PeerCloses \/ UNCHANGED vars
  BY <1>1, <1>5, UserKeeps, LeakedCalm
<1>6. QED
  BY <1>2, <1>3, <1>4, <1>5 DEF Next

\* A step that leaves every entry, bit and fetcher in place loses nothing.
LEMMA LostCalm ==
    ASSUME bitmap \subseteq bitmap', \A e \in queue \cup held : \E x \in queue' \cup held' :
                                        x.chunk = e.chunk,
           \A c \in Chunks : Fetchers(c) # {} =>
               \/ Fetchers(c)' # {} \/ c \in bitmap'
               \/ \E x \in queue' \cup held' : x.chunk = c
    PROVE  Lost' \subseteq Lost
  BY DEF Lost

LEMMA LostTask ==
    ASSUME IInv, NEW w \in Workers, TaskStep(w)
    PROVE  Lost' \subseteq Lost
<1>1. CASE SendRequest(w) \/ Interrupted(w) \/ HoldBack(w) \/ Receive(w) \/ Verify(w)
  <2>1. UNCHANGED <<queue, held, bitmap>> /\ \A c : Fetchers(c)' = Fetchers(c)
    BY <1>1, ProgressMoves DEF jobVars
  <2>2. QED
    BY <2>1, LostCalm
<1>2. CASE OnFailed(w)
  <2>1. held' = held /\ bitmap' = bitmap /\ task[w].stage = "thrown"
    BY <1>2 DEF OnFailed, jobVars, datVars
  <2>2. CASE UNCHANGED <<queue, task>>
    BY <2>1, <2>2, LostCalm DEF Fetchers
  <2>3. CASE /\ queue' = queue \cup {NewEntry(task[w].chunk, "FAILED")}
             /\ task' = [task EXCEPT ![w].stage = "reported"]
    <3>1. task[w].chunk \in Chunks /\ NewEntry(task[w].chunk, "FAILED").chunk = task[w].chunk
      BY <2>1, NewEntryType DEF IInv, TaskInv, TypeOK, ChunkStatus
    <3>2. \A v \in Workers \ {w} : task'[v] = task[v]
      BY <2>3 DEF IInv, TypeOK, DataTypeOK
    <3>3. \A c : c # task[w].chunk => Fetchers(c) \subseteq Fetchers(c)'
      BY <3>2 DEF Fetchers
    <3>4. QED
      BY <2>1, <2>3, <3>1, <3>3, LostCalm
  <2>4. QED
    BY <1>2, <2>2, <2>3 DEF OnFailed, Push, Stage
<1>3. CASE OnFinished(w)
  <2>1. /\ held' = held /\ queue' = queue /\ bitmap \subseteq bitmap'
        /\ task[w].stage = "written" => task[w].chunk \in bitmap'
        /\ task[w].stage \in {"written", "reported"}
    BY <1>3 DEF OnFinished, NotReported
  <2>2. \A v \in Workers \ {w} : task'[v] = task[v]
    BY <1>3 DEF OnFinished, IInv, TypeOK, DataTypeOK
  <2>3. \A c : Fetchers(c) \subseteq Fetchers(c)' \cup {w}
    BY <2>2 DEF Fetchers
  <2>4. \A c : w \in Fetchers(c) => c \in bitmap'
    BY <2>1 DEF Fetchers, Unreported
  <2>5. QED
    BY <2>1, <2>3, <2>4, LostCalm
<1>4. CASE ThreadIdle(w)
  <2>1. /\ held' = held /\ queue' = queue /\ bitmap' = bitmap /\ task[w].stage = "finished"
        /\ \A v \in Workers \ {w} : task'[v] = task[v]
    BY <1>4 DEF ThreadIdle, jobVars, datVars, IInv, TypeOK, DataTypeOK
  <2>2. \A c : Fetchers(c) \subseteq Fetchers(c)'
    BY <2>1 DEF Fetchers, Unreported
  <2>3. QED
    BY <2>1, <2>2, LostCalm
<1>5. QED
  BY <1>1, <1>2, <1>3, <1>4 DEF TaskStep

LEMMA LostOutside ==
    ASSUME IInv, UserStep \/ CollectorTick \/ PeerCloses
    PROVE  Lost' \subseteq Lost
<1>1. UNCHANGED <<held, queue, bitmap>>
  BY OutsideMoves
<1>2. \A v \in Workers :
         \/ task'[v] = task[v]
         \/ /\ task[v].stage \in {"pauseWait", "limitWait"}
            /\ task'[v].stage = "recv" /\ task'[v].chunk = task[v].chunk
  BY OutsideMoves
<1>3. \A c : Fetchers(c) \subseteq Fetchers(c)'
  BY <1>2 DEF Fetchers, Unreported, Stages
<1>4. QED
  BY <1>1, <1>3, LostCalm

\* The job thread holds one entry at most.
HeldOne == \A x, y \in held : x = y

LEMMA HeldOneStep == ASSUME IInv, [Next]_vars, HeldOne PROVE HeldOne'
<1>1. CASE held' \subseteq held
  BY <1>1 DEF HeldOne
<1>2. CASE TakeChunk
  BY <1>1, <1>2 DEF TakeChunk, Goto, HeldOne
<1>3. CASE JobStep /\ ~TakeChunk
  BY <1>1, <1>3
  DEF JobStep, Begin, FindOwners, RequestClients, NewOwners, KeepOwners, Die, Goto,
      ConnectClient, ShakeHand, ShakeOk, ShakeFails, Greeted, RefreshDone, InitQueue,
      CheckFlags, EnterWait, PauseTimeout, ReportNoOwner, ChooseOwner, GetSock, GotSock,
      AwaitThread, Launch, Join, CopySameFiles, jobVars
<1>4. CASE \E w \in Workers : TaskStep(w)
  BY <1>1, <1>4 DEF TaskStep, SendRequest, Interrupted, HoldBack, Receive, Verify, OnFailed,
     OnFinished, ThreadIdle, jobVars
<1>5. CASE UserStep \/ CollectorTick \/ PeerCloses
  BY <1>1, <1>5, OutsideMoves
<1>6. CASE UNCHANGED vars
  BY <1>1, <1>6 DEF vars, jobVars
<1>7. QED
  BY <1>2, <1>3, <1>4, <1>5, <1>6 DEF Next

\* The steps of the job thread; only one of them drops a chunk and goes on.
LEMMA LostJob ==
    ASSUME IInv, HeldOne, JobStep, InLoop'
    PROVE  \/ Lost' = {}
           \/ InLoop /\ Lost' \subseteq Lost
           \/ /\ InLoop /\ Launch /\ task' = task
              /\ \E c \in Chunks : Lost' \subseteq Lost \cup {c}
<1> USE DEF InLoop, Running, Holding, MayHold, HeldInv, IInv
<1>1. CASE InitQueue
  <2>1. up' = up
    BY <1>1 DEF InitQueue, jobVars
  <2>2. queue' = {NewEntry(c, "FREE") : c \in Wanted} /\ bitmap' = bitmap
    BY <1>1, <2>1 DEF InitQueue, Goto, datVars, jobVars
  <2>3. \A c \in Chunks : NewEntry(c, "FREE").chunk = c
    BY NewEntryType DEF TypeOK, ChunkStatus
  <2>4. \A c \in Chunks \ bitmap : \E e \in queue' : e.chunk = c
    BY <2>2, <2>3 DEF Wanted
  <2>5. Lost' = {}
    BY <2>2, <2>4 DEF Lost
  <2>6. QED
    BY <2>5
<1>2. CASE Launch
  <2>1. /\ UNCHANGED <<queue, bitmap>> /\ held' = {} /\ InLoop
    BY <1>2 DEF Launch, datVars
  <2>2. PICK e \in held : held = {e} /\ e.chunk \in Chunks
    BY <1>2 DEF Launch, HeldOne, TypeOK, ThreadTypeOK, Entry
  <2>3. CASE task' = task
    <3>1. Lost' \subseteq Lost \cup {e.chunk}
      BY <2>1, <2>2, <2>3 DEF Lost, Fetchers
    <3>2. QED
      BY <1>2, <2>1, <2>2, <2>3, <3>1
  <2>4. CASE \E w \in Workers :
                /\ task[w].stage = "idle"
                /\ task' = [task EXCEPT ![w] = [stage |-> "request", chunk |-> e.chunk,
                              owner |-> peer, sock |-> sock, left |-> Pieces]]
    <3>1. PICK w \in Workers :
                /\ task[w].stage = "idle"
                /\ task' = [task EXCEPT ![w] = [stage |-> "request", chunk |-> e.chunk,
                              owner |-> peer, sock |-> sock, left |-> Pieces]]
      BY <2>4
    <3>2. /\ task'[w].stage = "request" /\ task'[w].chunk = e.chunk
          /\ \A v \in Workers \ {w} : task'[v] = task[v]
      BY <3>1 DEF TypeOK, DataTypeOK
    <3>3. w \in Fetchers(e.chunk)' /\ \A c : Fetchers(c) \subseteq Fetchers(c)'
      BY <3>1, <3>2 DEF Fetchers, Unreported, Stages
    <3>4. Lost' \subseteq Lost
      BY <2>1, <2>2, <3>3 DEF Lost
    <3>5. QED
      BY <2>1, <3>4
  <2>5. QED
    BY <1>2, <2>2, <2>3, <2>4 DEF Launch
<1>3. CASE TakeChunk
  <2>1. task' = task /\ bitmap' = bitmap /\ InLoop
    BY <1>3 DEF TakeChunk, datVars
  <2>2. queue \cup held \subseteq queue' \cup held'
    BY <1>3 DEF TakeChunk, Goto
  <2>3. QED
    BY <2>1, <2>2, LostCalm DEF Fetchers
<1>4. CASE ReportNoOwner
  <2>1. task' = task /\ bitmap' = bitmap /\ InLoop
    BY <1>4 DEF ReportNoOwner, datVars
  <2>2. \A x \in queue \cup held : \E y \in queue' \cup held' : y.chunk = x.chunk
    <3>1. CASE UNCHANGED <<jobVars, queue>>
      BY <3>1 DEF jobVars
    <3>2. ASSUME NEW e \in held, queue' = queue \cup {NewEntry(e.chunk, "NOOWNER")}
          PROVE  \A x \in queue \cup held : \E y \in queue' \cup held' : y.chunk = x.chunk
      <4>1. NewEntry(e.chunk, "NOOWNER").chunk = e.chunk
        BY NewEntryType DEF TypeOK, ThreadTypeOK, Entry, ChunkStatus
      <4>2. \A x \in held : x = e
        BY DEF HeldOne
      <4>3. QED
        BY <3>2, <4>1, <4>2
    <3>3. QED
      BY <1>4, <3>1, <3>2 DEF ReportNoOwner, Push
  <2>3. QED
    BY <2>1, <2>2, LostCalm DEF Fetchers
<1>5. CASE FindOwners \/ ConnectClient \/ ShakeHand \/ RefreshDone
  <2>1. UNCHANGED <<queue, bitmap, task>>
    BY <1>5 DEF FindOwners, RequestClients, ConnectClient, ShakeHand, RefreshDone, datVars
  <2>2. held' = held /\ jpc' # "dead"
    BY <1>5 DEF FindOwners, RequestClients, NewOwners, KeepOwners, Goto, Die, ConnectClient,
       ShakeHand, ShakeOk, ShakeFails, Greeted, RefreshDone
  <2>3. InLoop
    BY <1>5, <2>2 DEF FindOwners, RequestClients, NewOwners, KeepOwners, Goto, Die, AfterRefresh,
       ConnectClient, ShakeHand, ShakeOk, ShakeFails, Greeted, RefreshDone
  <2>4. QED
    BY <2>1, <2>2, <2>3, LostCalm DEF Fetchers
<1>6. CASE \/ Begin \/ CheckFlags \/ EnterWait \/ PauseTimeout \/ ChooseOwner
           \/ GetSock \/ AwaitThread \/ Join \/ CopySameFiles
  <2>1. /\ UNCHANGED <<queue, bitmap, task>> /\ held' = held /\ InLoop
    BY <1>6 DEF Begin, CheckFlags, EnterWait, PauseTimeout, ChooseOwner, GetSock, GotSock,
       AwaitThread, Join, CopySameFiles, Goto, Die, datVars
  <2>2. QED
    BY <2>1, LostCalm DEF Fetchers
<1>7. QED
  BY <1>1, <1>2, <1>3, <1>4, <1>5, <1>6 DEF JobStep

LossInv == SockInv /\ HeldOne /\ LossIsLeak

LEMMA LossStep == LossInv /\ [Next]_vars => LossInv'
<1> SUFFICES ASSUME LossInv, [Next]_vars, InLoop'
             PROVE  Cardinality(Lost') <= Cardinality(Leaked')
  BY SockInvStep, HeldOneStep DEF LossInv, LossIsLeak, SockInv
<1>1. SockInv /\ IInv /\ TypeOK /\ TypeOK' /\ SockPc /\ SockExclusive
  BY IInvStep DEF LossInv, SockInv, IInv
<1>2. IsFiniteSet(Leaked) /\ IsFiniteSet(Leaked')
  <2>1. /\ Leaked \in SUBSET UNION {{o} \X DOMAIN socks[o] : o \in Owners}
        /\ Leaked' \in SUBSET UNION {{o} \X DOMAIN socks'[o] : o \in Owners}
    BY DEF Leaked
  <2>2. QED
    BY <1>1, <2>1, IndicesFinite DEF TypeOK, DataTypeOK
<1>3. IsFiniteSet(Lost) /\ IsFiniteSet(Lost')
  <2>1. Lost \in SUBSET Chunks /\ Lost' \in SUBSET Chunks
    BY DEF Lost
  <2>2. QED
    BY <2>1, SetsAssumption, FS_Subset
<1>4. /\ Cardinality(Lost) \in Nat /\ Cardinality(Lost') \in Nat
      /\ Cardinality(Leaked) \in Nat /\ Cardinality(Leaked') \in Nat
  BY <1>2, <1>3, FS_CardinalityType
<1>5. Leaked \subseteq Leaked'
  BY <1>1, LeakedStays
<1>6. CASE Lost' = {}
  BY <1>4, <1>6, FS_EmptySet
<1>7. CASE InLoop /\ Lost' \subseteq Lost
  <2>1. Cardinality(Lost') <= Cardinality(Lost)
    BY <1>3, <1>7, FS_Subset
  <2>2. Cardinality(Leaked) <= Cardinality(Leaked')
    BY <1>2, <1>5, FS_Subset
  <2>3. QED
    BY <1>4, <1>7, <2>1, <2>2 DEF LossInv, LossIsLeak
<1>8. CASE /\ InLoop /\ Launch /\ task' = task
           /\ \E c \in Chunks : Lost' \subseteq Lost \cup {c}
  <2>1. PICK c \in Chunks : Lost' \subseteq Lost \cup {c}
    BY <1>8
  <2>2. IsFiniteSet(Lost \cup {c}) /\ Cardinality(Lost \cup {c}) <= Cardinality(Lost) + 1
    <3>1. /\ IsFiniteSet(Lost \cup {c})
          /\ Cardinality(Lost \cup {c}) = IF c \in Lost THEN Cardinality(Lost)
                                         ELSE Cardinality(Lost) + 1
      BY <1>3, FS_AddElement
    <3>2. QED
      BY <1>4, <3>1
  <2>3. Cardinality(Lost') <= Cardinality(Lost \cup {c})
    BY <2>1, <2>2, FS_Subset
  <2> DEFINE s == <<peer, sock>>
  <2>4. s \in Leaked' \ Leaked
    BY <1>1, <1>8, LeakedLaunch
  <2> HIDE DEF s
  <2>5. IsFiniteSet(Leaked \cup {s}) /\ Cardinality(Leaked \cup {s}) = Cardinality(Leaked) + 1
    BY <1>2, <2>4, FS_AddElement
  <2>6. Leaked \cup {s} \in SUBSET Leaked'
    BY <1>5, <2>4
  <2>7. Cardinality(Leaked \cup {s}) <= Cardinality(Leaked')
    BY <1>2, <2>6, FS_Subset
  <2>8. Cardinality(Lost \cup {c}) \in Nat
    BY <2>2, FS_CardinalityType
  <2>9. QED
    BY <1>4, <1>8, <2>2, <2>3, <2>5, <2>7, <2>8 DEF LossInv, LossIsLeak
<1>9. CASE JobStep
  BY <1>1, <1>6, <1>7, <1>8, <1>9, LostJob DEF LossInv
<1>10. CASE \E w \in Workers : TaskStep(w)
  <2>1. Lost' \subseteq Lost
    BY <1>1, <1>10, LostTask
  <2>2. InLoop
    BY <1>10 DEF TaskStep, SendRequest, Interrupted, HoldBack, Receive, Verify, OnFailed,
       OnFinished, ThreadIdle, jobVars, InLoop, Running
  <2>3. QED
    BY <1>7, <2>1, <2>2
<1>11. CASE UserStep \/ CollectorTick \/ PeerCloses
  <2>1. Lost' \subseteq Lost
    BY <1>1, <1>11, LostOutside
  <2>2. InLoop
    BY <1>1, <1>11, OutsideMoves DEF InLoop, Running
  <2>3. QED
    BY <1>7, <2>1, <2>2
<1>12. CASE UNCHANGED vars
  <2>1. Lost' \subseteq Lost /\ InLoop
    BY <1>12 DEF vars, jobVars, datVars, Lost, Fetchers, InLoop
  <2>2. QED
    BY <1>7, <2>1
<1>13. QED
  BY <1>9, <1>10, <1>11, <1>12 DEF Next

\* In the loop of Job::run, however many chunks, threads, owners and faults there are,
\* at most as many chunks are lost as sockets are marked in use for ever: the one place
\* that drops a chunk and goes on drops a socket with it (job.cc:256).
THEOREM LossIsLeakAlways == Spec => []LossIsLeak
<1>1. Init => LossInv
  <2>1. Init => HeldOne /\ LossIsLeak
    BY DEF Init, HeldOne, LossIsLeak, InLoop, Running
  <2>2. QED
    BY <2>1, IInvInit, ExclusiveInit DEF LossInv, SockInv
<1>2. LossInv => LossIsLeak
  BY DEF LossInv
<1>3. QED
  BY <1>1, <1>2, LossStep, PTL DEF Spec
-----------------------------------------------------------------------------
(* Copies of a complete download.  That the queue is empty says nothing of *)
(* the chunks in flight, of those a failure will put back and of those a   *)
(* failed launch has dropped: where nothing has failed, no connection is   *)
(* broken, so that no task throws and no launch drops its chunk, and every *)
(* missing chunk stays in the queue or in a thread's hands.                *)

AllOk  == \A o \in Owners : \A i \in DOMAIN socks[o] : socks[o][i].health = "ok"
Smooth ==
    /\ ~removed /\ (jpc # "idle" => ~stopped)
    /\ AllOk
    /\ \A w \in Workers : task[w].stage \notin {"thrown", "reported"}
    /\ InLoop => Lost = {}
    /\ jpc \in {"join", "copy"} => queue = {} /\ held = {}
SmoothInv == faults = 0 /\ Uninterrupted => Smooth

LEMMA NoFault ==
    ASSUME TypeOK, [Next]_vars, faults' = 0
    PROVE  faults = 0 /\ \A kind : ~Fault(kind)
<1>1. \A kind : ~Fault(kind)
  BY DEF Fault, TypeOK, DataTypeOK
<1>2. faults' = faults \/ \E kind : Fault(kind)
  <2>1. CASE JobStep
    BY <2>1 DEF JobStep, Begin, FindOwners, RequestClients, NewOwners, ConnectClient, ShakeHand,
       ShakeOk, ShakeFails, RefreshDone, InitQueue, CheckFlags, EnterWait, PauseTimeout,
       TakeChunk, ReportNoOwner, ChooseOwner, GetSock, AwaitThread, Launch, Join, CopySameFiles
  <2>2. CASE \E w \in Workers : TaskStep(w)
    BY <2>2 DEF TaskStep, SendRequest, Interrupted, HoldBack, Receive, Verify, OnFailed,
       OnFinished, ThreadIdle
  <2>3. CASE UserStep \/ CollectorTick \/ PeerCloses \/ UNCHANGED vars
    BY <2>3 DEF UserStep, ResumeJob, StartJob, StopJob, PauseJob, RemoveJob, CollectorTick,
       PeerCloses, vars
  <2>4. QED
    BY <2>1, <2>2, <2>3 DEF Next
<1>3. QED
  BY <1>1, <1>2

\* Nobody stops the job while it runs.
LEMMA SmoothFlags ==
    ASSUME IInv, Uninterrupted, Smooth, [Next]_vars
    PROVE  ~removed' /\ (jpc' # "idle" => ~stopped')
<1> USE DEF Smooth
<1>1. CASE JobStep
  <2>1. UNCHANGED ctlVars
    BY <1>1 DEF JobStep, Begin, FindOwners, RequestClients, ConnectClient, ShakeHand, RefreshDone,
       InitQueue, CheckFlags, EnterWait, PauseTimeout, TakeChunk, ReportNoOwner, ChooseOwner,
       GetSock, AwaitThread, Launch, Join, CopySameFiles
  <2>2. jpc # "idle"
    BY <1>1 DEF JobStep, Begin, FindOwners, ConnectClient, ShakeHand, RefreshDone,
       InitQueue, CheckFlags, EnterWait, PauseTimeout, TakeChunk, ReportNoOwner, ChooseOwner,
       GetSock, AwaitThread, Launch, Join, CopySameFiles
  <2>3. QED
    BY <2>1, <2>2 DEF ctlVars
<1>2. ASSUME NEW w \in Workers, TaskStep(w) PROVE ~removed' /\ (jpc' # "idle" => ~stopped')
  <2>1. stopped' = stopped /\ removed' = removed
    BY <1>2 DEF TaskStep, SendRequest, Interrupted, HoldBack, Receive, Verify, OnFailed,
       OnFinished, ThreadIdle, ctlVars
  <2>2. jpc' = jpc \/ jpc = "sockWait"
    BY <1>2 DEF TaskStep, SendRequest, Interrupted, HoldBack, Receive, Verify, OnFailed,
       OnFinished, ThreadIdle, jobVars
  <2>3. QED
    BY <2>1, <2>2
<1>3. CASE UserStep
  <2>1. ~StopJob /\ ~RemoveJob
    BY DEF StopJob, RemoveJob, Command, Uninterrupted
  <2>2. QED
    BY <1>3, <2>1 DEF UserStep, ResumeJob, StartJob, ResumeWithoutLock, PauseJob, jobVars
<1>4. CASE CollectorTick \/ PeerCloses \/ UNCHANGED vars
  BY <1>4 DEF CollectorTick, PeerCloses, vars, jobVars, ctlVars
<1>5. QED
  BY <1>1, <1>2, <1>3, <1>4 DEF Next

LEMMA OkOne ==
    ASSUME TypeOK, AllOk, NEW o \in Owners, NEW i, NEW st, NEW list,
           list \in {socks[o], Connect(socks[o]), Grow(socks[o], "ok"), SetStatus(socks[o], i, st)},
           socks' = [socks EXCEPT ![o] = list]
    PROVE  AllOk'
<1>1. socks \in [Owners -> Seq(Sock)] /\ socks[o] \in Seq(Sock)
  BY DEF TypeOK, DataTypeOK
<1>2. \A j \in DOMAIN list : list[j].health = "ok"
  <2>1. socks[o] \in [1..Len(socks[o]) -> Sock] /\ Len(socks[o]) \in Nat
    BY <1>1
  <2>2. \A j \in 1..Len(socks[o]) : socks[o][j].health = "ok"
    BY <2>1 DEF AllOk
  <2>3. \A j \in DOMAIN Connect(socks[o]) : Connect(socks[o])[j].health = "ok"
    BY <1>1, <2>1, <2>2 DEF Connect
  <2>4. \A j \in DOMAIN Grow(socks[o], "ok") : Grow(socks[o], "ok")[j].health = "ok"
    BY <1>1, <2>1, <2>2 DEF Grow
  <2>5. \A j \in DOMAIN SetStatus(socks[o], i, st) : SetStatus(socks[o], i, st)[j].health = "ok"
    BY <2>1, <2>2 DEF SetStatus, Sock
  <2>6. QED
    BY <2>1, <2>2, <2>3, <2>4, <2>5
<1>3. QED
  BY <1>1, <1>2 DEF AllOk

\* No connection breaks and no task throws.
LEMMA SmoothSocks ==
    ASSUME SockInv, Smooth, [Next]_vars, \A kind : ~Fault(kind)
    PROVE  AllOk' /\ \A w \in Workers : task'[w].stage \notin {"thrown", "reported"}
<1> USE DEF Smooth
<1>1. TypeOK /\ TypeOK' /\ IInv /\ QuietInv
  BY IInvStep DEF SockInv, IInv
<1>2. task \in [Workers -> Task] /\ \A t \in Task : DOMAIN t = DOMAIN NoTask
  BY <1>1 DEF TypeOK, DataTypeOK, Task, NoTask
<1>3. CASE JobStep
  <2>1. AllOk'
    <3>1. socks' = socks \/ ConnectClient \/ ShakeHand \/ GetSock
      BY <1>3 DEF JobStep, Begin, FindOwners, RequestClients, RefreshDone, InitQueue, CheckFlags,
         EnterWait, PauseTimeout, TakeChunk, ReportNoOwner, ChooseOwner, AwaitThread, Launch,
         Join, CopySameFiles
    <3>2. CASE ConnectClient
      <4>1. PICK o \in Owners : socks' = socks \/ socks' = [socks EXCEPT ![o] = Connect(socks[o])]
        BY <1>1, <3>2 DEF ConnectClient, TypeOK, ThreadTypeOK
      <4>2. QED
        BY <1>1, <4>1, OkOne DEF AllOk
    <3>3. CASE ShakeHand
      <4>1. peer \in Owners /\ socks[peer] \in Seq(Sock)
        BY <1>1, <3>3 DEF ShakeHand, TypeOK, ThreadTypeOK, WithPeer, DataTypeOK
      <4> DEFINE list == socks[peer]  new == Connect(list)
      <4>2. /\ \A i \in DOMAIN list : list[i].health = "ok"
            /\ new[Len(new)].health = "ok"
        BY <4>1 DEF AllOk, Connect
      <4>3. \A i \in DOMAIN list : ~ShakeFails(list, i)
        BY <4>2 DEF ShakeFails, Broken
      <4>4. ~ShakeFails(new, Len(new))
        BY <4>2 DEF ShakeFails, Broken
      <4>5. \/ socks' = socks \/ socks' = [socks EXCEPT ![peer] = list]
            \/ socks' = [socks EXCEPT ![peer] = new]
        BY <3>3, <4>3, <4>4 DEF ShakeHand, ShakeOk, IsFirstIdle, IsIdle
      <4>6. QED
        BY <1>1, <4>1, <4>5, OkOne DEF AllOk
    <3>4. CASE GetSock
      <4>1. peer \in Owners
        BY <1>1, <3>4 DEF GetSock, TypeOK, ThreadTypeOK, WithPeer
      <4>2. \/ socks' = socks \/ socks' = [socks EXCEPT ![peer] = Grow(socks[peer], "ok")]
            \/ \E i : socks' = [socks EXCEPT ![peer] = SetStatus(socks[peer], i, "USED")]
        BY <3>4 DEF GetSock
      <4>3. QED
        BY <1>1, <4>1, <4>2, OkOne DEF AllOk
    <3>5. QED
      BY <3>1, <3>2, <3>3, <3>4 DEF AllOk
  <2>2. task' = task \/ Launch
    BY <1>3 DEF JobStep, Begin, FindOwners, RequestClients, ConnectClient, ShakeHand, RefreshDone,
       InitQueue, CheckFlags, EnterWait, PauseTimeout, TakeChunk, ReportNoOwner, ChooseOwner,
       GetSock, AwaitThread, Join, CopySameFiles
  <2>3. \A w \in Workers : task'[w].stage \notin {"thrown", "reported"}
    BY <1>2, <2>2 DEF Launch
  <2>4. QED
    BY <2>1, <2>3
<1>4. ASSUME NEW w \in Workers, TaskStep(w)
      PROVE  AllOk' /\ \A v \in Workers : task'[v].stage \notin {"thrown", "reported"}
  <2>1. task[w].stage \notin {"idle", "finished"} =>
            task[w].owner \in Owners /\ task[w].sock \in DOMAIN socks[task[w].owner]
    BY DEF SockInv, SockExclusive, Holders
  <2>2. task[w].stage \notin {"idle", "finished"} => HealthOf(w) = "ok"
    BY <2>1 DEF HealthOf, AllOk
  <2>3. ~stopped \/ task[w].stage = "idle"
    BY <1>1 DEF QuietInv, Quiet
  <2>4. ~Interrupted(w) /\ ~OnFailed(w)
    BY <2>3 DEF Interrupted, OnFailed, Stage
  <2>5. ASSUME NEW to, to \notin {"thrown", "reported"}, task' = [task EXCEPT ![w].stage = to]
        PROVE  \A v \in Workers : task'[v].stage \notin {"thrown", "reported"}
    BY <1>2, <2>5 DEF NoTask
  <2>6. CASE SendRequest(w)
    BY <2>2, <2>5, <2>6 DEF SendRequest, Stage, Broken, AllOk
  <2>7. CASE HoldBack(w)
    <3>1. PICK to \in {"goPause", "goLimit", "pauseWait", "limitWait"} :
             task' = [task EXCEPT ![w].stage = to]
      BY <2>7 DEF HoldBack, Stage
    <3>2. AllOk'
      BY <2>7 DEF HoldBack, AllOk
    <3>3. QED
      BY <2>5, <3>1, <3>2
  <2>8. CASE Receive(w)
    <3>1. socks' = socks /\ task' = [task EXCEPT ![w].left = @ - 1]
      BY <2>2, <2>8 DEF Receive
    <3>2. \A v \in Workers : task'[v].stage = task[v].stage
      BY <1>2, <3>1 DEF NoTask
    <3>3. QED
      BY <3>1, <3>2 DEF AllOk
  <2>9. CASE Verify(w)
    BY <2>5, <2>9 DEF Verify, Stage, AllOk
  <2>10. CASE OnFinished(w)
    <3>1. task' = [task EXCEPT ![w].stage = "finished"] /\ task[w].stage \notin {"idle", "finished"}
      BY <2>10 DEF OnFinished
    <3>2. socks' = [socks EXCEPT ![task[w].owner] =
                       SetStatus(socks[task[w].owner], task[w].sock, "IDLE")]
      BY <2>10 DEF OnFinished
    <3>3. AllOk'
      BY <1>1, <2>1, <3>1, <3>2, OkOne
    <3>4. QED
      BY <2>5, <3>1, <3>3
  <2>11. CASE ThreadIdle(w)
    BY <1>2, <2>11 DEF ThreadIdle, NoTask, AllOk
  <2>12. QED
    BY <1>4, <2>4, <2>6, <2>7, <2>8, <2>9, <2>10, <2>11 DEF TaskStep
<1>5. CASE UserStep \/ CollectorTick \/ PeerCloses
  <2>1. ~PeerCloses
    BY DEF PeerCloses
  <2>2. socks' = socks
    BY <1>5, <2>1 DEF UserStep, ResumeJob, StartJob, StopJob, PauseJob, RemoveJob, CollectorTick
  <2>3. \A v \in Workers : task'[v] = task[v] \/ task'[v].stage = "recv"
    BY <1>1, <1>5, OutsideMoves
  <2>4. QED
    BY <2>2, <2>3 DEF AllOk
<1>6. CASE UNCHANGED vars
  BY <1>6 DEF vars, AllOk
<1>7. QED
  BY <1>3, <1>4, <1>5, <1>6 DEF Next

\* The loop is left when the queue is empty, and nothing puts a chunk back.
LEMMA SmoothQueue ==
    ASSUME IInv, Smooth, [Next]_vars
    PROVE  jpc' \in {"join", "copy"} => queue' = {} /\ held' = {}
<1> USE DEF Smooth
<1> SUFFICES ASSUME jpc' \in {"join", "copy"} PROVE queue' = {} /\ held' = {}
  OBVIOUS
<1>1. HeldInv
  BY DEF IInv
<1>2. CASE JobStep
  <2>1. TakeChunk \/ Join \/ InitQueue \/ ReportNoOwner
    BY <1>2 DEF JobStep, Begin, FindOwners, RequestClients, NewOwners, KeepOwners, Die, Goto,
       ConnectClient, ShakeHand, ShakeOk, ShakeFails, Greeted, RefreshDone, AfterRefresh,
       CheckFlags, EnterWait, PauseTimeout, ChooseOwner, GetSock, GotSock, AwaitThread, Launch,
       CopySameFiles
  <2>2. TakeChunk \/ Join
    BY <2>1 DEF InitQueue, ReportNoOwner, Goto, jobVars
  <2>3. QED
    BY <1>1, <2>2 DEF TakeChunk, Join, Goto, HeldInv, MayHold, Holding
<1>3. ASSUME NEW w \in Workers, TaskStep(w) PROVE queue' = {} /\ held' = {}
  <2>1. ~OnFailed(w)
    BY DEF OnFailed
  <2>2. queue' = queue /\ held' = held /\ jpc \in {"join", "copy"}
    BY <1>3, <2>1 DEF TaskStep, SendRequest, Interrupted, HoldBack, Receive, Verify,
       OnFinished, ThreadIdle, jobVars
  <2>3. QED
    BY <2>2
<1>4. CASE UserStep \/ CollectorTick \/ PeerCloses
  BY <1>4, OutsideMoves
<1>5. CASE UNCHANGED vars
  BY <1>5 DEF vars, jobVars
<1>6. QED
  BY <1>2, <1>3, <1>4, <1>5 DEF Next

\* No launch fails, and nothing else drops a chunk.
LEMMA SmoothLost ==
    ASSUME SockInv, HeldOne, Smooth, [Next]_vars
    PROVE  InLoop' => Lost' = {}
<1> SUFFICES ASSUME InLoop' PROVE Lost' = {}
  OBVIOUS
<1>1. IInv /\ TypeOK /\ SockPc /\ SockExclusive
  BY DEF SockInv, IInv
<1>2. CASE InLoop /\ Lost' \subseteq Lost
  BY <1>2 DEF Smooth
<1>3. CASE JobStep
  <2>1. ~(Launch /\ task' = task)
    <3>1. SUFFICES ASSUME Launch, task' = task PROVE FALSE
      OBVIOUS
    <3>2. sock # 0 /\ socks[peer][sock].health = "reset"
      <4>1. sock # 0 /\ task \in [Workers -> Task]
        BY <1>1, <3>1, LaunchKeeps DEF TypeOK, DataTypeOK
      <4>2. QED
        BY <1>1, <3>1, <4>1, LaunchKeeps
    <3>3. peer \in Owners /\ sock \in DOMAIN socks[peer]
      BY <1>1, <3>2 DEF SockExclusive
    <3>4. QED
      BY <3>2, <3>3 DEF Smooth, AllOk
  <2>2. QED
    BY <1>1, <1>2, <1>3, <2>1, LostJob
<1>4. CASE \E w \in Workers : TaskStep(w)
  <2>1. Lost' \subseteq Lost
    BY <1>1, <1>4, LostTask
  <2>2. InLoop
    BY <1>4 DEF TaskStep, SendRequest, Interrupted, HoldBack, Receive, Verify, OnFailed,
       OnFinished, ThreadIdle, jobVars, InLoop, Running
  <2>3. QED
    BY <1>2, <2>1, <2>2
<1>5. CASE UserStep \/ CollectorTick \/ PeerCloses
  <2>1. Lost' \subseteq Lost
    BY <1>1, <1>5, LostOutside
  <2>2. InLoop
    BY <1>1, <1>5, OutsideMoves DEF InLoop, Running
  <2>3. QED
    BY <1>2, <2>1, <2>2
<1>6. CASE UNCHANGED vars
  <2>1. Lost' \subseteq Lost /\ InLoop
    BY <1>6 DEF vars, jobVars, datVars, Lost, Fetchers, InLoop
  <2>2. QED
    BY <1>2, <2>1
<1>7. QED
  BY <1>3, <1>4, <1>5, <1>6 DEF Next

LEMMA SmoothStep == SockInv /\ HeldOne /\ SmoothInv /\ [Next]_vars => SmoothInv'
<1> SUFFICES ASSUME SockInv, HeldOne, SmoothInv, [Next]_vars, faults' = 0, Uninterrupted
             PROVE  Smooth'
  BY DEF SmoothInv, Uninterrupted
<1>1. IInv /\ TypeOK
  BY DEF SockInv, IInv
<1>2. Smooth /\ \A kind : ~Fault(kind)
  BY <1>1, NoFault DEF SmoothInv
<1>3. ~removed' /\ (jpc' # "idle" => ~stopped')
  BY <1>1, <1>2, SmoothFlags
<1>4. AllOk' /\ \A w \in Workers : task'[w].stage \notin {"thrown", "reported"}
  BY <1>2, SmoothSocks
<1>5. (InLoop => Lost = {})'
  BY <1>2, SmoothLost
<1>6. (jpc \in {"join", "copy"} => queue = {} /\ held = {})'
  BY <1>1, <1>2, SmoothQueue
<1>7. QED
  BY <1>3, <1>4, <1>5, <1>6 DEF Smooth

\* Where no network, tracker or peer has failed and the user neither stops nor removes
\* the job, the copies of equal files are made of a complete download, however many
\* chunks, threads and owners there are and however often the job is paused
\* (job.cc:239, job_info.h:75).
THEOREM CopyUndisturbedAlways == Spec => []CopyUndisturbed
<1> DEFINE Inv == SockInv /\ HeldOne /\ SmoothInv
<1>1. Init => Inv
  <2>1. Init => HeldOne /\ SmoothInv
    <3>1. Init => AllOk /\ \A w \in Workers : task[w].stage = "idle"
      BY DEF Init, AllOk, NoTask
    <3>2. QED
      BY <3>1 DEF Init, HeldOne, SmoothInv, Smooth, InLoop, Running
  <2>2. QED
    BY <2>1, IInvInit, ExclusiveInit DEF SockInv
<1>2. Inv /\ [Next]_vars => Inv'
  BY SockInvStep, HeldOneStep, SmoothStep DEF SockInv
<1>3. Inv => CopyUndisturbed
  <2> SUFFICES ASSUME Inv, faults = 0, Uninterrupted, jpc = "copy", NEW c \in Chunks
               PROVE  c \in bitmap
    BY DEF CopyUndisturbed, CopyAfterComplete, SockInv, IInv, TypeOK, DataTypeOK
  <2>1. queue = {} /\ held = {} /\ Lost = {}
    BY DEF SmoothInv, Smooth, InLoop, Running
  <2>2. Fetchers(c) = {}
    BY DEF SockInv, IInv, QuietInv, Quiet, Fetchers, Unreported
  <2>3. QED
    BY <2>1, <2>2 DEF Lost
<1>4. QED
  BY <1>1, <1>2, <1>3, PTL DEF Spec
-----------------------------------------------------------------------------
(* The threads of a removed job.                                           *)

\* What RemoveJob has not missed is out of the waits, and comes to none again.
Released == /\ \A w \in Workers :
                  task[w].stage \notin {"goPause", "pauseWait", "goLimit", "limitWait"}
            /\ jpc \notin {"goStop", "stopWait"}
ReleasedInv == removed /\ late = {} => Released

\* A job that has been removed stays so, and its threads are sent to no wait.
LEMMA ReleasedStays ==
    ASSUME TypeOK, removed, Released, [Next]_vars
    PROVE  removed' /\ Released'
<1>1. task \in [Workers -> Task]
  BY DEF TypeOK, DataTypeOK
<1>2. CASE JobStep
  <2>1. removed' = removed
    BY <1>2
    DEF JobStep, Begin, FindOwners, RequestClients, ConnectClient, ShakeHand, RefreshDone,
        InitQueue, CheckFlags, EnterWait, PauseTimeout, TakeChunk, ReportNoOwner, ChooseOwner,
        GetSock, AwaitThread, Launch, Join, CopySameFiles, ctlVars
  <2>2. jpc' \notin {"goStop", "stopWait"}
    BY <1>2
    DEF Released, JobStep, Begin, FindOwners, RequestClients, NewOwners, KeepOwners,
        AfterRefresh, Die, Goto, ConnectClient, ShakeHand, ShakeOk, ShakeFails, Greeted,
        RefreshDone, InitQueue, CheckFlags, EnterWait, PauseTimeout, TakeChunk, ReportNoOwner,
        ChooseOwner, GetSock, GotSock, AwaitThread, Launch, Join, CopySameFiles, jobVars
  <2>3. \A w \in Workers : task'[w].stage = task[w].stage \/ task'[w].stage = "request"
    <3>1. CASE Launch
      BY <1>1, <3>1 DEF Launch
    <3>2. CASE ~Launch
      <4>1. task' = task
        BY <1>2, <3>2
        DEF JobStep, Begin, FindOwners, RequestClients, ConnectClient, ShakeHand, RefreshDone,
            InitQueue, CheckFlags, EnterWait, PauseTimeout, TakeChunk, ReportNoOwner,
            ChooseOwner, GetSock, AwaitThread, Join, CopySameFiles
      <4>2. QED
        BY <4>1
    <3>3. QED
      BY <3>1, <3>2
  <2>4. QED
    BY <2>1, <2>2, <2>3 DEF Released
<1>3. ASSUME NEW w \in Workers, TaskStep(w) PROVE removed' /\ Released'
  <2>1. removed' = removed
    BY <1>3 DEF TaskStep, SendRequest, Interrupted, HoldBack, Receive, Verify, OnFailed,
       OnFinished, ThreadIdle, ctlVars
  <2>2. jpc' = jpc \/ jpc' = "getSock"
    BY <1>3 DEF TaskStep, SendRequest, Interrupted, HoldBack, Receive, Verify, OnFailed,
       OnFinished, ThreadIdle, jobVars
  <2>3. ~HoldBack(w)
    BY <1>3 DEF Released, HoldBack, Stage, Proceeds
  <2>4. \A v \in Workers :
           task'[v].stage \notin {"goPause", "pauseWait", "goLimit", "limitWait"}
    <3>1. task[w] \in Task
      BY <1>1
    <3>2. \/ task' = task
          \/ task' = [task EXCEPT ![w] = NoTask]
          \/ task' = [task EXCEPT ![w].left = @ - 1]
          \/ \E to \in {"recv", "thrown", "written", "reported", "finished"} :
                task' = [task EXCEPT ![w].stage = to]
      BY <1>3, <2>3 DEF TaskStep, SendRequest, Interrupted, Receive, Verify, OnFailed,
         OnFinished, ThreadIdle, Stage
    <3>3. /\ \A v \in Workers \ {w} : task'[v] = task[v]
          /\ task'[w].stage \notin {"goPause", "pauseWait", "goLimit", "limitWait"}
      BY <1>1, <3>1, <3>2 DEF Released, NoTask, Task
    <3>4. QED
      BY <3>3 DEF Released
  <2>5. QED
    BY <2>1, <2>2, <2>4 DEF Released
<1>4. CASE UserStep
  BY <1>4 DEF UserStep, ResumeJob, StartJob, StopJob, PauseJob, RemoveJob, ResumeWithoutLock
<1>5. CASE CollectorTick
  BY <1>5 DEF CollectorTick
<1>6. CASE PeerCloses \/ UNCHANGED vars
  BY <1>6 DEF Released, PeerCloses, jobVars, ctlVars, vars
<1>7. QED
  BY <1>2, <1>3, <1>4, <1>5, <1>6 DEF Next

\* RemoveJob itself releases all the threads that it does not miss.
LEMMA RemoveReleases ==
    ASSUME TypeOK, RemoveJob, Missed = {}
    PROVE  Released'
<1>1. task \in [Workers -> Task]
  BY DEF TypeOK, DataTypeOK
<1>2. /\ \A w \in Workers : task[w].stage \notin {"goPause", "goLimit"}
      /\ jpc \notin {"goStop", "stopWait"}
  BY DEF Missed, JobThread
<1>3. \A w \in Workers : task'[w].stage \notin {"goPause", "pauseWait", "goLimit", "limitWait"}
  BY <1>1, <1>2 DEF RemoveJob, Wake
<1>4. jpc' \notin {"goStop", "stopWait"}
  BY <1>2 DEF RemoveJob, Goto
<1>5. QED
  BY <1>3, <1>4 DEF Released

LEMMA ReleasedStep ==
    TypeOK /\ ReleasedInv /\ [RemovalNext]_<<vars, late>> => ReleasedInv'
<1> SUFFICES ASSUME TypeOK, ReleasedInv, [RemovalNext]_<<vars, late>>, removed', late' = {}
             PROVE  Released'
  BY DEF ReleasedInv
<1>1. CASE UNCHANGED <<vars, late>>
  <2>1. removed /\ late = {} /\ UNCHANGED vars
    BY <1>1 DEF vars, ctlVars
  <2>2. QED
    BY <2>1, ReleasedStays DEF ReleasedInv
<1>2. CASE Next /\ removed' = removed
  <2>1. late' = late
    BY <1>2 DEF RemovalNext, vars, ctlVars
  <2>2. QED
    BY <1>2, <2>1, ReleasedStays DEF ReleasedInv
<1>3. CASE Next /\ removed' # removed
  <2>1. Missed = {}
    BY <1>3 DEF RemovalNext, vars, ctlVars
  <2>2. ~removed
    BY <1>3 DEF TypeOK, FlagTypeOK
  <2>3. RemoveJob
    BY <1>3 DEF Next, JobStep, Begin, FindOwners, RequestClients, ConnectClient, ShakeHand,
       RefreshDone, InitQueue, CheckFlags, EnterWait, PauseTimeout, TakeChunk, ReportNoOwner,
       ChooseOwner, GetSock, AwaitThread, Launch, Join, CopySameFiles, TaskStep, SendRequest,
       Interrupted, HoldBack, Receive, Verify, OnFailed, OnFinished, ThreadIdle, UserStep,
       ResumeJob, StartJob, StopJob, PauseJob, ResumeWithoutLock, CollectorTick, PeerCloses,
       ctlVars
  <2>4. QED
    BY <2>1, <2>3, RemoveReleases
<1>4. QED
  BY <1>1, <1>2, <1>3 DEF RemovalNext

\* After a removal that reached all threads, a job that has not ended always has a step to
\* take, whatever fails, unless its thread waits for a peer with a dead socket: what may
\* keep a removed job from its end is what RemoveJob missed, a socket lost for ever, or a
\* thread that is not scheduled (client.cc:544, job.cc:176).
THEOREM RemovedMovesAlways == RemovalSpec => []RemovedMoves
<1>1. RemovalSpec => Spec
  <2>1. RemovalInit => Init
    BY DEF RemovalInit
  <2>2. [RemovalNext]_<<vars, late>> => [Next]_vars
    BY DEF RemovalNext
  <2>3. QED
    BY <2>1, <2>2, PTL DEF RemovalSpec, Spec
<1>2. RemovalSpec => [](TypeOK /\ MissedNeedsDead)
  BY <1>1, TypeCorrect, MissedNeedsDeadAlways, PTL
<1>3. RemovalInit => ReleasedInv
  BY DEF RemovalInit, ReleasedInv, Init
<1>4. RemovalSpec => []ReleasedInv
  BY <1>2, <1>3, ReleasedStep, PTL DEF RemovalSpec
<1>5. TypeOK /\ MissedNeedsDead /\ ReleasedInv => RemovedMoves
  <2> SUFFICES ASSUME TypeOK, MissedNeedsDead, ReleasedInv, removed, late = {},
                      MaxConn >= Cardinality(Workers), jpc \notin {"idle", "dead"}, ~Moves,
                      \A w \in Workers : ~TaskMoves(w)
               PROVE  jpc = "sockWait" /\ DeadSock(peer)
    BY DEF RemovedMoves
  <2>1. \A w \in Workers : task[w].stage = "idle"
    BY DEF ReleasedInv, Released, TaskMoves
  <2>2. jpc = "sockWait"
    BY <2>1, SetsAssumption DEF ReleasedInv, Released, Moves, Available, AllJoined
  <2>3. Holders = {}
    BY <2>1 DEF Holders
  <2>4. QED
    BY <2>2, <2>3 DEF MissedNeedsDead
<1>6. QED
  BY <1>2, <1>4, <1>5, PTL
=============================================================================
