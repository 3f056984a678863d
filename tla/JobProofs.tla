----------------------------- MODULE JobProofs -----------------------------
(***************************************************************************)
(* Proofs about Job, for every value of its constants: the types, that a   *)
(* chunk is in one place at most, that a set bit means written bytes, and  *)
(* that a job implements JobLedger.                                        *)
(***************************************************************************)
EXTENDS JobProperties, FiniteSetTheorems, TLAPS

\* One entry of the ledger changes, and no other does.
LEMMA LedgerMove ==
    ASSUME NEW c \in Chunks, NEW mark, ledgerOf'[c] = mark,
           \A d \in Chunks : d # c => ledgerOf'[d] = ledgerOf[d]
    PROVE  ledgerOf' = [ledgerOf EXCEPT ![c] = mark]
<1>1. ledgerOf = [d \in Chunks |-> ledgerOf[d]] /\ ledgerOf' = [d \in Chunks |-> ledgerOf'[d]]
  BY DEF ledgerOf
<1>2. QED
  BY <1>1

USE SetsAssumption, BoundsAssumption, RareCountAssumption, MaxConnAssumption

-----------------------------------------------------------------------------
(* The operators the actions are built from.                               *)

\* A ChunkInfo built from the current owner lists is an entry of the queue.
LEMMA NewEntryType ==
    ASSUME DataTypeOK, NEW c \in Chunks, NEW status \in ChunkStatus
    PROVE  NewEntry(c, status) \in Entry /\ NewEntry(c, status).chunk = c
<1> DEFINE n == Cardinality(ClientsOf(c))
<1>1. ClientsOf(c) \in SUBSET Owners
  BY DEF ClientsOf
<1>2. n \in Nat
  BY <1>1, FS_Subset, FS_CardinalityType
<1> HIDE DEF n
<1>3. Rarity(n) \in Int
  BY <1>2 DEF Rarity, HIGHEST, NORMAL, UNAVAILABLE
<1>4. Baseline[status] \in Int
  BY DEF Baseline, ChunkStatus, HIGHEST, NORMAL
<1>5. Priority(n, status) \in Int
  BY <1>3, <1>4 DEF Priority
<1>6. QED
  BY <1>1, <1>5 DEF NewEntry, ChunkInfo, Entry, n

\* Changing the status or the health of a socket keeps the list well formed, and
\* so does adding one.
LEMMA SockListType ==
    ASSUME NEW list \in Seq(Sock), NEW i,
           NEW st \in {"IDLE", "USED"}, NEW health \in Health
    PROVE  /\ SetStatus(list, i, st) \in Seq(Sock)
           /\ SetHealth(list, i, health) \in Seq(Sock)
           /\ Connect(list) \in Seq(Sock)
           /\ Grow(list, health) \in Seq(Sock)
<1>1. list \in [1..Len(list) -> Sock] /\ Len(list) \in Nat
  OBVIOUS
<1>2. \A s \in Sock : /\ [s EXCEPT !.st = st] \in Sock
                       /\ [s EXCEPT !.health = health] \in Sock
  BY DEF Sock
<1>3. /\ SetStatus(list, i, st) \in [1..Len(list) -> Sock]
      /\ SetHealth(list, i, health) \in [1..Len(list) -> Sock]
  BY <1>1, <1>2 DEF SetStatus, SetHealth
<1>4. \A f \in [1..Len(list) -> Sock] : f \in Seq(Sock)
  BY <1>1
<1>5. Connect(list) \in Seq(Sock) /\ Grow(list, health) \in Seq(Sock)
  BY DEF Connect, Grow, Sock, Health
<1>6. QED
  BY <1>1, <1>2, <1>3, <1>4, <1>5

-----------------------------------------------------------------------------
(* Type correctness.                                                       *)

LEMMA TypeInit == Init => TypeOK
<1>1. NoTask \in Task
  BY DEF NoTask, Task, Stages
<1>2. Unlisted \in OwnerEntry
  BY DEF Unlisted, OwnerEntry
<1>3. << >> \in Seq(Sock)
  OBVIOUS
<1>4. "idle" \in JobPc
  BY DEF JobPc
<1>5. Init => ThreadTypeOK
  BY <1>4 DEF Init, ThreadTypeOK, WithPeer
<1>6. Init => DataTypeOK
  BY <1>1, <1>2, <1>3 DEF Init, DataTypeOK
<1>7. Init => FlagTypeOK
  BY DEF Init, FlagTypeOK
<1>8. QED
  BY <1>5, <1>6, <1>7 DEF TypeOK

\* A search names only owners it was asked about.
LEMMA SearchType ==
    ASSUME NEW S, NEW rows \in SUBSET S, NEW a \in Search(rows)
    PROVE  a.all \subseteq S /\ a.again \subseteq S
<1>1. CASE Cardinality(rows) <= 1
  BY <1>1 DEF Search
<1>2. CASE ~(Cardinality(rows) <= 1)
  <2>1. PICK first \in rows, last \in rows : a = [all |-> rows \ {first}, again |-> {last}]
    BY <1>2 DEF Search
  <2>2. QED
    BY <2>1
<1>3. QED
  BY <1>1, <1>2

LEMMA AnswersType ==
    ASSUME NEW f \in Files, NEW a \in Answers(f)
    PROVE  a.all \subseteq Owners /\ a.again \subseteq Owners
<1> DEFINE free == Owners \ ListedOwners(f)
<1>1. PICK ahead \in SUBSET free, behind \in SUBSET free :
         \E x \in Search(ahead), y \in Search(behind) :
            a = [all |-> x.all \cup y.all, again |-> x.again \cup y.again]
  BY DEF Answers
<1>2. PICK x \in Search(ahead), y \in Search(behind) :
            a = [all |-> x.all \cup y.all, again |-> x.again \cup y.again]
  BY <1>1
<1>3. ahead \in SUBSET Owners /\ behind \in SUBSET Owners
  OBVIOUS
<1>4. /\ x.all \subseteq Owners /\ x.again \subseteq Owners
      /\ y.all \subseteq Owners /\ y.again \subseteq Owners
  BY <1>3, SearchType
<1>5. QED
  BY <1>2, <1>4

LEMMA TypeRequestClients ==
    ASSUME TypeOK, NEW f \in Files, RequestClients(f)
    PROVE  TypeOK'
<1>1. FlagTypeOK'
  BY DEF RequestClients, TypeOK, FlagTypeOK, ctlVars
<1>2. ThreadTypeOK'
  <2>1. ASSUME NEW a \in Answers(f), NewOwners(f, a.all, a.again) PROVE ThreadTypeOK'
    BY <2>1, AnswersType DEF NewOwners, TypeOK, ThreadTypeOK, JobPc, Running, WithPeer
  <2>2. CASE KeepOwners(f) \/ Die
    BY <2>2 DEF KeepOwners, Goto, AfterRefresh, Die, TypeOK, ThreadTypeOK, JobPc, Running,
                WithPeer
  <2>3. QED
    BY <2>1, <2>2 DEF RequestClients
<1>3. faults' \in Nat
  <2>1. faults' = faults \/ faults' = faults + 1
    BY DEF RequestClients, NewOwners, Fault
  <2>2. QED
    BY <2>1 DEF TypeOK, DataTypeOK
<1>4. known' \subseteq Files
  BY DEF RequestClients, NewOwners, KeepOwners, TypeOK, DataTypeOK
<1>5. ownerInfo' \in [Files -> [Owners -> OwnerEntry]]
  <2>1. Unlisted \in OwnerEntry /\ Listed(TRUE) \in OwnerEntry /\ Listed(FALSE) \in OwnerEntry
    BY DEF Unlisted, Listed, OwnerEntry
  <2> DEFINE list(new, again) ==
                [o \in Owners |-> IF o \in again THEN Listed(TRUE)
                                 ELSE IF o \in new THEN Listed(FALSE) ELSE Unlisted]
  <2>2. \A new, again : list(new, again) \in [Owners -> OwnerEntry]
    BY <2>1
  <2>3. ASSUME NEW new, NEW again, NewOwners(f, new, again)
        PROVE  ownerInfo' \in [Files -> [Owners -> OwnerEntry]]
    <3>1. \A l \in [Owners -> OwnerEntry] :
             [ownerInfo EXCEPT ![f] = l] \in [Files -> [Owners -> OwnerEntry]]
      BY DEF TypeOK, DataTypeOK
    <3>2. ownerInfo' = [ownerInfo EXCEPT ![f] = list(new, again)]
      BY <2>3 DEF NewOwners
    <3> HIDE DEF list
    <3>3. QED
      BY <2>2, <3>1, <3>2
  <2>4. QED
    BY <2>3 DEF RequestClients, KeepOwners, TypeOK, DataTypeOK
<1>6. QED
  BY <1>1, <1>2, <1>3, <1>4, <1>5
  DEF RequestClients, TypeOK, DataTypeOK, datVars

LEMMA TypeConnectClient == TypeOK /\ ConnectClient => TypeOK'
<1> SUFFICES ASSUME TypeOK, ConnectClient PROVE TypeOK'
  OBVIOUS
<1>1. PICK o \in {t[1] : t \in todo} :
        /\ peer' = o /\ jpc' = "shake"
        /\ \/ UNCHANGED <<socks, faults>>
           \/ UNCHANGED faults /\ socks' = [socks EXCEPT ![o] = Connect(@)]
           \/ Fault("connect") /\ UNCHANGED socks
  BY DEF ConnectClient
<1>2. o \in Owners /\ socks[o] \in Seq(Sock)
  BY DEF TypeOK, ThreadTypeOK, DataTypeOK
<1>3. Connect(socks[o]) \in Seq(Sock)
  BY <1>2, SockListType DEF Health
<1>4. socks' \in [Owners -> Seq(Sock)] /\ faults' \in Nat
  <2>1. faults' = faults \/ faults' = faults + 1
    BY <1>1 DEF Fault
  <2>2. socks' = socks \/ socks' = [socks EXCEPT ![o] = Connect(socks[o])]
    BY <1>1
  <2>3. faults' \in Nat
    BY <2>1 DEF TypeOK, DataTypeOK
  <2>4. /\ socks \in [Owners -> Seq(Sock)]
        /\ \A l \in Seq(Sock) : [socks EXCEPT ![o] = l] \in [Owners -> Seq(Sock)]
    BY DEF TypeOK, DataTypeOK
  <2>5. [socks EXCEPT ![o] = Connect(socks[o])] \in [Owners -> Seq(Sock)]
    BY <1>3, <2>4
  <2>6. QED
    BY <2>2, <2>3, <2>4, <2>5
<1>5. ThreadTypeOK'
  BY <1>1, <1>2 DEF ConnectClient, TypeOK, ThreadTypeOK, JobPc, Running, WithPeer
<1>6. QED
  BY <1>4, <1>5 DEF ConnectClient, TypeOK, DataTypeOK, FlagTypeOK, ownVars, datVars, ctlVars

LEMMA TypeShakeHand == TypeOK /\ ShakeHand => TypeOK'
<1> SUFFICES ASSUME TypeOK, ShakeHand PROVE TypeOK'
  OBVIOUS
<1>1. FlagTypeOK'
  BY DEF ShakeHand, TypeOK, FlagTypeOK, ctlVars
<1>2. ThreadTypeOK'
  BY DEF ShakeHand, ShakeOk, ShakeFails, Greeted, Die, TypeOK, ThreadTypeOK, JobPc, Running, WithPeer
<1>3. faults' \in Nat
  BY DEF ShakeHand, ShakeOk, ShakeFails, Fault, TypeOK, DataTypeOK
<1>4. ownerInfo' \in [Files -> [Owners -> OwnerEntry]]
  <2> DEFINE Answer(b) == [listed |-> TRUE, twice |-> ownerInfo[rfile][peer].twice,
                          shaken |-> TRUE, bits |-> {c \in b : FileOf[c] = rfile}]
  <2>0. ownerInfo[rfile][peer] \in OwnerEntry
    BY DEF ShakeHand, WithPeer, TypeOK, ThreadTypeOK, DataTypeOK
  <2>1. \A b \in Offers : Answer(b) \in OwnerEntry
    BY <2>0, SetsAssumption DEF OwnerEntry
  <2> HIDE DEF Answer
  <2>2. \A e \in OwnerEntry : [ownerInfo EXCEPT ![rfile][peer] = e]
                                \in [Files -> [Owners -> OwnerEntry]]
    BY DEF TypeOK, DataTypeOK
  <2>3. \A list : ShakeOk(list) => ownerInfo' \in [Files -> [Owners -> OwnerEntry]]
    BY <2>1, <2>2 DEF ShakeOk, Answer
  <2>4. QED
    BY <2>3 DEF ShakeHand, ShakeFails, TypeOK, DataTypeOK
<1>5. socks' \in [Owners -> Seq(Sock)]
  <2> DEFINE list == socks[peer]
  <2>1. list \in Seq(Sock)
    BY DEF ShakeHand, TypeOK, ThreadTypeOK, DataTypeOK, WithPeer
  <2>2. \A l \in Seq(Sock) : [socks EXCEPT ![peer] = l] \in [Owners -> Seq(Sock)]
    BY DEF TypeOK, DataTypeOK
  <2>3. \A l \in Seq(Sock) : \A i : SetHealth(l, i, "reset") \in Seq(Sock)
    BY SockListType DEF Health
  <2>4. \A l \in Seq(Sock) : \A i : (ShakeOk(l) \/ ShakeFails(l, i))
                              => socks' \in [Owners -> Seq(Sock)]
    BY <2>2, <2>3 DEF ShakeOk, ShakeFails
  <2>5. Connect(list) \in Seq(Sock) /\ Grow(list, "null") \in Seq(Sock)
    BY <2>1, SockListType DEF Health
  <2> HIDE DEF list
  <2>6. CASE \E i : ShakeOk(list) \/ ShakeFails(list, i)
    BY <2>1, <2>4, <2>6
  <2>7. CASE \E i : ShakeOk(Connect(list)) \/ ShakeFails(Connect(list), i)
    BY <2>4, <2>5, <2>7
  <2>8. CASE socks' = [socks EXCEPT ![peer] = Grow(list, "null")] \/ socks' = socks
    BY <2>2, <2>5, <2>8 DEF TypeOK, DataTypeOK
  <2>9. QED
    BY <2>6, <2>7, <2>8 DEF ShakeHand, list
<1>6. QED
  BY <1>1, <1>2, <1>3, <1>4, <1>5 DEF ShakeHand, TypeOK, DataTypeOK, datVars

LEMMA TypeInitQueue == TypeOK /\ InitQueue => TypeOK'
<1> SUFFICES ASSUME TypeOK, InitQueue PROVE TypeOK'
  OBVIOUS
<1>1. \A c \in Chunks : NewEntry(c, "FREE") \in Entry
  BY NewEntryType DEF ChunkStatus, TypeOK
<1>2. queue' \subseteq Entry
  BY <1>1 DEF InitQueue, Wanted, TypeOK, DataTypeOK
<1>3. ThreadTypeOK'
  BY DEF InitQueue, Goto, jobVars, TypeOK, ThreadTypeOK, JobPc, Running, WithPeer
<1>4. FlagTypeOK'
  <2>1. up' = FALSE \/ up' = up
    BY DEF InitQueue
  <2>2. QED
    BY <2>1 DEF InitQueue, TypeOK, FlagTypeOK, ctlVars
<1>5. QED
  BY <1>2, <1>3, <1>4 DEF InitQueue, TypeOK, DataTypeOK, ownVars, datVars

LEMMA TypeReportNoOwner == TypeOK /\ ReportNoOwner => TypeOK'
<1> SUFFICES ASSUME TypeOK, ReportNoOwner PROVE TypeOK'
  OBVIOUS
<1>1. \A e \in held : NewEntry(e.chunk, "NOOWNER") \in Entry
  BY NewEntryType DEF ChunkStatus, TypeOK, ThreadTypeOK, Entry
<1>2. queue' \subseteq Entry
  BY <1>1 DEF ReportNoOwner, Push, TypeOK, DataTypeOK
<1>3. ThreadTypeOK'
  BY DEF ReportNoOwner, jobVars, TypeOK, ThreadTypeOK, JobPc, Running, WithPeer
<1>4. FlagTypeOK'
  <2>1. up' = FALSE \/ up' = up
    BY DEF ReportNoOwner
  <2>2. QED
    BY <2>1 DEF ReportNoOwner, TypeOK, FlagTypeOK, ctlVars
<1>5. QED
  BY <1>2, <1>3, <1>4 DEF ReportNoOwner, TypeOK, DataTypeOK, ownVars, datVars

LEMMA TypeGetSock == TypeOK /\ GetSock => TypeOK'
<1> SUFFICES ASSUME TypeOK, GetSock PROVE TypeOK'
  OBVIOUS
<1>1. peer \in Owners /\ socks[peer] \in Seq(Sock)
  BY DEF GetSock, GotSock, Goto, Die, TypeOK, ThreadTypeOK, DataTypeOK, WithPeer
<1>2. socks' \in [Owners -> Seq(Sock)]
  <2>1. \A i : SetStatus(socks[peer], i, "USED") \in Seq(Sock)
    BY <1>1, SockListType DEF Health
  <2>2. \A h \in Health : Grow(socks[peer], h) \in Seq(Sock)
    BY <1>1, SockListType
  <2>3. \A l \in Seq(Sock) : [socks EXCEPT ![peer] = l] \in [Owners -> Seq(Sock)]
    BY DEF TypeOK, DataTypeOK
  <2>4. \/ socks' = socks
        \/ \E i : socks' = [socks EXCEPT ![peer] = SetStatus(socks[peer], i, "USED")]
        \/ \E h \in Health : socks' = [socks EXCEPT ![peer] = Grow(socks[peer], h)]
    BY DEF GetSock, Health
  <2>5. QED
    BY <2>1, <2>2, <2>3, <2>4 DEF TypeOK, DataTypeOK
<1>3. faults' \in Nat
  BY DEF GetSock, GotSock, Goto, Die, Fault, TypeOK, DataTypeOK
<1>4. sock' \in Nat
  <2>1. Len(socks[peer]) \in Nat /\ DOMAIN socks[peer] \subseteq Nat
    BY <1>1
  <2>2. QED
    BY <2>1 DEF GetSock, GotSock, Goto, Die, TypeOK, ThreadTypeOK
<1>5. QED
  BY <1>1, <1>2, <1>3, <1>4
  DEF GetSock, GotSock, Goto, Die, TypeOK, ThreadTypeOK, DataTypeOK, FlagTypeOK, JobPc, Running, WithPeer,
      ownVars, datVars, ctlVars

LEMMA TypeLaunch == TypeOK /\ Launch => TypeOK'
<1> SUFFICES ASSUME TypeOK, Launch PROVE TypeOK'
  OBVIOUS
<1>1. peer \in Owners /\ sock \in Nat /\ \A e \in held : e.chunk \in Chunks
  BY DEF Launch, TypeOK, ThreadTypeOK, WithPeer, Entry
<1>2. \A e \in held : [stage |-> "request", chunk |-> e.chunk, owner |-> peer,
                      sock |-> sock, left |-> Pieces] \in Task
  BY <1>1 DEF Task, Stages
<1>3. task' \in [Workers -> Task]
  BY <1>2 DEF Launch, TypeOK, DataTypeOK
<1>4. ThreadTypeOK'
  BY DEF Launch, TypeOK, ThreadTypeOK, JobPc, Running, WithPeer
<1>5. QED
  BY <1>3, <1>4 DEF Launch, TypeOK, DataTypeOK, FlagTypeOK, ownVars, datVars, ctlVars

LEMMA TypeJobStep == TypeOK /\ JobStep => TypeOK'
<1> SUFFICES ASSUME TypeOK, JobStep PROVE TypeOK'
  OBVIOUS
<1> USE DEF TypeOK, ThreadTypeOK, DataTypeOK, FlagTypeOK, JobPc, Running, WithPeer, Goto,
            jobVars, ownVars, datVars, ctlVars
<1>1. CASE Begin
  BY <1>1 DEF Begin
<1>2. CASE FindOwners
  <2>1. \A f \in Files : RequestClients(f) => TypeOK'
    BY TypeRequestClients
  <2>2. \A e \in held : FileOf[e.chunk] \in Files
    BY DEF Entry
  <2>3. QED
    BY <1>2, <2>1, <2>2 DEF FindOwners
<1>3. CASE RefreshDone
  BY <1>3 DEF RefreshDone, AfterRefresh
<1>4. CASE CheckFlags
  BY <1>4 DEF CheckFlags
<1>5. CASE EnterWait
  BY <1>5 DEF EnterWait
<1>6. CASE PauseTimeout
  BY <1>6 DEF PauseTimeout, Die
<1>7. CASE TakeChunk
  BY <1>7 DEF TakeChunk, Top
<1>8. CASE ChooseOwner
  BY <1>8 DEF ChooseOwner, Entry
<1>9. CASE AwaitThread
  BY <1>9 DEF AwaitThread
<1>10. CASE Join
  BY <1>10 DEF Join
<1>11. CASE CopySameFiles
  BY <1>11 DEF CopySameFiles
<1>12. QED
  BY <1>1, <1>2, <1>3, <1>4, <1>5, <1>6, <1>7, <1>8, <1>9, <1>10, <1>11, TypeConnectClient,
     TypeShakeHand, TypeInitQueue, TypeReportNoOwner, TypeGetSock, TypeLaunch DEF JobStep

\* The sockets stay well formed when a pool thread changes one.
LEMMA TypeSocks ==
    ASSUME TypeOK, NEW o, NEW i, NEW st \in {"IDLE", "USED"}, NEW health \in Health
    PROVE  /\ [socks EXCEPT ![o] = SetHealth(@, i, health)] \in [Owners -> Seq(Sock)]
           /\ [socks EXCEPT ![o] = SetStatus(@, i, st)] \in [Owners -> Seq(Sock)]
<1>1. \A p \in Owners : /\ SetHealth(socks[p], i, health) \in Seq(Sock)
                        /\ SetStatus(socks[p], i, st) \in Seq(Sock)
  BY SockListType DEF TypeOK, DataTypeOK
<1>2. QED
  BY <1>1 DEF TypeOK, DataTypeOK

LEMMA TypeTaskStep ==
    ASSUME TypeOK, NEW w \in Workers, TaskStep(w)
    PROVE  TypeOK'
<1> USE DEF TypeOK, DataTypeOK
<1> DEFINE Busy == [stage : Stages \ {"idle"}, chunk : Chunks, owner : Owners,
                    sock : Nat, left : 0..Pieces]
<1>0. /\ task \in [Workers -> Task] /\ task[w] \in Task
      /\ \A s : s \in Stages \ {"idle"} <=>
            s \in {"request", "recv", "goPause", "pauseWait", "goLimit", "limitWait",
                  "written", "thrown", "reported", "finished"}
      /\ task[w].stage # "idle" => task[w] \in Busy
      /\ \A t \in Busy \cup {NoTask} : [task EXCEPT ![w] = t] \in [Workers -> Task]
  BY DEF Task, NoTask, Stages
<1> HIDE DEF TypeOK, DataTypeOK
<1>1. task' \in [Workers -> Task]
  <2>1. \A s \in Stages \ {"idle"} : task[w].stage # "idle" =>
            [task EXCEPT ![w].stage = s] \in [Workers -> Task]
    <3>1. \A s \in Stages \ {"idle"}, t \in Busy : [t EXCEPT !.stage = s] \in Busy
      OBVIOUS
    <3>2. QED
      BY <1>0, <3>1
  <2>2. task[w].stage # "idle" /\ task[w].left > 0 =>
            [task EXCEPT ![w].left = @ - 1] \in [Workers -> Task]
    <3>1. \A t \in Busy : t.left > 0 => [t EXCEPT !.left = t.left - 1] \in Busy
      OBVIOUS
    <3>2. QED
      BY <1>0, <3>1
  <2> HIDE DEF Busy
  <2>3. CASE \E s, r : s \in Stages \ {"idle"} /\ r # "idle" /\ Stage(w, r, s)
    BY <2>1, <2>3 DEF Stage
  <2>4. CASE SendRequest(w) \/ Interrupted(w) \/ HoldBack(w) \/ Verify(w)
    BY <1>0, <2>3, <2>4 DEF SendRequest, Interrupted, HoldBack, Verify
  <2>5. CASE Receive(w)
    <3>1. /\ task[w].stage # "idle" /\ task[w].left > 0
          /\ \/ task' = [task EXCEPT ![w].left = @ - 1]
             \/ task' = [task EXCEPT ![w].stage = "thrown"]
      BY <2>5 DEF Receive, Proceeds
    <3>2. QED
      BY <1>0, <2>1, <2>2, <3>1
  <2>6. CASE OnFailed(w)
    BY <1>0, <2>3, <2>6 DEF OnFailed
  <2>7. CASE OnFinished(w)
    BY <1>0, <2>1, <2>7 DEF OnFinished
  <2>8. CASE ThreadIdle(w)
    BY <1>0, <2>8 DEF ThreadIdle
  <2>9. QED
    BY <2>4, <2>5, <2>6, <2>7, <2>8 DEF TaskStep
<1>2. socks' \in [Owners -> Seq(Sock)]
  <2>1. \A o, i : /\ \A h \in Health : [socks EXCEPT ![o] = SetHealth(@, i, h)]
                                        \in [Owners -> Seq(Sock)]
                 /\ [socks EXCEPT ![o] = SetStatus(@, i, "IDLE")]
                        \in [Owners -> Seq(Sock)]
    BY TypeSocks DEF Health
  <2>2. \A h \in {"dirty", "closed", "reset"} : h \in Health
    BY DEF Health
  <2>3. \A h \in {"dirty", "closed", "reset"} : Becomes(w, h) =>
            socks' \in [Owners -> Seq(Sock)]
    <3>1. SUFFICES ASSUME NEW h \in Health, Becomes(w, h)
                   PROVE  socks' \in [Owners -> Seq(Sock)]
      BY <2>2
    <3>2. [socks EXCEPT ![task[w].owner] = SetHealth(@, task[w].sock, h)]
              \in [Owners -> Seq(Sock)]
      BY TypeSocks
    <3>3. QED
      BY <3>1, <3>2 DEF Becomes
  <2>4. socks' = socks => socks' \in [Owners -> Seq(Sock)]
    BY DEF TypeOK, DataTypeOK
  <2>5. CASE OnFinished(w)
    BY <2>1, <2>5 DEF OnFinished
  <2>6. CASE SendRequest(w) \/ Interrupted(w) \/ Receive(w)
    BY <2>3, <2>4, <2>6 DEF SendRequest, Interrupted, Receive, Broken
  <2>7. CASE HoldBack(w) \/ Verify(w) \/ OnFailed(w) \/ ThreadIdle(w)
    BY <2>4, <2>7 DEF HoldBack, Verify, OnFailed, ThreadIdle
  <2>8. QED
    BY <2>5, <2>6, <2>7 DEF TaskStep
<1>3. queue' \subseteq Entry
  <2>1. CASE OnFailed(w)
    <3>1. task[w].chunk \in Chunks
      BY <1>0, <2>1 DEF OnFailed
    <3>2. NewEntry(task[w].chunk, "FAILED") \in Entry
      BY <3>1, NewEntryType DEF ChunkStatus, TypeOK
    <3>3. QED
      BY <2>1, <3>2 DEF OnFailed, Push, TypeOK, DataTypeOK
  <2>2. QED
    BY <2>1 DEF TaskStep, SendRequest, Interrupted, HoldBack, Receive, Verify,
                OnFinished, ThreadIdle, TypeOK, DataTypeOK
<1>4. bitmap' \subseteq Chunks /\ written' \subseteq Chunks
  <2>1. task[w].stage # "idle" => task[w].chunk \in Chunks
    BY <1>0
  <2>2. CASE OnFinished(w)
    BY <2>1, <2>2 DEF OnFinished, TypeOK, DataTypeOK
  <2>3. CASE Verify(w)
    BY <2>1, <2>3 DEF Verify, Stage, TypeOK, DataTypeOK
  <2>4. QED
    BY <2>2, <2>3 DEF TaskStep, SendRequest, Interrupted, HoldBack, Receive, OnFailed,
                      ThreadIdle, TypeOK, DataTypeOK, datVars
<1>5. UNCHANGED <<ownVars, cmds>> /\ faults' \in Nat
  <2>1. faults \in Nat
    BY DEF TypeOK, DataTypeOK
  <2>2. CASE SendRequest(w)
    BY <2>1, <2>2 DEF SendRequest, Fault
  <2>3. CASE Verify(w)
    BY <2>1, <2>3 DEF Verify, Fault
  <2>4. QED
    BY <2>1, <2>2, <2>3 DEF TaskStep, Interrupted, HoldBack, Receive, OnFailed, OnFinished,
                            ThreadIdle
<1>6. ThreadTypeOK'
  <2>1. UNCHANGED <<held, peer, sock, rfile, todo>>
        /\ (jpc' = jpc \/ (jpc = "sockWait" /\ jpc' = "getSock"))
    <3>1. CASE OnFinished(w)
      BY <3>1 DEF OnFinished
    <3>2. CASE SendRequest(w) \/ Interrupted(w) \/ HoldBack(w) \/ Receive(w)
      BY <3>2 DEF SendRequest, Interrupted, HoldBack, Receive, jobVars
    <3>3. CASE Verify(w) \/ OnFailed(w) \/ ThreadIdle(w)
      BY <3>3 DEF Verify, OnFailed, ThreadIdle, jobVars
    <3>4. QED
      BY <3>1, <3>2, <3>3 DEF TaskStep
  <2>2. QED
    BY <2>1 DEF TypeOK, ThreadTypeOK, JobPc, Running, WithPeer
<1>7. FlagTypeOK'
  <2>1. UNCHANGED <<stopped, paused, removed>>
        /\ (throttled' = throttled \/ throttled' \in {FALSE, CanExceed})
        /\ (up' = up \/ up' = FALSE)
    BY DEF TaskStep, SendRequest, Interrupted, HoldBack, Receive, Verify, OnFailed,
           OnFinished, ThreadIdle, ctlVars
  <2>2. QED
    BY <2>1 DEF TypeOK, FlagTypeOK
<1>8. QED
  BY <1>1, <1>2, <1>3, <1>4, <1>5, <1>6, <1>7 DEF TypeOK, DataTypeOK, ownVars

LEMMA TypeUserStep == TypeOK /\ (UserStep \/ CollectorTick \/ PeerCloses) => TypeOK'
<1> SUFFICES ASSUME TypeOK, UserStep \/ CollectorTick \/ PeerCloses PROVE TypeOK'
  OBVIOUS
<1>1. ASSUME NEW stages \in SUBSET (Stages \ {"idle"})
      PROVE  [w \in Workers |-> Wake(w, stages)] \in [Workers -> Task]
  <2>1. \A w \in Workers : task[w] \in Task
    BY DEF TypeOK, DataTypeOK
  <2>2. \A w \in Workers : Wake(w, stages) \in Task
    BY <2>1 DEF Wake, Task, NoTask, Stages
  <2>3. QED
    BY <2>2
<1>2. /\ [w \in Workers |-> Wake(w, {"pauseWait"})] \in [Workers -> Task]
      /\ [w \in Workers |-> Wake(w, {"limitWait"})] \in [Workers -> Task]
      /\ [w \in Workers |-> Wake(w, {"pauseWait", "limitWait"})] \in [Workers -> Task]
  BY <1>1 DEF Stages
<1> USE DEF TypeOK, ThreadTypeOK, DataTypeOK, FlagTypeOK, JobPc, Running, WithPeer, Goto,
            jobVars, ownVars, datVars, ctlVars, Command, ResumeWithoutLock
<1>3. CASE ResumeJob
  <2>1. FlagTypeOK'
    <3>1. stopped' = FALSE /\ paused' = FALSE /\ UNCHANGED <<removed, throttled, up>>
      BY <1>3 DEF ResumeJob
    <3>2. QED
      BY <3>1, Zenon
  <2>2. ThreadTypeOK' /\ DataTypeOK'
    BY <1>2, <1>3 DEF ResumeJob
  <2>3. QED
    BY <2>1, <2>2
<1>4. CASE StartJob
  <2>1. FlagTypeOK'
    <3>1. stopped' = FALSE /\ paused' = FALSE /\ UNCHANGED <<removed, throttled, up>>
      BY <1>4 DEF StartJob
    <3>2. QED
      BY <3>1, Zenon
  <2>2. ThreadTypeOK' /\ DataTypeOK'
    BY <1>2, <1>4 DEF StartJob
  <2>3. QED
    BY <2>1, <2>2
<1>5. CASE StopJob
  BY <1>5 DEF StopJob
<1>6. CASE PauseJob
  BY <1>6 DEF PauseJob
<1>7. CASE RemoveJob
  BY <1>2, <1>7 DEF RemoveJob
<1>8. CASE CollectorTick
  BY <1>2, <1>8 DEF CollectorTick
<1>9. CASE PeerCloses
  <2>1. PICK o \in Owners : \E i \in DOMAIN socks[o] :
            socks' = [socks EXCEPT ![o] = SetHealth(@, i, "closed")]
    BY <1>9 DEF PeerCloses
  <2>2. \A i : SetHealth(socks[o], i, "closed") \in Seq(Sock)
    BY SockListType DEF Health
  <2>3. socks' \in [Owners -> Seq(Sock)]
    BY <2>1, <2>2
  <2>4. faults' \in Nat
    BY <1>9 DEF PeerCloses, Fault
  <2>5. QED
    BY <1>9, <2>3, <2>4 DEF PeerCloses
<1>10. QED
  BY <1>3, <1>4, <1>5, <1>6, <1>7, <1>8, <1>9 DEF UserStep

LEMMA TypeStep == TypeOK /\ [Next]_vars => TypeOK'
<1>1. TypeOK /\ UNCHANGED vars => TypeOK'
  BY DEF TypeOK, ThreadTypeOK, DataTypeOK, FlagTypeOK, vars, jobVars, ownVars, datVars, ctlVars
<1>2. QED
  BY <1>1, TypeJobStep, TypeTaskStep, TypeUserStep DEF Next

\* Every reachable state is well typed: chunks, owners and socket lists of the job.
THEOREM TypeCorrect == Spec => []TypeOK
<1>1. QED
  BY TypeInit, TypeStep, PTL DEF Spec

-----------------------------------------------------------------------------
(* A chunk is in one place.  OnePlace is not inductive alone: that         *)
(* init_queue finds no task alive rests on joinAll (Quiet), and what       *)
(* becomes of held rests on where the job thread holds an entry.           *)

Holding  == {"refresh", "owner", "getSock", "goSock", "sockWait", "pool", "launch"}
MayHold  == Holding \cup {"connect", "shake"}
Quiet    == \/ jpc \in {"idle", "starting", "init", "copy"}
            \/ jpc \in {"connect", "shake"} /\ held = {}
HeldInv  == /\ jpc \in Holding => held # {}
            /\ jpc \notin MayHold => held = {}
QuietInv == Quiet => \A w \in Workers : task[w].stage = "idle"
TaskInv  == \A w \in Workers :
               /\ task[w].stage # "idle" => task[w].chunk \in Chunks
               /\ task[w].stage = "written" => task[w].chunk \in written
IInv == TypeOK /\ HeldInv /\ QuietInv /\ TaskInv /\ OnePlace /\ DoneIsWritten /\ PoolHasRoom

LEMMA IInvInit == Init => IInv
<1> SUFFICES ASSUME Init PROVE IInv
  OBVIOUS
<1>1. TypeOK
  BY TypeInit
<1>2. \A w \in Workers : task[w].stage = "idle"
  BY DEF Init, NoTask
<1>3. HeldInv /\ QuietInv /\ TaskInv /\ DoneIsWritten /\ PoolHasRoom
  BY <1>2 DEF Init, HeldInv, Holding, MayHold, QuietInv, TaskInv, DoneIsWritten, PoolHasRoom
<1>4. OnePlace
  BY <1>2 DEF Init, OnePlace, Unreported
<1>5. QED
  BY <1>1, <1>3, <1>4 DEF IInv

\* The steps of the job thread that move no chunk.
LEMMA PlaceMove ==
    ASSUME IInv, TypeOK', UNCHANGED <<queue, held, bitmap, written, task>>,
           HeldInv', QuietInv', PoolHasRoom'
    PROVE  IInv'
  BY DEF IInv, TaskInv, OnePlace, Fetchers, DoneIsWritten

\* An exception of the job thread drops what it holds.
LEMMA PlaceDie ==
    ASSUME IInv, TypeOK', UNCHANGED <<queue, bitmap, written, task>>, Die
    PROVE  IInv'
<1>1. HeldInv' /\ QuietInv' /\ PoolHasRoom'
  BY DEF Die, HeldInv, QuietInv, Quiet, Holding, MayHold, PoolHasRoom
<1>2. OnePlace'
  BY DEF IInv, Die, OnePlace, Fetchers
<1>3. QED
  BY <1>1, <1>2 DEF IInv, TaskInv, DoneIsWritten

LEMMA PlaceRefresh ==
    ASSUME IInv, TypeOK', FindOwners \/ ConnectClient \/ ShakeHand \/ RefreshDone
    PROVE  IInv'
<1> USE DEF IInv, HeldInv, QuietInv, Quiet, Holding, MayHold, PoolHasRoom
<1>1. UNCHANGED <<queue, bitmap, written, task>>
  BY DEF FindOwners, RequestClients, ConnectClient, ShakeHand, RefreshDone, datVars
<1>2. CASE Die
  BY <1>1, <1>2, PlaceDie
<1>3. CASE ~Die
  <2>1. held' = held
    BY <1>3 DEF FindOwners, RequestClients, NewOwners, KeepOwners, Goto, ConnectClient,
                ShakeHand, ShakeOk, ShakeFails, Greeted, RefreshDone
  <2>2. CASE FindOwners
    <3>1. jpc \in {"init", "refresh"} /\ jpc' \in {"connect", AfterRefresh}
      BY <1>3, <2>2 DEF FindOwners, RequestClients, NewOwners, KeepOwners, Goto
    <3>2. QED
      BY <1>1, <2>1, <3>1, PlaceMove DEF AfterRefresh
  <2>3. CASE ConnectClient \/ ShakeHand
    <3>1. jpc \in {"connect", "shake"} /\ jpc' \in {"connect", "shake"}
      BY <1>3, <2>3 DEF ConnectClient, ShakeHand, ShakeOk, ShakeFails, Greeted
    <3>2. QED
      BY <1>1, <2>1, <3>1, PlaceMove
  <2>4. CASE RefreshDone
    <3>1. jpc = "connect" /\ jpc' = AfterRefresh
      BY <2>4 DEF RefreshDone
    <3>2. QED
      BY <1>1, <2>1, <3>1, PlaceMove DEF AfterRefresh
  <2>5. QED
    BY <2>2, <2>3, <2>4
<1>4. QED
  BY <1>2, <1>3

\* The remaining steps of the job thread that leave every chunk where it is.
LEMMA PlaceWalk ==
    ASSUME IInv, TypeOK',
           \/ Begin \/ CheckFlags \/ EnterWait \/ PauseTimeout \/ ChooseOwner
           \/ GetSock \/ AwaitThread \/ Join \/ CopySameFiles
    PROVE  IInv'
<1> USE DEF IInv, HeldInv, QuietInv, Quiet, Holding, MayHold, PoolHasRoom, Goto, datVars
<1>1. CASE Begin
  BY <1>1, PlaceMove DEF Begin
<1>2. CASE CheckFlags
  BY <1>2, PlaceMove DEF CheckFlags
<1>3. CASE EnterWait
  BY <1>3, PlaceMove DEF EnterWait
<1>4. CASE PauseTimeout
  BY <1>4, PlaceDie DEF PauseTimeout
<1>5. CASE ChooseOwner
  BY <1>5, PlaceMove DEF ChooseOwner
<1>6. CASE GetSock
  <2>1. CASE Die
    BY <1>6, <2>1, PlaceDie DEF GetSock
  <2>2. CASE ~Die
    BY <1>6, <2>2, PlaceMove DEF GetSock, GotSock
  <2>3. QED
    BY <2>1, <2>2
<1>7. CASE AwaitThread
  BY <1>7, PlaceMove DEF AwaitThread, Available
<1>8. CASE Join
  BY <1>8, PlaceMove DEF Join, AllJoined
<1>9. CASE CopySameFiles
  BY <1>9, PlaceMove DEF CopySameFiles
<1>10. QED
  BY <1>1, <1>2, <1>3, <1>4, <1>5, <1>6, <1>7, <1>8, <1>9

LEMMA PlaceInitQueue ==
    ASSUME IInv, TypeOK', InitQueue
    PROVE  IInv'
<1>1. HeldInv' /\ QuietInv' /\ PoolHasRoom' /\ TaskInv' /\ DoneIsWritten'
  BY DEF InitQueue, Goto, jobVars, datVars, IInv, HeldInv, QuietInv, Quiet, Holding, MayHold,
         PoolHasRoom, TaskInv, DoneIsWritten
<1>2. \A w \in Workers : task[w].stage = "idle" /\ task' = task
  BY DEF InitQueue, IInv, QuietInv, Quiet
<1>3. held = {} /\ held' = {} /\ bitmap' = bitmap
  BY DEF InitQueue, Goto, jobVars, datVars, IInv, HeldInv, Holding, MayHold
<1>4. OnePlace'
  <2>1. CASE queue' = queue
    BY <2>1, <1>2, <1>3 DEF IInv, OnePlace, Fetchers
  <2>2. CASE queue' = {NewEntry(c, "FREE") : c \in Chunks \ bitmap}
    <3>1. \A c \in Chunks : NewEntry(c, "FREE").chunk = c
      BY NewEntryType DEF IInv, TypeOK, ChunkStatus
    <3>3. \A e \in queue' : e.chunk \in Chunks \ bitmap
      BY <2>2, <3>1
    <3>4. \A e, x \in queue' : e.chunk = x.chunk => e = x
      BY <2>2, <3>1
    <3>5. QED
      BY <1>2, <1>3, <3>3, <3>4 DEF OnePlace, Fetchers, Unreported
  <2>3. QED
    BY <2>1, <2>2 DEF InitQueue, Wanted
<1>5. QED
  BY <1>1, <1>4 DEF IInv

LEMMA PlaceTakeChunk ==
    ASSUME IInv, TypeOK', TakeChunk
    PROVE  IInv'
<1>1. held = {} /\ UNCHANGED <<bitmap, written, task>>
  BY DEF TakeChunk, IInv, HeldInv, Holding, MayHold, datVars
<1>2. HeldInv' /\ QuietInv' /\ PoolHasRoom' /\ TaskInv' /\ DoneIsWritten'
  BY <1>1 DEF TakeChunk, Goto, IInv, HeldInv, QuietInv, Quiet, Holding, MayHold, PoolHasRoom,
              TaskInv, DoneIsWritten
<1>3. CASE queue' = queue /\ held' = held
  BY <1>1, <1>2, <1>3 DEF IInv, OnePlace, Fetchers
<1>4. CASE \E e \in queue : queue' = queue \ {e} /\ held' = {e}
  BY <1>1, <1>2, <1>4 DEF IInv, OnePlace, Fetchers
<1>5. QED
  BY <1>3, <1>4 DEF TakeChunk, Goto, Top

LEMMA PlaceReportNoOwner ==
    ASSUME IInv, TypeOK', ReportNoOwner
    PROVE  IInv'
<1>1. UNCHANGED <<bitmap, written, task>>
  BY DEF ReportNoOwner, datVars
<1>2. CASE UNCHANGED <<jobVars, queue>>
  BY <1>1, <1>2, PlaceMove DEF jobVars, IInv, HeldInv, QuietInv, Quiet, PoolHasRoom
<1>3. CASE \E e \in held : /\ queue' = queue \cup {NewEntry(e.chunk, "NOOWNER")}
                            /\ held' = {} /\ jpc' = "check"
  <2>1. PICK e \in held : /\ queue' = queue \cup {NewEntry(e.chunk, "NOOWNER")}
                          /\ held' = {} /\ jpc' = "check"
    BY <1>3
  <2>2. e.chunk \in Chunks
    BY DEF IInv, TypeOK, ThreadTypeOK, Entry
  <2>3. NewEntry(e.chunk, "NOOWNER").chunk = e.chunk
    BY <2>2, NewEntryType DEF IInv, TypeOK, ChunkStatus
  <2>4. OnePlace'
    BY <1>1, <2>1, <2>3 DEF IInv, OnePlace, Fetchers
  <2>5. QED
    BY <1>1, <2>1, <2>4 DEF IInv, HeldInv, QuietInv, Quiet, Holding, MayHold, PoolHasRoom,
                            TaskInv, DoneIsWritten
<1>4. QED
  BY <1>2, <1>3 DEF ReportNoOwner, Push

LEMMA PlaceLaunch ==
    ASSUME IInv, TypeOK', Launch
    PROVE  IInv'
<1>1. UNCHANGED <<queue, bitmap, written>> /\ held' = {} /\ jpc' = "check"
  BY DEF Launch, datVars
<1>2. PICK e \in held : TRUE
  BY DEF Launch
<1>3. CASE task' = task
  <2>1. OnePlace'
    BY <1>1, <1>3 DEF IInv, OnePlace, Fetchers
  <2>2. QED
    BY <1>1, <1>3, <2>1 DEF IInv, HeldInv, QuietInv, Quiet, Holding, MayHold, PoolHasRoom,
                            TaskInv, DoneIsWritten
<1>4. CASE task' # task
  <2>1. PICK x \in held, w \in Workers :
          /\ task[w].stage = "idle"
          /\ task' = [task EXCEPT ![w] = [stage |-> "request", chunk |-> x.chunk,
                        owner |-> peer, sock |-> sock, left |-> Pieces]]
    BY <1>4 DEF Launch
  <2>2. /\ task'[w].stage = "request" /\ task'[w].chunk = x.chunk
        /\ \A v \in Workers \ {w} : task'[v] = task[v]
    BY <2>1 DEF IInv, TypeOK, DataTypeOK
  <2>3. x.chunk \in Chunks
    BY DEF IInv, TypeOK, ThreadTypeOK, Entry
  <2>4. TaskInv'
    BY <1>1, <2>2, <2>3 DEF IInv, TaskInv
  <2>5. OnePlace'
    <3>1. Fetchers(x.chunk)' = {w}
      BY <2>1, <2>2 DEF IInv, OnePlace, Fetchers, Unreported, Stages
    <3>2. \A c : c # x.chunk => Fetchers(c)' = Fetchers(c)
      BY <2>1, <2>2 DEF Fetchers, Unreported
    <3>3. x.chunk \notin bitmap /\ \A e2 \in queue : e2.chunk # x.chunk
      BY DEF IInv, OnePlace
    <3>4. ASSUME NEW v \in Workers, task'[v].stage \in Unreported
          PROVE  (task[v].chunk \notin bitmap /\ Fetchers(task[v].chunk) = {v})'
      <4>1. CASE v = w
        BY <1>1, <2>2, <3>1, <3>3, <4>1
      <4>2. CASE v # w
        <5>1. task'[v] = task[v] /\ v \in Fetchers(task[v].chunk)
          BY <2>2, <3>4, <4>2 DEF Fetchers
        <5>2. task[v].chunk # x.chunk
          BY <5>1 DEF IInv, OnePlace
        <5>3. task[v].chunk \notin bitmap /\ Fetchers(task[v].chunk) = {v}
          BY <3>4, <5>1 DEF IInv, OnePlace
        <5>4. QED
          BY <1>1, <3>2, <5>1, <5>2, <5>3
      <4>3. QED
        BY <4>1, <4>2
    <3>5. \A e2 \in queue : e2.chunk \notin bitmap /\ Fetchers(e2.chunk)' = {}
      BY <3>2, <3>3 DEF IInv, OnePlace
    <3>6. \A e2, e3 \in queue : e2.chunk = e3.chunk => e2 = e3
      BY DEF IInv, OnePlace
    <3>7. QED
      BY <1>1, <3>4, <3>5, <3>6 DEF OnePlace
  <2>6. QED
    BY <1>1, <2>4, <2>5 DEF IInv, HeldInv, QuietInv, Quiet, Holding, MayHold, PoolHasRoom,
                            DoneIsWritten
<1>5. QED
  BY <1>3, <1>4

\* The steps of a pool thread that change nothing but how far its task is.
Early == Unreported \ {"written"}

LEMMA ProgressMoves ==
    ASSUME IInv, NEW w \in Workers,
           SendRequest(w) \/ Interrupted(w) \/ HoldBack(w) \/ Receive(w) \/ Verify(w)
    PROVE  /\ UNCHANGED <<jobVars, queue, bitmap>> /\ written \subseteq written'
           /\ task[w].stage \in Early /\ task'[w].stage \in Unreported
           /\ task'[w].chunk = task[w].chunk
           /\ task'[w].stage = "written" => task[w].chunk \in written'
           /\ \A v \in Workers \ {w} : task'[v] = task[v]
           /\ \A c : Fetchers(c)' = Fetchers(c)
<1> USE DEF Early
<1>1. /\ UNCHANGED <<jobVars, queue, bitmap>> /\ written \subseteq written'
      /\ task[w].stage \in Early /\ task'[w].stage \in Unreported
      /\ task'[w].chunk = task[w].chunk
      /\ task'[w].stage = "written" => task[w].chunk \in written'
      /\ \A v \in Workers \ {w} : task'[v] = task[v]
  <2> USE DEF IInv, TypeOK, DataTypeOK, Task, NoTask, datVars, Unreported, Stages, Stage
  <2>1. CASE SendRequest(w)
    BY <2>1 DEF SendRequest
  <2>2. CASE Interrupted(w)
    BY <2>2 DEF Interrupted
  <2>3. CASE HoldBack(w)
    BY <2>3 DEF HoldBack
  <2>4. CASE Receive(w)
    <3>1. /\ UNCHANGED <<jobVars, queue, bitmap, written>> /\ task[w].stage = "recv"
          /\ \/ task' = [task EXCEPT ![w].left = @ - 1]
             \/ task' = [task EXCEPT ![w].stage = "thrown"]
      BY <2>4 DEF Receive
    <3>2. task[w] \in [stage : Stages \ {"idle"}, chunk : Chunks, owner : Owners,
                       sock : Nat, left : 0..Pieces]
      BY <3>1
    <3>3. task'[w].chunk = task[w].chunk /\ task'[w].stage \in {"recv", "thrown"}
      BY <3>1, <3>2
    <3>4. QED
      BY <3>1, <3>3
  <2>5. CASE Verify(w)
    BY <2>5 DEF Verify
  <2>6. QED
    BY <2>1, <2>2, <2>3, <2>4, <2>5
<1>2. \A c : Fetchers(c)' = Fetchers(c)
  BY <1>1 DEF Fetchers
<1>3. QED
  BY <1>1, <1>2

LEMMA PlaceProgress ==
    ASSUME IInv, TypeOK', NEW w \in Workers,
           SendRequest(w) \/ Interrupted(w) \/ HoldBack(w) \/ Receive(w) \/ Verify(w)
    PROVE  IInv'
<1>1. /\ UNCHANGED <<jobVars, queue, bitmap>> /\ written \subseteq written'
      /\ task[w].stage \in Early /\ task'[w].stage \in Unreported
      /\ task'[w].chunk = task[w].chunk
      /\ task'[w].stage = "written" => task[w].chunk \in written'
      /\ \A v \in Workers \ {w} : task'[v] = task[v]
  BY ProgressMoves
<1>2. \A c : Fetchers(c)' = Fetchers(c)
  BY ProgressMoves
<1>3. /\ task[w].stage # "idle" /\ task'[w].stage # "idle"
      /\ task[w].stage \in Unreported
  BY <1>1 DEF Unreported, Early
<1>4. OnePlace'
  <2>1. \A e \in queue \cup held : e.chunk \notin bitmap /\ Fetchers(e.chunk)' = {}
    BY <1>2 DEF IInv, OnePlace
  <2>2. ASSUME NEW v \in Workers, task'[v].stage \in Unreported
        PROVE  (task[v].chunk \notin bitmap /\ Fetchers(task[v].chunk) = {v})'
    <3>1. task'[v].chunk = task[v].chunk /\ task[v].stage \in Unreported
      BY <1>1, <1>3, <2>2
    <3>2. task[v].chunk \notin bitmap /\ Fetchers(task[v].chunk) = {v}
      BY <3>1 DEF IInv, OnePlace
    <3>3. QED
      BY <1>1, <1>2, <3>1, <3>2
  <2>3. QED
    BY <1>1, <2>1, <2>2 DEF IInv, OnePlace, jobVars
<1>5. TaskInv' /\ DoneIsWritten'
  BY <1>1, <1>3 DEF IInv, TaskInv, DoneIsWritten
<1>6. HeldInv' /\ QuietInv' /\ PoolHasRoom'
  BY <1>1, <1>3 DEF IInv, HeldInv, QuietInv, Quiet, PoolHasRoom, jobVars
<1>7. QED
  BY <1>4, <1>5, <1>6 DEF IInv

LEMMA PlaceOnFailed ==
    ASSUME IInv, TypeOK', NEW w \in Workers, OnFailed(w)
    PROVE  IInv'
<1>1. UNCHANGED <<jobVars, bitmap, written>> /\ task[w].stage = "thrown"
  BY DEF OnFailed, datVars
<1>2. CASE UNCHANGED <<queue, task>>
  BY <1>1, <1>2, PlaceMove DEF jobVars, IInv, HeldInv, QuietInv, Quiet, PoolHasRoom
<1>3. CASE /\ queue' = queue \cup {NewEntry(task[w].chunk, "FAILED")}
           /\ task' = [task EXCEPT ![w].stage = "reported"]
  <2> DEFINE c == task[w].chunk
             n == NewEntry(c, "FAILED")
  <2>1. c \in Chunks
    BY <1>1 DEF IInv, TaskInv
  <2>2. n.chunk = c
    BY <2>1, NewEntryType DEF IInv, TypeOK, ChunkStatus
  <2>3. /\ task'[w].stage = "reported" /\ task'[w].chunk = c
        /\ \A v \in Workers \ {w} : task'[v] = task[v]
    BY <1>1, <1>3 DEF IInv, TypeOK, DataTypeOK, Task, NoTask
  <2> HIDE DEF n, c
  <2>4. c \notin bitmap /\ Fetchers(c) = {w} /\ \A d : d = c => Fetchers(d)' = {}
    <3>1. task[w].stage \in Unreported
      BY <1>1 DEF Unreported, Stages
    <3>2. c \notin bitmap /\ Fetchers(c) = {w}
      BY <3>1 DEF IInv, OnePlace, c
    <3>3. \A v \in Workers \ {w} : v \notin Fetchers(c)
      BY <3>2
    <3>4. \A d : d = c => /\ w \notin Fetchers(d)'
                         /\ \A v \in Workers \ {w} : v \notin Fetchers(d)'
      BY <2>3, <3>3 DEF Fetchers, Unreported
    <3>5. QED
      BY <3>2, <3>4 DEF Fetchers
  <2>5. \A d : d # c => Fetchers(d)' = Fetchers(d)
    BY <2>3 DEF Fetchers, c
  <2>6. \A e \in queue \cup held : e.chunk # c
    BY <2>4 DEF IInv, OnePlace
  <2>7. \A e \in queue' \cup held : e.chunk \notin bitmap /\ Fetchers(e.chunk)' = {}
    BY <1>3, <2>2, <2>4, <2>5, <2>6 DEF IInv, OnePlace, n, c
  <2>8. \A e, x \in queue' \cup held : x.chunk = e.chunk => x = e
    BY <1>3, <2>2, <2>6 DEF IInv, OnePlace, n, c
  <2>9. queue' \cap held = {}
    BY <1>3, <2>2, <2>6 DEF IInv, OnePlace, n, c
  <2>10. ASSUME NEW v \in Workers, task'[v].stage \in Unreported
         PROVE  (task[v].chunk \notin bitmap /\ Fetchers(task[v].chunk) = {v})'
    <3>1. v # w /\ task'[v] = task[v]
      BY <2>3, <2>10 DEF Unreported
    <3>2. task[v].chunk \notin bitmap /\ Fetchers(task[v].chunk) = {v}
      BY <2>10, <3>1 DEF IInv, OnePlace
    <3>3. QED
      BY <1>1, <2>4, <2>5, <3>1, <3>2
  <2>11. OnePlace'
    BY <1>1, <2>7, <2>8, <2>9, <2>10 DEF OnePlace, jobVars
  <2>12. TaskInv' /\ DoneIsWritten'
    BY <1>1, <2>1, <2>3 DEF IInv, TaskInv, DoneIsWritten
  <2>13. HeldInv' /\ QuietInv' /\ PoolHasRoom'
    BY <1>1, <2>3 DEF IInv, HeldInv, QuietInv, Quiet, PoolHasRoom, jobVars
  <2>14. QED
    BY <2>11, <2>12, <2>13 DEF IInv
<1>4. QED
  BY <1>2, <1>3 DEF OnFailed, Push, Stage

LEMMA PlaceOnFinished ==
    ASSUME IInv, TypeOK', NEW w \in Workers, OnFinished(w)
    PROVE  IInv'
<1> DEFINE c == task[w].chunk
<1>1. /\ UNCHANGED <<held, queue, written>> /\ task[w].stage \in {"written", "reported"}
      /\ bitmap' = IF task[w].stage = "written" THEN bitmap \cup {c} ELSE bitmap
      /\ jpc' = jpc \/ (jpc = "sockWait" /\ jpc' = "getSock")
  BY DEF OnFinished, NotReported
<1>2. /\ task'[w].stage = "finished" /\ task'[w].chunk = c /\ c \in Chunks
      /\ \A v \in Workers \ {w} : task'[v] = task[v]
  BY DEF OnFinished, IInv, TypeOK, DataTypeOK, Task, NoTask
<1> HIDE DEF c
<1>3. \A d : Fetchers(d)' \subseteq Fetchers(d)
  BY <1>2 DEF Fetchers, Unreported
<1>4. task[w].stage = "written" => Fetchers(c) = {w} /\ c \in written
  BY DEF IInv, OnePlace, TaskInv, Unreported, Stages, c
<1>5. \A e \in queue \cup held : e.chunk \notin bitmap' /\ Fetchers(e.chunk)' = {}
  BY <1>1, <1>3, <1>4 DEF IInv, OnePlace
<1>6. ASSUME NEW v \in Workers, task'[v].stage \in Unreported
      PROVE  (task[v].chunk \notin bitmap /\ Fetchers(task[v].chunk) = {v})'
  <2>1. v # w /\ task'[v] = task[v]
    BY <1>2, <1>6 DEF Unreported
  <2>2. task[v].chunk \notin bitmap /\ Fetchers(task[v].chunk) = {v}
    BY <1>6, <2>1 DEF IInv, OnePlace
  <2>3. v \in Fetchers(task[v].chunk)'
    BY <1>6, <2>1 DEF Fetchers
  <2>4. task[v].chunk \notin bitmap'
    BY <1>1, <1>4, <2>1, <2>2
  <2>5. QED
    BY <1>3, <2>1, <2>2, <2>3, <2>4
<1>7. OnePlace'
  BY <1>1, <1>5, <1>6 DEF IInv, OnePlace
<1>8. DoneIsWritten' /\ TaskInv'
  BY <1>1, <1>2, <1>4 DEF IInv, DoneIsWritten, TaskInv
<1>9. HeldInv' /\ QuietInv' /\ PoolHasRoom'
  BY <1>1, <1>2 DEF IInv, HeldInv, QuietInv, Quiet, Holding, MayHold, PoolHasRoom
<1>10. QED
  BY <1>7, <1>8, <1>9 DEF IInv

\* A step that neither puts a task to work nor changes its chunk, and moves no chunk.
LEMMA PlaceCalm ==
    ASSUME IInv, TypeOK', UNCHANGED <<held, queue, bitmap, written>>,
           HeldInv', QuietInv', PoolHasRoom',
           \A v \in Workers :
              \/ task'[v] = task[v]
              \/ task[v].stage = "finished" /\ task'[v].stage = "idle"
              \/ /\ task[v].stage \in {"pauseWait", "limitWait"}
                 /\ task'[v].stage = "recv" /\ task'[v].chunk = task[v].chunk
    PROVE  IInv'
<1>1. \A c : Fetchers(c)' = Fetchers(c)
  BY DEF Fetchers, Unreported, Stages
<1>2. OnePlace'
  <2>1. \A e \in queue \cup held : e.chunk \notin bitmap /\ Fetchers(e.chunk)' = {}
    BY <1>1 DEF IInv, OnePlace
  <2>2. ASSUME NEW v \in Workers, task'[v].stage \in Unreported
        PROVE  (task[v].chunk \notin bitmap /\ Fetchers(task[v].chunk) = {v})'
    <3>1. task'[v].chunk = task[v].chunk /\ task[v].stage \in Unreported
      BY <2>2 DEF Unreported, Stages
    <3>2. task[v].chunk \notin bitmap /\ Fetchers(task[v].chunk) = {v}
      BY <3>1 DEF IInv, OnePlace
    <3>3. QED
      BY <1>1, <3>1, <3>2
  <2>3. QED
    BY <2>1, <2>2 DEF IInv, OnePlace
<1>3. TaskInv' /\ DoneIsWritten'
  BY DEF IInv, TaskInv, DoneIsWritten
<1>4. QED
  BY <1>2, <1>3 DEF IInv

LEMMA PlaceThreadIdle ==
    ASSUME IInv, TypeOK', NEW w \in Workers, ThreadIdle(w)
    PROVE  IInv'
<1>1. /\ UNCHANGED <<jpc, held, queue, bitmap, written>>
      /\ task[w].stage = "finished" /\ task'[w].stage = "idle"
      /\ \A v \in Workers \ {w} : task'[v] = task[v]
  BY DEF ThreadIdle, NoTask, jobVars, datVars, IInv, TypeOK, DataTypeOK
<1>2. HeldInv' /\ QuietInv' /\ PoolHasRoom'
  BY <1>1 DEF IInv, HeldInv, QuietInv, Quiet, PoolHasRoom
<1>3. QED
  BY <1>1, <1>2, PlaceCalm

\* What the user and the surroundings leave alone, and how they wake threads.
LEMMA OutsideMoves ==
    ASSUME IInv, UserStep \/ CollectorTick \/ PeerCloses
    PROVE  /\ UNCHANGED <<held, queue, bitmap, written>>
           /\ \/ jpc' = jpc
              \/ jpc = "idle" /\ jpc' = "starting"
              \/ jpc \in {"stopWait", "pauseWait"} /\ jpc' = "check"
           /\ \A v \in Workers :
                 \/ task'[v] = task[v]
                 \/ /\ task[v].stage \in {"pauseWait", "limitWait"}
                    /\ task'[v].stage = "recv" /\ task'[v].chunk = task[v].chunk
<1>1. /\ UNCHANGED <<held, queue, bitmap, written>>
      /\ \/ jpc' = jpc
         \/ jpc = "idle" /\ jpc' = "starting"
         \/ jpc \in {"stopWait", "pauseWait"} /\ jpc' = "check"
  <2> USE DEF datVars, jobVars, Goto
  <2>1. CASE ResumeJob \/ StartJob
    BY <2>1 DEF ResumeJob, StartJob
  <2>2. CASE StopJob \/ PauseJob \/ RemoveJob
    BY <2>2 DEF StopJob, PauseJob, RemoveJob
  <2>3. CASE CollectorTick \/ PeerCloses
    BY <2>3 DEF CollectorTick, PeerCloses
  <2>4. QED
    BY <2>1, <2>2, <2>3 DEF UserStep
<1>2. \A v \in Workers :
         \/ task'[v] = task[v]
         \/ /\ task[v].stage \in {"pauseWait", "limitWait"}
            /\ task'[v].stage = "recv" /\ task'[v].chunk = task[v].chunk
  <2>1. \A v \in Workers : \A stages \in SUBSET {"pauseWait", "limitWait"} :
           \/ Wake(v, stages) = task[v]
           \/ /\ task[v].stage \in {"pauseWait", "limitWait"}
              /\ Wake(v, stages).stage = "recv" /\ Wake(v, stages).chunk = task[v].chunk
    BY DEF Wake, IInv, TypeOK, DataTypeOK, Task, NoTask
  <2>2. CASE ResumeJob \/ StartJob
    BY <2>1, <2>2 DEF ResumeJob, StartJob, ResumeWithoutLock
  <2>3. CASE RemoveJob \/ CollectorTick
    BY <2>1, <2>3 DEF RemoveJob, CollectorTick
  <2>4. CASE StopJob \/ PauseJob \/ PeerCloses
    BY <2>4 DEF StopJob, PauseJob, PeerCloses
  <2>5. QED
    BY <2>2, <2>3, <2>4 DEF UserStep
<1>3. QED
  BY <1>1, <1>2

LEMMA PlaceOutside ==
    ASSUME IInv, TypeOK', UserStep \/ CollectorTick \/ PeerCloses
    PROVE  IInv'
<1>1. /\ UNCHANGED <<held, queue, bitmap, written>>
      /\ \/ jpc' = jpc
         \/ jpc = "idle" /\ jpc' = "starting"
         \/ jpc \in {"stopWait", "pauseWait"} /\ jpc' = "check"
  BY OutsideMoves
<1>2. \A v \in Workers :
         \/ task'[v] = task[v]
         \/ /\ task[v].stage \in {"pauseWait", "limitWait"}
            /\ task'[v].stage = "recv" /\ task'[v].chunk = task[v].chunk
  BY OutsideMoves
<1>3. \A v \in Workers : task[v].stage = "idle" => task'[v].stage = "idle"
  BY <1>2
<1>4. HeldInv' /\ QuietInv' /\ PoolHasRoom'
  BY <1>1, <1>3 DEF IInv, HeldInv, QuietInv, Quiet, Holding, MayHold, PoolHasRoom
<1>5. QED
  BY <1>1, <1>2, <1>4, PlaceCalm

LEMMA IInvStep == IInv /\ [Next]_vars => IInv'
<1> SUFFICES ASSUME IInv, [Next]_vars PROVE IInv'
  OBVIOUS
<1>1. TypeOK'
  BY TypeStep DEF IInv
<1>2. CASE UNCHANGED vars
  BY <1>1, <1>2, PlaceMove
  DEF vars, jobVars, datVars, IInv, HeldInv, QuietInv, Quiet, PoolHasRoom
<1>3. CASE JobStep
  BY <1>1, <1>3, PlaceRefresh, PlaceWalk, PlaceInitQueue, PlaceTakeChunk, PlaceReportNoOwner,
     PlaceLaunch DEF JobStep
<1>4. CASE \E w \in Workers : TaskStep(w)
  BY <1>1, <1>4, PlaceProgress, PlaceOnFailed, PlaceOnFinished, PlaceThreadIdle DEF TaskStep
<1>5. CASE UserStep \/ CollectorTick \/ PeerCloses
  BY <1>1, <1>5, PlaceOutside
<1>6. QED
  BY <1>2, <1>3, <1>4, <1>5 DEF Next

LEMMA IInvAlways == Spec => []IInv
<1>1. QED
  BY IInvInit, IInvStep, PTL DEF Spec

\* No chunk is queued twice, fetched by two threads, or touched again when it is
\* done, whatever the number of chunks, threads and owners (chunk_selector.cc,
\* Job::onFinished and Job::onFailed).
THEOREM OnePlaceAlways == Spec => []OnePlace
<1>1. IInv => OnePlace
  BY DEF IInv
<1>2. QED
  BY <1>1, IInvAlways, PTL

\* onFinished sets the bit of a chunk only when its verified bytes were written.
THEOREM DoneIsWrittenAlways == Spec => []DoneIsWritten
<1>1. IInv => DoneIsWritten
  BY DEF IInv
<1>2. QED
  BY <1>1, IInvAlways, PTL

\* tm_.start is only reached with a free pool thread.
THEOREM PoolHasRoomAlways == Spec => []PoolHasRoom
<1>1. IInv => PoolHasRoom
  BY DEF IInv
<1>2. QED
  BY <1>1, IInvAlways, PTL
-----------------------------------------------------------------------------
(* The job implements JobLedger: Launch is Fetch, a failed task's report   *)
(* is Fail, the end of a written task is Succeed, and every other step of  *)
(* every thread leaves the ledger as it is.                                *)

LEMMA LedgerSame ==
    ASSUME bitmap' = bitmap, \A c : Fetchers(c)' = Fetchers(c)
    PROVE  ledgerOf' = ledgerOf
BY DEF ledgerOf

LEMMA LedgerInit == ASSUME Init PROVE Ledger!Init
<1>1. \A c : Fetchers(c) = {}
  BY DEF Init, Fetchers, NoTask, Unreported
<1>2. QED
  BY <1>1 DEF Ledger!Init, ledgerOf

\* While a pool thread is idle, fewer chunks than threads are being fetched: each
\* fetched chunk has a thread of its own.
LEMMA FreeSlot ==
    ASSUME IInv, NEW w \in Workers, task[w].stage = "idle"
    PROVE  Cardinality(Ledger!Fetching) < Cardinality(Workers)
<1> DEFINE Busy == {v \in Workers : task[v].stage \in Unreported}
           g    == [v \in Busy |-> task[v].chunk]
<1>1. /\ IsFiniteSet(Workers \ {w})
      /\ Cardinality(Workers \ {w}) = Cardinality(Workers) - 1
  BY SetsAssumption, FS_RemoveElement
<1>2. Busy \in SUBSET (Workers \ {w})
  BY DEF Unreported
<1>3. IsFiniteSet(Busy) /\ Cardinality(Busy) <= Cardinality(Workers \ {w})
  BY <1>1, <1>2, FS_Subset
<1>4. g \in Surjection(Busy, Ledger!Fetching)
  <2>1. ASSUME NEW v \in Busy PROVE task[v].chunk \in Ledger!Fetching
    <3>1. task[v].chunk \in Chunks \ bitmap /\ Fetchers(task[v].chunk) = {v}
      BY DEF IInv, OnePlace, TaskInv, Unreported
    <3>2. QED
      BY <3>1 DEF Ledger!Fetching, ledgerOf
  <2>2. ASSUME NEW c \in Ledger!Fetching PROVE \E v \in Busy : task[v].chunk = c
    <3>1. Fetchers(c) # {}
      BY DEF Ledger!Fetching, ledgerOf
    <3>2. QED
      BY <3>1 DEF Fetchers
  <2>3. QED
    BY <2>1, <2>2 DEF Surjection
<1> HIDE DEF Busy, g
<1>5. IsFiniteSet(Ledger!Fetching) /\ Cardinality(Ledger!Fetching) <= Cardinality(Busy)
  BY <1>3, <1>4, FS_Surjection
<1>6. /\ Cardinality(Ledger!Fetching) \in Nat /\ Cardinality(Busy) \in Nat
      /\ Cardinality(Workers) \in Nat
  BY <1>3, <1>5, SetsAssumption, FS_CardinalityType
<1>7. QED
  BY <1>1, <1>3, <1>5, <1>6

LEMMA LedgerLaunch ==
    ASSUME IInv, TypeOK', Launch
    PROVE  Ledger!Next \/ ledgerOf' = ledgerOf
<1>1. PICK e \in held :
         \/ UNCHANGED task
         \/ \E w \in Workers :
              /\ task[w].stage = "idle"
              /\ task' = [task EXCEPT ![w] = [stage |-> "request", chunk |-> e.chunk,
                              owner |-> peer, sock |-> sock, left |-> Pieces]]
  BY DEF Launch
<1>2. bitmap' = bitmap
  BY DEF Launch, datVars
<1>3. CASE UNCHANGED task
  BY <1>2, <1>3, LedgerSame DEF Fetchers
<1>4. ASSUME NEW w \in Workers, task[w].stage = "idle",
             task' = [task EXCEPT ![w] = [stage |-> "request", chunk |-> e.chunk,
                          owner |-> peer, sock |-> sock, left |-> Pieces]]
      PROVE  Ledger!Next
  <2>1. PICK c \in Chunks : c = e.chunk
    BY DEF IInv, TypeOK, ThreadTypeOK, Entry
  <2>2. /\ task'[w].stage = "request" /\ task'[w].chunk = c
        /\ \A v \in Workers \ {w} : task'[v] = task[v]
    BY <1>4, <2>1 DEF IInv, TypeOK, DataTypeOK
  <2>3. c \notin bitmap /\ Fetchers(c) = {}
    BY <2>1 DEF IInv, OnePlace
  <2>4. w \in Fetchers(c)'
    BY <2>2 DEF Fetchers, Unreported, Stages
  <2>5. \A d : d # c => Fetchers(d)' = Fetchers(d)
    BY <1>4, <2>2 DEF Fetchers, Unreported
  <2>6. ledgerOf[c] = "missing" /\ ledgerOf' = [ledgerOf EXCEPT ![c] = "fetching"]
    <3>1. ledgerOf[c] = "missing" /\ ledgerOf'[c] = "fetching"
      BY <1>2, <2>3, <2>4 DEF ledgerOf
    <3>2. \A d \in Chunks : d # c => ledgerOf'[d] = ledgerOf[d]
      BY <1>2, <2>5 DEF ledgerOf
    <3>3. QED
      BY <3>1, <3>2, LedgerMove
  <2>7. Cardinality(Ledger!Fetching) < Cardinality(Workers)
    BY <1>4, FreeSlot
  <2>8. Ledger!Fetch(c)
    BY <2>6, <2>7 DEF Ledger!Fetch, Ledger!Cardinality, Cardinality
  <2>9. QED
    BY <2>8 DEF Ledger!Next
<1>5. QED
  BY <1>1, <1>3, <1>4

LEMMA LedgerOnFailed ==
    ASSUME IInv, NEW w \in Workers, OnFailed(w)
    PROVE  Ledger!Next \/ ledgerOf' = ledgerOf
<1>1. bitmap' = bitmap /\ task[w].stage = "thrown"
  BY DEF OnFailed, datVars
<1>2. CASE UNCHANGED task
  BY <1>1, <1>2, LedgerSame DEF Fetchers
<1>3. CASE task' = [task EXCEPT ![w].stage = "reported"]
  <2>1. PICK c \in Chunks : c = task[w].chunk
    BY <1>1 DEF IInv, TaskInv
  <2>2. /\ task'[w].stage = "reported" /\ task'[w].chunk = c
        /\ \A v \in Workers \ {w} : task'[v] = task[v]
    BY <1>1, <1>3, <2>1 DEF IInv, TypeOK, DataTypeOK, Task, NoTask
  <2>3. c \notin bitmap /\ Fetchers(c) = {w}
    BY <1>1, <2>1 DEF IInv, OnePlace, Unreported, Stages
  <2>4. \A v \in Workers \ {w} : v \notin Fetchers(c)
    BY <2>3
  <2>5. Fetchers(c)' = {}
    BY <2>2, <2>4 DEF Fetchers, Unreported
  <2>6. \A d : d # c => Fetchers(d)' = Fetchers(d)
    BY <2>1, <2>2 DEF Fetchers
  <2>7. ledgerOf[c] = "fetching" /\ ledgerOf' = [ledgerOf EXCEPT ![c] = "missing"]
    <3>1. ledgerOf[c] = "fetching" /\ ledgerOf'[c] = "missing"
      BY <1>1, <2>3, <2>5 DEF ledgerOf
    <3>2. \A d \in Chunks : d # c => ledgerOf'[d] = ledgerOf[d]
      BY <1>1, <2>6 DEF ledgerOf
    <3>3. QED
      BY <3>1, <3>2, LedgerMove
  <2>8. QED
    BY <2>7 DEF Ledger!Next, Ledger!Fail
<1>4. QED
  BY <1>2, <1>3 DEF OnFailed, Stage

LEMMA LedgerOnFinished ==
    ASSUME IInv, NEW w \in Workers, OnFinished(w)
    PROVE  Ledger!Next \/ ledgerOf' = ledgerOf
<1>1. task[w].stage \in {"written", "reported"}
  BY DEF OnFinished
<1>2. PICK c \in Chunks : c = task[w].chunk
  BY <1>1 DEF IInv, TaskInv
<1>3. bitmap' = IF task[w].stage = "written" THEN bitmap \cup {c} ELSE bitmap
  BY <1>2 DEF OnFinished, NotReported
<1>4. /\ task'[w].stage = "finished" /\ task'[w].chunk = c
      /\ \A v \in Workers \ {w} : task'[v] = task[v]
  BY <1>1, <1>2 DEF OnFinished, IInv, TypeOK, DataTypeOK, Task, NoTask
<1>5. CASE task[w].stage = "reported"
  <2>1. \A d : Fetchers(d)' = Fetchers(d)
    BY <1>4, <1>5 DEF Fetchers, Unreported
  <2>2. QED
    BY <1>3, <1>5, <2>1, LedgerSame
<1>6. CASE task[w].stage = "written"
  <2>1. c \notin bitmap /\ Fetchers(c) = {w}
    BY <1>2, <1>6 DEF IInv, OnePlace, Unreported, Stages
  <2>2. \A d : d # c => Fetchers(d)' = Fetchers(d)
    BY <1>2, <1>4 DEF Fetchers
  <2>3. ledgerOf[c] = "fetching" /\ ledgerOf' = [ledgerOf EXCEPT ![c] = "done"]
    BY <1>3, <1>6, <2>1, <2>2 DEF ledgerOf
  <2>4. QED
    BY <2>3 DEF Ledger!Next, Ledger!Succeed
<1>7. QED
  BY <1>1, <1>5, <1>6

LEMMA LedgerStep == ASSUME IInv, [Next]_vars PROVE Ledger!Next \/ ledgerOf' = ledgerOf
<1>1. TypeOK'
  BY TypeStep DEF IInv
<1>2. CASE UNCHANGED vars
  BY <1>2, LedgerSame DEF vars, datVars, Fetchers
<1>3. CASE JobStep
  <2>1. CASE Launch
    BY <1>1, <2>1, LedgerLaunch
  <2>2. CASE JobStep /\ ~Launch
    <3>1. UNCHANGED <<task, bitmap>>
      BY <2>2 DEF JobStep, Begin, FindOwners, RequestClients, ConnectClient, ShakeHand,
         RefreshDone, InitQueue, CheckFlags, EnterWait, PauseTimeout, TakeChunk,
         ReportNoOwner, ChooseOwner, GetSock, AwaitThread, Join, CopySameFiles, datVars
    <3>2. QED
      BY <3>1, LedgerSame DEF Fetchers
  <2>3. QED
    BY <1>3, <2>1, <2>2
<1>4. ASSUME NEW w \in Workers, TaskStep(w) PROVE Ledger!Next \/ ledgerOf' = ledgerOf
  <2>1. CASE SendRequest(w) \/ Interrupted(w) \/ HoldBack(w) \/ Receive(w) \/ Verify(w)
    BY <2>1, ProgressMoves, LedgerSame
  <2>2. CASE OnFailed(w) \/ OnFinished(w)
    BY <2>2, LedgerOnFailed, LedgerOnFinished
  <2>3. CASE ThreadIdle(w)
    <3>1. /\ bitmap' = bitmap /\ task[w].stage = "finished" /\ task'[w].stage = "idle"
          /\ \A v \in Workers \ {w} : task'[v] = task[v]
      BY <2>3 DEF ThreadIdle, NoTask, datVars, IInv, TypeOK, DataTypeOK
    <3>2. \A c : Fetchers(c)' = Fetchers(c)
      BY <3>1 DEF Fetchers, Unreported
    <3>3. QED
      BY <3>1, <3>2, LedgerSame
  <2>4. QED
    BY <1>4, <2>1, <2>2, <2>3 DEF TaskStep
<1>5. CASE UserStep \/ CollectorTick \/ PeerCloses
  <2>1. \A c : Fetchers(c)' = Fetchers(c)
    BY <1>5, OutsideMoves DEF Fetchers, Unreported, Stages
  <2>2. QED
    BY <1>5, <2>1, OutsideMoves, LedgerSame
<1>6. QED
  BY <1>2, <1>3, <1>4, <1>5 DEF Next

\* Whatever the threads, failures and the user do, the job only moves chunks the
\* way JobLedger allows: one fetch of a chunk at a time, no more fetches than pool
\* threads, a failed fetch makes its chunk missing again, and done is for ever.
THEOREM LedgerImplemented == Spec => LedgerSpec
<1>1. Init => Ledger!Init
  BY LedgerInit
<1>2. IInv /\ [Next]_vars => [Ledger!Next]_ledgerOf
  BY LedgerStep
<1>3. QED
  BY <1>1, <1>2, IInvAlways, PTL DEF Spec, LedgerSpec, Ledger!Spec
=============================================================================
