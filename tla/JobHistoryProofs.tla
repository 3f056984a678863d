-------------------------- MODULE JobHistoryProofs --------------------------
(***************************************************************************)
(* The bitmaps of the jobs, for any number of torrents, files, chunks and  *)
(* lives of the process.                                                   *)
(***************************************************************************)
EXTENDS JobHistory, SequenceTheorems, TLAPS

\* The part of the type that the bitmaps depend on.
BitTypes ==
    /\ torrentAt \in [Paths -> Torrents \cup {NoTorrent}]
    /\ written \in [Files -> SUBSET Chunks]
    /\ jobs \in Seq(Torrents)
    /\ torrent_path \in [Torrents -> Paths] /\ bitmap_map \in [Torrents -> Bitmap]
    /\ history \in Seq(HistoryEntry) /\ entries \in Seq(HistoryEntry)

\* Every bit of a bitmap stands for bytes on the disk, or for a file that was offered
\* without a look at the disk.
Backed(b) == \A f \in DOMAIN b \ unchecked : b[f] \subseteq written[f]
BackedList(list) == \A i \in DOMAIN list : Backed(list[i].bits)

\* The bitmaps of removed jobs are backed as well, and so are those of the history
\* that a reload has still to take over.
IInv ==
    /\ BitTypes
    /\ \A t \in Torrents : Backed(bitmap_map[t])
    /\ BackedList(history) /\ BackedList(entries)

USE SetsAssumption

\* A bitmap has sets of chunks for some of the files.
LEMMA BitmapDomain ==
    ASSUME NEW b \in Bitmap
    PROVE  /\ DOMAIN b \subseteq Files
           /\ \A f \in DOMAIN b : b[f] \subseteq Chunks
           /\ b \in [DOMAIN b -> SUBSET Chunks]
<1>1. PICK fs \in SUBSET Files : b \in [fs -> SUBSET Chunks]
  BY DEF Bitmap
<1>2. QED
  BY <1>1

LEMMA IsBitmap ==
    ASSUME NEW fs \in SUBSET Files, NEW b \in [fs -> SUBSET Chunks]
    PROVE  b \in Bitmap
  BY DEF Bitmap

LEMMA InitInv == Init => IInv
<1> SUFFICES ASSUME Init
             PROVE  IInv
  OBVIOUS
<1>1. NoBitmaps \in Bitmap /\ DOMAIN NoBitmaps = {}
  <2>1. NoBitmaps \in [{} -> SUBSET Chunks]
    BY DEF NoBitmaps
  <2>2. QED
    BY <2>1, IsBitmap
<1>2. BitTypes
  BY <1>1 DEF Init, BitTypes
<1>3. QED
  BY <1>1, <1>2 DEF Init, IInv, Backed, BackedList

\* Steps that change no bitmap, no list of entries and no file.
LEMMA QuietInv ==
    ASSUME IInv, UNCHANGED <<written, unchecked, bitmap_map, torrent_path, history, entries>>,
           torrentAt' \in [Paths -> Torrents \cup {NoTorrent}], jobs' \in Seq(Torrents)
    PROVE  IInv'
  BY DEF IInv, BitTypes, Backed, BackedList

\* Steps that write chunks.
LEMMA WriteInv ==
    ASSUME IInv, UNCHANGED <<unchecked, bitmap_map, torrent_path, history, entries, jobs>>,
           torrentAt' \in [Paths -> Torrents \cup {NoTorrent}],
           written' \in [Files -> SUBSET Chunks],
           \A f \in Files : written[f] \subseteq written'[f]
    PROVE  IInv'
<1>1. BitTypes'
  BY DEF IInv, BitTypes
<1>2. ASSUME NEW t \in Torrents
      PROVE  Backed(bitmap_map[t])'
  <2>1. bitmap_map[t] \in Bitmap /\ Backed(bitmap_map[t])
    BY DEF IInv, BitTypes
  <2>2. \A f \in DOMAIN bitmap_map[t] \ unchecked :
           f \in Files /\ bitmap_map[t][f] \subseteq written[f]
    BY <2>1, BitmapDomain DEF Backed
  <2>3. QED
    BY <2>2 DEF Backed
<1>3. ASSUME NEW list \in Seq(HistoryEntry), BackedList(list), NEW i \in DOMAIN list
      PROVE  \A f \in DOMAIN list[i].bits \ unchecked : list[i].bits[f] \subseteq written'[f]
  <2>1. list[i] \in HistoryEntry
    OBVIOUS
  <2>2. list[i].bits \in Bitmap /\ Backed(list[i].bits)
    BY <1>3, <2>1 DEF BackedList, HistoryEntry
  <2>3. QED
    BY <2>2, BitmapDomain DEF Backed
<1>4. BackedList(history)' /\ BackedList(entries)'
  BY <1>3 DEF IInv, BitTypes, BackedList, Backed
<1>5. QED
  BY <1>1, <1>2, <1>4 DEF IInv

\* A job that comes with bitmaps that are backed.
LEMMA NewJobInv ==
    ASSUME IInv, NEW t \in Torrents, NEW p \in Paths, NEW b \in Bitmap,
           unchecked \subseteq unchecked', \A f \in DOMAIN b \ unchecked' : b[f] \subseteq written[f],
           AddNewJob(t, p, b), UNCHANGED <<torrentAt, written, history>>,
           entries' \in Seq(HistoryEntry), BackedList(entries')
    PROVE  IInv'
<1>1. /\ jobs' = Append(jobs, t) /\ torrent_path' = [torrent_path EXCEPT ![t] = p]
      /\ bitmap_map' = [bitmap_map EXCEPT ![t] = b]
  BY DEF AddNewJob
<1>2. BitTypes'
  BY <1>1 DEF IInv, BitTypes
<1>3. \A u \in Torrents : bitmap_map'[u] = b \/ bitmap_map'[u] = bitmap_map[u]
  BY <1>1 DEF IInv, BitTypes
<1>4. \A u \in Torrents : Backed(bitmap_map[u])'
  BY <1>3 DEF IInv, Backed
<1>5. BackedList(history)' /\ BackedList(entries)'
  BY DEF IInv, BackedList, Backed
<1>6. QED
  BY <1>2, <1>4, <1>5 DEF IInv

LEMMA AddInv ==
    ASSUME IInv, NEW t \in Torrents, NEW p \in Paths, NEW fs \in SUBSET FilesOf[t],
           NEW b \in [fs -> SUBSET Chunks], Add(t, p, b),
           unchecked \subseteq unchecked', \A f \in DOMAIN b \ unchecked' : b[f] \subseteq written[f]
    PROVE  IInv'
<1>1. b \in Bitmap
  BY IsBitmap DEF Files
<1>2. /\ AddNewJob(t, p, b) /\ UNCHANGED <<torrentAt, written, history>>
      /\ entries' = entries
  BY DEF Add, diskVars
<1>3. entries' \in Seq(HistoryEntry) /\ BackedList(entries')
  BY <1>2 DEF IInv, BitTypes
<1>4. QED
  BY <1>1, <1>2, <1>3, NewJobInv

LEMMA DownloadJobInv ==
    ASSUME IInv, NEW t \in Torrents, NEW p \in Paths, AddNewDownloadJob(t, p)
    PROVE  IInv'
<1>1. PICK needs \in Needs(t) : Add(t, p, EmptyBitmaps(needs)) /\ unchecked' = unchecked
  BY DEF AddNewDownloadJob
<1>2. needs \in SUBSET FilesOf[t]
  BY DEF Needs
<1>3. /\ EmptyBitmaps(needs) \in [needs -> SUBSET Chunks]
      /\ \A f \in DOMAIN EmptyBitmaps(needs) : EmptyBitmaps(needs)[f] \subseteq written[f]
  BY DEF EmptyBitmaps
<1>4. QED
  BY <1>1, <1>2, <1>3, AddInv

LEMMA UploadJobInv ==
    ASSUME IInv, NEW t \in Torrents, NEW p \in Paths, AddNewUploadJob(t, p)
    PROVE  IInv'
<1>1. /\ Add(t, p, FullBitmaps(FilesOf[t]))
      /\ unchecked' = unchecked \cup {f \in FilesOf[t] : written[f] # Chunks}
  BY DEF AddNewUploadJob
<1>2. /\ FullBitmaps(FilesOf[t]) \in [FilesOf[t] -> SUBSET Chunks]
      /\ \A f \in FilesOf[t] : FullBitmaps(FilesOf[t])[f] = Chunks
  BY DEF FullBitmaps
<1>3. \A f \in FilesOf[t] \ unchecked' : FullBitmaps(FilesOf[t])[f] \subseteq written[f]
  BY <1>1, <1>2
<1>4. QED
  BY <1>1, <1>2, <1>3, AddInv

LEMMA MakeTorrentInv ==
    ASSUME IInv, NEW t \in Torrents, NEW p \in Paths, MakeTorrent(t, p)
    PROVE  IInv'
<1>1. UNCHANGED <<unchecked, bitmap_map, torrent_path, history, entries, jobs>>
  BY DEF MakeTorrent, memVars, adds
<1>2. torrentAt' \in [Paths -> Torrents \cup {NoTorrent}]
  BY DEF MakeTorrent, Writes, IInv, BitTypes
<1>3. written' \in [Files -> SUBSET Chunks] /\ \A f \in Files : written[f] \subseteq written'[f]
  BY DEF MakeTorrent, IInv, BitTypes
<1>4. QED
  BY <1>1, <1>2, <1>3, WriteInv

LEMMA DeleteTorrentInv ==
    ASSUME IInv, NEW p \in Paths, DeleteTorrent(p)
    PROVE  IInv'
  BY QuietInv DEF DeleteTorrent, Writes, memVars, adds, IInv, BitTypes

LEMMA RemoveJobInv ==
    ASSUME IInv, NEW t \in Torrents, RemoveJob(t)
    PROVE  IInv'
<1>1. PICK i \in DOMAIN jobs : jobs' = RemoveAt(jobs, i)
  BY DEF RemoveJob
<1>2. jobs' \in Seq(Torrents)
  BY <1>1 DEF IInv, BitTypes, RemoveAt
<1>3. QED
  BY <1>2, QuietInv DEF RemoveJob, diskVars, adds, IInv, BitTypes

LEMMA WriteChunkInv ==
    ASSUME IInv, NEW t \in Torrents, NEW f \in Files, NEW c \in Chunks, WriteChunk(t, f, c)
    PROVE  IInv'
  BY WriteInv DEF WriteChunk, memVars, adds, IInv, BitTypes

LEMMA SetBitInv ==
    ASSUME IInv, NEW t \in Torrents, NEW f \in Files, NEW c \in Chunks, SetBit(t, f, c)
    PROVE  IInv'
<1> DEFINE b == [bitmap_map[t] EXCEPT ![f] = @ \cup {c}]
<1>1. /\ f \in DOMAIN bitmap_map[t] /\ c \in written[f]
      /\ bitmap_map' = [bitmap_map EXCEPT ![t] = b]
      /\ UNCHANGED <<torrentAt, written, unchecked, history, jobs, torrent_path, entries>>
  BY DEF SetBit, Downloads, diskVars, adds
<1>2. bitmap_map[t] \in Bitmap /\ Backed(bitmap_map[t])
  BY DEF IInv, BitTypes
<1>3. b \in [DOMAIN bitmap_map[t] -> SUBSET Chunks] /\ DOMAIN bitmap_map[t] \subseteq Files
  BY <1>2, BitmapDomain
<1>4. b \in Bitmap
  BY <1>3, IsBitmap
<1>5. Backed(b)
  BY <1>1, <1>2 DEF Backed
<1> HIDE DEF b
<1>6. BitTypes'
  BY <1>1, <1>4 DEF IInv, BitTypes
<1>7. \A u \in Torrents : bitmap_map'[u] = b \/ bitmap_map'[u] = bitmap_map[u]
  BY <1>1 DEF IInv, BitTypes
<1>8. \A u \in Torrents : Backed(bitmap_map[u])'
  BY <1>1, <1>5, <1>7 DEF IInv, Backed
<1>9. QED
  BY <1>1, <1>6, <1>8 DEF IInv, BackedList, Backed
-----------------------------------------------------------------------------
(* The history file is written and read.                                   *)

\* A start and a save put a list of backed entries in the place of another.
LEMMA ListInv ==
    ASSUME IInv, UNCHANGED <<torrentAt, written, unchecked, torrent_path, bitmap_map>>,
           jobs' \in Seq(Torrents),
           history' \in Seq(HistoryEntry), BackedList(history'),
           entries' \in Seq(HistoryEntry), BackedList(entries')
    PROVE  IInv'
  BY DEF IInv, BitTypes, Backed, BackedList

LEMMA EmptyList == << >> \in Seq(HistoryEntry) /\ BackedList(<< >>)
  BY DEF BackedList

\* What is saved of a job is backed as its bitmaps are.
LEMMA SavedInv ==
    ASSUME IInv, \A t \in Listed : HasBitmaps(t)
    PROVE  Saved \in Seq(HistoryEntry) /\ BackedList(Saved)
<1>2. ASSUME NEW i \in DOMAIN jobs
      PROVE  /\ JobHistoryInfo(jobs[i]) \in HistoryEntry
             /\ Backed(JobHistoryInfo(jobs[i]).bits)
  <2>1. jobs[i] \in Torrents /\ jobs[i] \in Listed
    BY DEF IInv, BitTypes, Listed, Range
  <2> DEFINE t == jobs[i]
             bits == [f \in FilesOf[t] |-> bitmap_map[t][f]]
  <2>2. /\ bitmap_map[t] \in Bitmap /\ Backed(bitmap_map[t])
        /\ FilesOf[t] \subseteq DOMAIN bitmap_map[t]
    BY <2>1 DEF IInv, BitTypes, HasBitmaps
  <2>3. FilesOf[t] \in SUBSET Files
    BY <2>1 DEF Files
  <2>4. bits \in [FilesOf[t] -> SUBSET Chunks]
    BY <2>2, BitmapDomain
  <2>5. bits \in Bitmap
    BY <2>3, <2>4, IsBitmap
  <2>6. Backed(bits)
    BY <2>2 DEF Backed
  <2>7. JobHistoryInfo(t) = [path |-> torrent_path[t], torrent |-> t, bits |-> bits]
    BY DEF JobHistoryInfo
  <2> HIDE DEF bits
  <2>8. QED
    BY <2>1, <2>5, <2>6, <2>7 DEF HistoryEntry, IInv, BitTypes
<1>3. DOMAIN jobs = 1..Len(jobs) /\ Len(jobs) \in Nat
  BY DEF IInv, BitTypes
<1>4. Saved \in Seq(HistoryEntry) /\ BackedList(Saved)
  BY <1>2, <1>3 DEF Saved, BackedList
<1>5. QED
  BY <1>4

LEMMA SerializeInv == ASSUME IInv, Serialize \/ SerializeFails PROVE IInv'
<1>1. /\ \A t \in Listed : HasBitmaps(t)
      /\ UNCHANGED <<torrentAt, written, unchecked, torrent_path, bitmap_map, jobs, entries>>
  BY DEF Serialize, SerializeFails, memVars, adds
<1>2. Saved \in Seq(HistoryEntry) /\ BackedList(Saved) /\ Len(Saved) \in Nat
      /\ jobs \in Seq(Torrents)
  BY <1>1, SavedInv DEF IInv, BitTypes
<1>3. history' \in Seq(HistoryEntry) /\ BackedList(history')
  <2>1. CASE Serialize
    BY <1>2, <2>1 DEF Serialize
  <2>2. CASE SerializeFails
    <3>1. PICK n \in 0..(Len(jobs) - 1) : history' = SubSeq(Saved, 1, n)
      BY <2>2 DEF SerializeFails
    <3>2. Len(jobs) \in Nat /\ DOMAIN jobs = 1..Len(jobs) /\ DOMAIN Saved = DOMAIN jobs
      BY <1>2 DEF Saved
    <3>3. Len(Saved) = Len(jobs) /\ DOMAIN Saved = 1..Len(Saved)
      BY <1>2, <3>2
    <3>4. /\ history' \in Seq(HistoryEntry) /\ DOMAIN history' = 1..n
          /\ \A i \in 1..n : i \in DOMAIN Saved /\ history'[i] = Saved[i]
      BY <1>2, <3>1, <3>2, <3>3
    <3>5. QED
      BY <1>2, <3>4 DEF BackedList
  <2>3. QED
    BY <2>1, <2>2
<1>4. QED
  BY <1>1, <1>3, ListInv DEF IInv, BitTypes

\* The next entry is backed, and so is the rest.
LEMMA HeadAndTail ==
    ASSUME IInv, entries # << >>
    PROVE  /\ Head(entries) \in HistoryEntry /\ Backed(Head(entries).bits)
           /\ Tail(entries) \in Seq(HistoryEntry) /\ BackedList(Tail(entries))
<1>1. entries \in Seq(HistoryEntry) /\ BackedList(entries)
  BY DEF IInv, BitTypes
<1>2. Len(entries) \in Nat /\ Len(entries) > 0 /\ DOMAIN entries = 1..Len(entries)
  BY <1>1
<1>3. Head(entries) = entries[1] /\ entries[1] \in HistoryEntry /\ 1 \in DOMAIN entries
  BY <1>1, <1>2
<1>4. /\ Tail(entries) \in Seq(HistoryEntry)
      /\ \A i \in DOMAIN Tail(entries) : i + 1 \in DOMAIN entries
                                        /\ Tail(entries)[i] = entries[i + 1]
  BY <1>1, <1>2
<1>5. QED
  BY <1>1, <1>3, <1>4 DEF BackedList

LEMMA ReloadOneJobInv == ASSUME IInv, ReloadOneJob PROVE IInv'
<1> DEFINE e == Head(entries)
           t == torrentAt[e.path]
           b == ReloadedBitmaps(t, e)
<1>1. /\ entries # << >> /\ t # NoTorrent /\ AddNewJob(t, e.path, b)
      /\ entries' = Tail(entries) /\ UNCHANGED <<torrentAt, written, unchecked, history>>
  BY DEF ReloadOneJob, diskVars, adds
<1>2. e \in HistoryEntry /\ Backed(e.bits) /\ BackedList(entries')
      /\ entries' \in Seq(HistoryEntry)
  BY <1>1, HeadAndTail
<1>3. e.path \in Paths /\ e.bits \in Bitmap
  BY <1>2 DEF HistoryEntry
<1>4. t \in Torrents
  BY <1>1, <1>3 DEF IInv, BitTypes
<1>5. b = e.bits
  BY <1>3, BitmapDomain DEF ReloadedBitmaps, ReloadedBits
<1> HIDE DEF e, t, b
<1>6. \A f \in DOMAIN b \ unchecked' : b[f] \subseteq written[f]
  BY <1>1, <1>2, <1>5 DEF Backed
<1>7. QED
  BY <1>1, <1>2, <1>3, <1>4, <1>5, <1>6, NewJobInv
-----------------------------------------------------------------------------
LEMMA NextInv == IInv /\ [Next]_vars => IInv'
<1> SUFFICES ASSUME IInv, [Next]_vars
             PROVE  IInv'
  OBVIOUS
<1>1. CASE JobStep
  BY <1>1, DownloadJobInv, UploadJobInv, MakeTorrentInv, DeleteTorrentInv, RemoveJobInv,
     WriteChunkInv, SetBitInv DEF JobStep, Files
<1> USE DEF adds
<1>2. CASE Open
  BY <1>2, EmptyList, ListInv DEF Open, memVars, IInv, BitTypes
<1>3. CASE Serialize \/ SerializeFails
  BY <1>3, SerializeInv
<1>4. CASE SaveFails \/ Crash \/ OpenFails
  BY <1>4, QuietInv DEF SaveFails, Crash, OpenFails, Ends, diskVars, memVars, IInv, BitTypes
<1>5. CASE Start
  BY <1>5, EmptyList, ListInv DEF Start, diskVars, IInv, BitTypes
<1>6. CASE LoginFails \/ AssertFails \/ ReloadFails
  BY <1>6, QuietInv DEF LoginFails, AssertFails, ReloadFails, diskVars, memVars, IInv, BitTypes
<1>7. CASE ReloadJobHistory
  BY <1>7, ListInv DEF ReloadJobHistory, diskVars, memVars, IInv, BitTypes
<1>8. CASE SkipJob
  BY <1>8, HeadAndTail, ListInv DEF SkipJob, AfterContinue, diskVars, memVars, IInv, BitTypes
<1>9. CASE ReloadOneJob
  BY <1>9, ReloadOneJobInv
<1>10. CASE Reloaded
  BY <1>10, QuietInv DEF Reloaded, diskVars, memVars, IInv, BitTypes
<1>11. CASE UNCHANGED vars
  BY <1>11, QuietInv DEF vars, diskVars, memVars, IInv, BitTypes
<1>12. QED
  BY <1>1, <1>2, <1>3, <1>4, <1>5, <1>6, <1>7, <1>8, <1>9, <1>10, <1>11 DEF Next

LEMMA InvImplies == IInv => BitsAreBytes
<1> SUFFICES ASSUME IInv
             PROVE  BitsAreBytes
  OBVIOUS
<1>1. Listed \subseteq Torrents
  BY DEF IInv, BitTypes, Listed, Range
<1>2. QED
  BY <1>1 DEF IInv, BitsAreBytes, Backed, BackedList

\* Through crashes, restarts, failed saves and torrent files that change: a bit that is
\* set, in memory or in the history file, stands for bytes that are on the disk, unless its
\* file was offered by AddNewUploadJob when it was not there.
THEOREM BitsAreBytesAlways == Spec => []BitsAreBytes
  BY InitInv, NextInv, InvImplies, PTL DEF Spec
-----------------------------------------------------------------------------
(* The list of jobs.                                                       *)

\* The list without one of its elements.
LEMMA RemoveAtList ==
    ASSUME NEW S, NEW s \in Seq(S), NEW i \in DOMAIN s
    PROVE  LET q == RemoveAt(s, i) IN
           /\ q \in Seq(S) /\ DOMAIN q = 1..(Len(s) - 1)
           /\ \A j \in DOMAIN q : LET k == IF j < i THEN j ELSE j + 1 IN
                 k \in DOMAIN s /\ k # i /\ q[j] = s[k]
           /\ \A k \in DOMAIN s \ {i} : \E j \in DOMAIN q : q[j] = s[k]
<1> DEFINE q == RemoveAt(s, i)
           a == SubSeq(s, 1, i - 1)
           b == SubSeq(s, i + 1, Len(s))
<1>1. Len(s) \in Nat /\ i \in 1..Len(s) /\ DOMAIN s = 1..Len(s)
  OBVIOUS
<1>2. /\ a \in Seq(S) /\ Len(a) = i - 1 /\ \A j \in 1..(i - 1) : a[j] = s[j]
  BY <1>1
<1>3. /\ b \in Seq(S) /\ Len(b) = Len(s) - i /\ \A j \in 1..(Len(s) - i) : b[j] = s[i + j]
  BY <1>1
<1>4. q = a \o b
  BY DEF RemoveAt
<1> HIDE DEF a, b, q
<1>5. /\ q \in Seq(S) /\ Len(q) = Len(s) - 1 /\ DOMAIN q = 1..(Len(s) - 1)
      /\ \A j \in 1..(Len(s) - 1) : q[j] = IF j < i THEN a[j] ELSE b[j - (i - 1)]
  <2>1. /\ Len(q) = Len(a) + Len(b) /\ q \in Seq(S)
        /\ \A j \in 1..(Len(a) + Len(b)) : q[j] = IF j <= Len(a) THEN a[j] ELSE b[j - Len(a)]
    BY <1>2, <1>3, <1>4, ConcatProperties
  <2>2. Len(a) + Len(b) = Len(s) - 1 /\ DOMAIN q = 1..Len(q)
    BY <1>1, <1>2, <1>3, <2>1
  <2>3. ASSUME NEW j \in 1..(Len(s) - 1)
        PROVE  q[j] = IF j < i THEN a[j] ELSE b[j - (i - 1)]
    <3>1. j <= Len(a) <=> j < i
      BY <1>1, <1>2, <2>3
    <3>2. QED
      BY <1>2, <2>1, <2>2, <2>3, <3>1
  <2>4. QED
    BY <2>1, <2>2, <2>3
<1>6. \A j \in DOMAIN q : LET k == IF j < i THEN j ELSE j + 1 IN
         k \in DOMAIN s /\ k # i /\ q[j] = s[k]
  <2>1. TAKE j \in DOMAIN q
  <2>2. CASE j < i
    BY <1>1, <1>2, <1>5, <2>1, <2>2
  <2>3. CASE ~(j < i)
    <3>1. j - (i - 1) \in 1..(Len(s) - i) /\ i + (j - (i - 1)) = j + 1
      BY <1>1, <1>5, <2>1, <2>3
    <3>2. q[j] = b[j - (i - 1)]
      BY <1>5, <2>1, <2>3
    <3>3. b[j - (i - 1)] = s[j + 1]
      BY <1>3, <3>1
    <3>4. QED
      BY <1>1, <1>5, <2>1, <2>3, <3>2, <3>3
  <2>4. QED
    BY <2>2, <2>3
<1>7. \A k \in DOMAIN s \ {i} : \E j \in DOMAIN q : q[j] = s[k]
  <2>1. TAKE k \in DOMAIN s \ {i}
  <2> DEFINE j == IF k < i THEN k ELSE k - 1
  <2>2. j \in DOMAIN q /\ (IF j < i THEN j ELSE j + 1) = k
    BY <1>1, <1>5, <2>1
  <2>3. QED
    BY <1>6, <2>2
<1>8. QED
  BY <1>5, <1>6, <1>7 DEF q

JobTypes ==
    /\ pc \in {"down", "login", "reloading", "up", "ending", "saving", "failed"}
    /\ Listed \subseteq torrent_ids_ /\ torrent_ids_ \subseteq Torrents
    /\ \A i, j \in DOMAIN jobs : jobs[i] = jobs[j] => i = j
    /\ mine \subseteq Torrents /\ unchecked \subseteq Files
    /\ added \in 0..MaxJobs /\ ends \in 0..MaxEnds
    /\ pc \notin {"down", "failed"} => ends < MaxEnds

\* A job that was added, or one that was removed: what is listed, and each of it once.
LEMMA NewJobListed ==
    ASSUME IInv, JobTypes, NEW t \in Torrents, NEW p \in Paths, NEW b, ~HasThisTorrent(t),
           AddNewJob(t, p, b)
    PROVE  /\ Listed' = Listed \cup {t} /\ t \notin Listed
           /\ torrent_ids_' = torrent_ids_ \cup {t}
           /\ \A i, j \in DOMAIN jobs' : jobs'[i] = jobs'[j] => i = j
<1>1. /\ jobs \in Seq(Torrents) /\ jobs' = Append(jobs, t) /\ t \notin torrent_ids_
      /\ torrent_ids_' = torrent_ids_ \cup {t}
  BY DEF AddNewJob, HasThisTorrent, IInv, BitTypes
<1>2. /\ Len(jobs) \in Nat /\ DOMAIN jobs = 1..Len(jobs) /\ DOMAIN jobs' = 1..(Len(jobs) + 1)
      /\ jobs'[Len(jobs) + 1] = t /\ \A i \in 1..Len(jobs) : jobs'[i] = jobs[i]
  BY <1>1
<1>3. t \notin Listed
  BY <1>1 DEF JobTypes
<1>4. \A i \in DOMAIN jobs' : i \in DOMAIN jobs \/ i = Len(jobs) + 1
  BY <1>2
<1>5. Listed' = Listed \cup {t}
  BY <1>2, <1>4 DEF Listed, Range
<1>6. \A i \in DOMAIN jobs : jobs[i] # t
  BY <1>3 DEF Listed, Range
<1>7. \A i, j \in DOMAIN jobs' : jobs'[i] = jobs'[j] => i = j
  BY <1>2, <1>4, <1>6 DEF JobTypes
<1>8. QED
  BY <1>1, <1>3, <1>5, <1>7

LEMMA RemoveJobListed ==
    ASSUME IInv, JobTypes, NEW t \in Torrents, RemoveJob(t)
    PROVE  /\ Listed \ {t} \subseteq Listed' /\ Listed' \subseteq Listed
           /\ \A i, j \in DOMAIN jobs' : jobs'[i] = jobs'[j] => i = j
<1>1. PICK n \in DOMAIN jobs : jobs[n] = t /\ jobs' = RemoveAt(jobs, n)
  BY DEF RemoveJob
<1>2. jobs \in Seq(Torrents)
  BY DEF IInv, BitTypes
<1>3. /\ DOMAIN jobs' = 1..(Len(jobs) - 1) /\ Len(jobs) \in Nat /\ n \in Nat
      /\ \A j \in DOMAIN jobs' : LET k == IF j < n THEN j ELSE j + 1 IN
            k \in DOMAIN jobs /\ k # n /\ jobs'[j] = jobs[k]
      /\ \A k \in DOMAIN jobs \ {n} : \E j \in DOMAIN jobs' : jobs'[j] = jobs[k]
  BY <1>1, <1>2, RemoveAtList
<1>4. Listed' \subseteq Listed
  BY <1>3 DEF Listed, Range
<1>5. Listed \ {t} \subseteq Listed'
  <2> SUFFICES ASSUME NEW u \in Listed \ {t} PROVE u \in Listed'
    OBVIOUS
  <2>1. PICK k \in DOMAIN jobs : jobs[k] = u /\ k # n
    BY <1>1 DEF Listed, Range
  <2>2. PICK j \in DOMAIN jobs' : jobs'[j] = u
    BY <1>3, <2>1
  <2>3. QED
    BY <2>2 DEF Listed, Range
<1>6. ASSUME NEW i \in DOMAIN jobs', NEW j \in DOMAIN jobs', jobs'[i] = jobs'[j]
      PROVE  i = j
  <2> DEFINE k == IF i < n THEN i ELSE i + 1  l == IF j < n THEN j ELSE j + 1
  <2>1. k \in DOMAIN jobs /\ l \in DOMAIN jobs /\ jobs[k] = jobs[l]
    BY <1>3, <1>6
  <2>2. k = l
    BY <2>1 DEF JobTypes
  <2>3. i \in Nat /\ j \in Nat
    BY <1>3, <1>6
  <2>4. QED
    BY <1>3, <2>2, <2>3
<1>7. QED
  BY <1>4, <1>5, <1>6

LEMMA JobTypesInit == Init => JobTypes
  BY BoundsAssumption DEF Init, JobTypes, Listed, Range

\* Steps after which the same jobs are listed, or none.
LEMMA JobTypesQuiet ==
    ASSUME JobTypes, \/ jobs' = jobs /\ torrent_ids_' = torrent_ids_
                     \/ jobs' = << >> /\ torrent_ids_' = {},
           pc' \in {"down", "login", "reloading", "up", "ending", "saving", "failed"},
           mine' \subseteq mine, adds' = adds,
           ends' \in 0..MaxEnds, pc' \notin {"down", "failed"} => ends' < MaxEnds
    PROVE  JobTypes'
<1>1. CASE jobs' = jobs /\ torrent_ids_' = torrent_ids_
  BY <1>1 DEF JobTypes, adds, Listed, Range
<1>2. CASE jobs' = << >> /\ torrent_ids_' = {}
  BY <1>2 DEF JobTypes, adds, Listed, Range
<1>3. QED
  BY <1>1, <1>2

LEMMA JobTypesStep == ASSUME IInv, JobTypes, [Next]_vars PROVE JobTypes'
<1> USE BoundsAssumption DEF memVars, diskVars, adds
<1>1. /\ ends \in Nat /\ added \in Nat /\ ends <= MaxEnds /\ added <= MaxJobs
      /\ ends < MaxEnds => ends + 1 \in 0..MaxEnds
      /\ added < MaxJobs => added + 1 \in 0..MaxJobs
  BY DEF JobTypes
<1>2. ASSUME NEW t \in Torrents, NEW p \in Paths, NEW b, Add(t, p, b), unchecked' \subseteq Files PROVE JobTypes'
  <2>1. /\ ~HasThisTorrent(t) /\ AddNewJob(t, p, b) /\ added < MaxJobs /\ added' = added + 1
        /\ mine' = mine \cup {t} /\ UNCHANGED <<pc, ends>>
    BY <1>2 DEF Add
  <2>2. /\ Listed' = Listed \cup {t} /\ torrent_ids_' = torrent_ids_ \cup {t}
        /\ \A i, j \in DOMAIN jobs' : jobs'[i] = jobs'[j] => i = j
    BY <2>1, NewJobListed
  <2>3. added' \in 0..MaxJobs
    BY <1>1, <2>1
  <2>4. QED
    BY <1>2, <2>1, <2>2, <2>3 DEF JobTypes
<1>3. ASSUME NEW t \in Torrents, RemoveJob(t) PROVE JobTypes'
  <2>1. /\ Listed' \subseteq Listed
        /\ \A i, j \in DOMAIN jobs' : jobs'[i] = jobs'[j] => i = j
    BY <1>3, RemoveJobListed
  <2>2. UNCHANGED <<pc, torrent_ids_, adds, ends>> /\ mine' \subseteq mine
    BY <1>3 DEF RemoveJob
  <2>3. QED
    BY <2>1, <2>2 DEF JobTypes
<1>4. CASE JobStep
  <2>1. ASSUME UNCHANGED <<jobs, torrent_ids_, adds, ends>>, mine' \subseteq mine,
               pc' = pc \/ (pc = "up" /\ pc' = "ending")
        PROVE  JobTypes'
    BY <2>1, JobTypesQuiet DEF JobTypes
  <2>2. ASSUME NEW t \in Torrents, NEW p \in Paths, AddNewDownloadJob(t, p) PROVE JobTypes'
    BY <1>2, <2>2 DEF AddNewDownloadJob, JobTypes
  <2>3. ASSUME NEW t \in Torrents, NEW p \in Paths, AddNewUploadJob(t, p) PROVE JobTypes'
    BY <1>2, <2>3 DEF AddNewUploadJob, JobTypes, Files
  <2>4. ASSUME NEW t \in Torrents, NEW p \in Paths, MakeTorrent(t, p) PROVE JobTypes'
    BY <2>1, <2>4 DEF MakeTorrent, Writes
  <2>5. ASSUME NEW p \in Paths, DeleteTorrent(p) PROVE JobTypes'
    BY <2>1, <2>5 DEF DeleteTorrent, Writes
  <2>6. QED
    BY <1>3, <1>4, <2>1, <2>2, <2>3, <2>4, <2>5 DEF JobStep, WriteChunk, SetBit
<1>5. CASE ReloadOneJob
  <2> DEFINE t == torrentAt[Head(entries).path]  p == Head(entries).path
             b == ReloadedBitmaps(t, Head(entries))
  <2>1. /\ entries # << >> /\ t # NoTorrent /\ ~HasThisTorrent(t) /\ AddNewJob(t, p, b)
        /\ UNCHANGED <<pc, mine, adds, ends>>
    BY <1>5 DEF ReloadOneJob
  <2>2. Head(entries) \in HistoryEntry
    BY <2>1, HeadAndTail
  <2>3. p \in Paths /\ t \in Torrents
    BY <2>1, <2>2 DEF HistoryEntry, IInv, BitTypes
  <2> HIDE DEF t, p, b
  <2>4. /\ Listed' = Listed \cup {t} /\ torrent_ids_' = torrent_ids_ \cup {t}
        /\ \A i, j \in DOMAIN jobs' : jobs'[i] = jobs'[j] => i = j
    BY <2>1, <2>3, NewJobListed
  <2>5. QED
    BY <2>1, <2>3, <2>4 DEF JobTypes
<1>6. CASE Serialize \/ SerializeFails \/ OpenFails \/ SaveFails \/ Crash
  <2>1. /\ UNCHANGED <<jobs, torrent_ids_, adds>> /\ mine' \subseteq mine
        /\ pc' \in {"down", "failed"} /\ ends' = ends + 1 /\ ends < MaxEnds
    BY <1>6 DEF Serialize, SerializeFails, OpenFails, SaveFails, Crash, Ends, JobTypes
  <2>2. ends' \in 0..MaxEnds
    BY <1>1, <2>1
  <2>3. QED
    BY <2>1, <2>2, JobTypesQuiet
<1>7. CASE Open \/ LoginFails \/ ReloadJobHistory \/ ReloadFails \/ SkipJob \/ AssertFails \/ Reloaded
  <2>1. /\ UNCHANGED <<jobs, torrent_ids_, adds, ends>> /\ mine' \subseteq mine
        /\ pc' \in {"reloading", "up", "ending", "saving"} /\ pc \notin {"down", "failed"}
    BY <1>7 DEF Open, LoginFails, ReloadJobHistory, ReloadFails, SkipJob, AssertFails, Reloaded,
                RepeatsTorrent
  <2>2. QED
    BY <2>1, JobTypesQuiet DEF JobTypes
<1>8. CASE Start
  BY <1>8, JobTypesQuiet DEF Start, JobTypes
<1>9. CASE UNCHANGED vars
  BY <1>9, JobTypesQuiet DEF vars, JobTypes
<1>10. QED
  BY <1>4, <1>5, <1>6, <1>7, <1>8, <1>9 DEF Next

LEMMA TypesTogether == IInv /\ JobTypes => TypeOK
<1> SUFFICES ASSUME IInv, JobTypes PROVE TypeOK
  OBVIOUS
<1>1. \A s \in {history, entries} : \A i \in DOMAIN s : s[i] \in HistoryEntry
  BY DEF IInv, BitTypes
<1>2. QED
  BY <1>1 DEF IInv, BitTypes, JobTypes, TypeOK

\* No torrent is listed twice, and each listed one is known by its identity, through
\* jobs that are added, removed and reloaded.
THEOREM TypesAlways == Spec => []TypeOK
<1>1. JobTypes /\ IInv /\ [Next]_vars => JobTypes'
  BY JobTypesStep
<1>2. QED
  BY <1>1, JobTypesInit, InitInv, NextInv, TypesTogether, PTL DEF Spec
-----------------------------------------------------------------------------
(* What a reload restores.                                                 *)

\* Entry i of the history has been taken over, if its torrent file is what it was.
Restored(i) ==
    LET t == torrentAt[history[i].path]
    IN t = history[i].torrent => t \in Listed /\ bitmap_map[t] = history[i].bits

\* The first n entries have been dealt with, and the others are left.
Dealt(n) ==
    /\ n \in Nat /\ Len(history) = Len(entries) + n
    /\ \A i \in DOMAIN entries : i + n \in DOMAIN history /\ entries[i] = history[i + n]
    /\ \A i \in DOMAIN history : i <= n => Restored(i)

ReloadInv == pc = "reloading" => \E n : Dealt(n)

LEMMA EntriesFacts ==
    ASSUME IInv, entries # << >>
    PROVE  /\ Len(entries) \in Nat \ {0} /\ Len(history) \in Nat
           /\ Head(entries) = entries[1] /\ 1 \in DOMAIN entries
           /\ Len(Tail(entries)) = Len(entries) - 1
           /\ \A i \in DOMAIN Tail(entries) : /\ i \in Nat /\ i + 1 \in DOMAIN entries
                                              /\ Tail(entries)[i] = entries[i + 1]
           /\ DOMAIN history = 1..Len(history)
<1>1. entries \in Seq(HistoryEntry) /\ history \in Seq(HistoryEntry)
  BY DEF IInv, BitTypes
<1>2. QED
  BY <1>1

\* One more entry is dealt with: the earlier ones stay restored.
LEMMA DealtNext ==
    ASSUME IInv, NEW n, Dealt(n), entries # << >>, entries' = Tail(entries), history' = history,
           \A i \in DOMAIN history : Restored(i) => Restored(i)',
           \A i \in DOMAIN history : history[i] = Head(entries) => Restored(i)'
    PROVE  Dealt(n + 1)'
<1>1. n \in Nat /\ n + 1 \in DOMAIN history /\ Head(entries) = history[n + 1]
  <2>1. 1 + n \in DOMAIN history /\ entries[1] = history[1 + n] /\ n \in Nat
    BY EntriesFacts DEF Dealt
  <2>2. QED
    BY <2>1, EntriesFacts
<1>2. Len(history') = Len(entries') + (n + 1)
  BY <1>1, EntriesFacts DEF Dealt
<1>3. ASSUME NEW i \in DOMAIN entries'
      PROVE  i + (n + 1) \in DOMAIN history' /\ entries'[i] = history'[i + (n + 1)]
  <2>1. /\ i \in Nat /\ i + 1 \in DOMAIN entries /\ entries'[i] = entries[i + 1]
    BY <1>3, EntriesFacts
  <2>2. (i + 1) + n \in DOMAIN history /\ entries[i + 1] = history[(i + 1) + n]
    BY <2>1 DEF Dealt
  <2>3. (i + 1) + n = i + (n + 1)
    BY <1>1, <2>1
  <2>4. QED
    BY <2>1, <2>2, <2>3
<1>4. ASSUME NEW i \in DOMAIN history, i <= n + 1 PROVE Restored(i)'
  <2>1. i <= n \/ i = n + 1
    BY <1>1, <1>4, EntriesFacts
  <2>2. QED
    BY <1>1, <1>4, <2>1 DEF Dealt
<1>5. QED
  BY <1>1, <1>2, <1>3, <1>4 DEF Dealt

LEMMA ReloadStep == ASSUME IInv, JobTypes, ReloadInv, [Next]_vars PROVE ReloadInv'
<1>1. CASE pc' # "reloading"
  BY <1>1 DEF ReloadInv
<1>2. CASE ReloadJobHistory
  <2>1. history' = history /\ entries' = history /\ history \in Seq(HistoryEntry)
    BY <1>2 DEF ReloadJobHistory, diskVars, IInv, BitTypes
  <2>2. Len(history) \in Nat /\ DOMAIN history = 1..Len(history)
    BY <2>1
  <2>3. Dealt(0)'
    BY <2>1, <2>2 DEF Dealt
  <2>4. QED
    BY <2>3 DEF ReloadInv
<1>3. CASE SkipJob
  <2>1. /\ pc = "reloading" /\ entries # << >> /\ torrentAt[Head(entries).path] = NoTorrent
        /\ entries' = Tail(entries) /\ UNCHANGED <<torrentAt, history, jobs, bitmap_map>>
    BY <1>3 DEF SkipJob, AfterContinue, diskVars, memVars
  <2>2. PICK n : Dealt(n)
    BY <2>1 DEF ReloadInv
  <2>3. \A i \in DOMAIN history : Restored(i) => Restored(i)'
    BY <2>1 DEF Restored, Listed
  <2>4. ASSUME NEW i \in DOMAIN history, history[i] = Head(entries) PROVE Restored(i)'
    <3>1. history[i].torrent \in Torrents
      BY <2>1, <2>4, HeadAndTail DEF HistoryEntry
    <3>2. QED
      BY <2>1, <2>4, <3>1, SetsAssumption DEF Restored
  <2>5. QED
    BY <2>1, <2>2, <2>3, <2>4, DealtNext DEF ReloadInv
<1>4. CASE ReloadOneJob
  <2> DEFINE e == Head(entries)  t == torrentAt[e.path]
  <2>1. /\ pc = "reloading" /\ entries # << >> /\ t # NoTorrent /\ ~HasThisTorrent(t)
        /\ AddNewJob(t, e.path, ReloadedBitmaps(t, e))
        /\ entries' = Tail(entries) /\ UNCHANGED <<torrentAt, history>>
    BY <1>4 DEF ReloadOneJob, diskVars
  <2>2. e \in HistoryEntry
    BY <2>1, HeadAndTail
  <2>3. e.path \in Paths /\ e.bits \in Bitmap /\ t \in Torrents
    BY <2>1, <2>2 DEF HistoryEntry, IInv, BitTypes
  <2>4. ReloadedBitmaps(t, e) = e.bits
    BY <2>3, BitmapDomain DEF ReloadedBitmaps, ReloadedBits
  <2>5. Listed' = Listed \cup {t} /\ t \notin Listed
    BY <2>1, <2>3, NewJobListed
  <2>6. bitmap_map'[t] = e.bits /\ \A u \in Torrents \ {t} : bitmap_map'[u] = bitmap_map[u]
    BY <2>1, <2>3, <2>4 DEF AddNewJob, IInv, BitTypes
  <2>7. Listed \subseteq Torrents
    BY DEF JobTypes
  <2>8. PICK n : Dealt(n)
    BY <2>1 DEF ReloadInv
  <2> HIDE DEF t
  <2>9. \A i \in DOMAIN history : Restored(i) => Restored(i)'
    BY <2>1, <2>5, <2>6, <2>7 DEF Restored
  <2>10. \A i \in DOMAIN history : history[i] = Head(entries) => Restored(i)'
    BY <2>1, <2>5, <2>6 DEF Restored, t
  <2>11. QED
    BY <2>1, <2>8, <2>9, <2>10, DealtNext DEF ReloadInv
<1>5. CASE UNCHANGED vars
  BY <1>5 DEF vars, diskVars, memVars, ReloadInv, Dealt, Restored, Listed
<1>6. pc' = "reloading" => ReloadJobHistory \/ SkipJob \/ ReloadOneJob \/ UNCHANGED vars
  BY DEF Next, JobStep, AddNewDownloadJob, AddNewUploadJob, Add, MakeTorrent, DeleteTorrent,
         RemoveJob, WriteChunk, SetBit, Downloads, Open, OpenFails, Serialize, SerializeFails,
         SaveFails, Crash, Ends, Start, LoginFails, ReloadFails, AssertFails, Reloaded
<1>7. QED
  BY <1>1, <1>2, <1>3, <1>4, <1>5, <1>6

\* When the history has been read, every job whose torrent file is what it was is
\* listed with the bitmap that was saved, whatever became of the other entries.
THEOREM ReloadRestoresAlways == Spec => []ReloadRestores
<1>1. Init => ReloadInv
  BY DEF Init, ReloadInv
<1>2. IInv /\ JobTypes /\ ReloadInv /\ [Next]_vars => ReloadInv'
  BY ReloadStep
<1>3. IInv /\ ReloadInv => ReloadRestores
  <2> SUFFICES ASSUME IInv, ReloadInv, pc = "reloading", entries = << >>, NEW i \in DOMAIN history
               PROVE  Restored(i)
    BY DEF ReloadRestores, Restored
  <2>1. PICK n : Dealt(n)
    BY DEF ReloadInv
  <2>2. Len(history) \in Nat /\ DOMAIN history = 1..Len(history) /\ Len(entries) = 0
    BY DEF IInv, BitTypes
  <2>3. i <= n
    BY <2>1, <2>2 DEF Dealt
  <2>4. QED
    BY <2>1, <2>3 DEF Dealt
<1>4. IInv /\ JobTypes /\ [Next]_vars => JobTypes'
  BY JobTypesStep
<1>5. QED
  BY <1>1, <1>2, <1>3, <1>4, InitInv, NextInv, JobTypesInit, PTL DEF Spec
-----------------------------------------------------------------------------
(* The jobs that survive.                                                  *)

\* The torrent file of a job that nothing has excused is what it was.
Stands == pc \notin {"down", "failed"} =>
             \A t \in mine \cap Listed : torrentAt[torrent_path[t]] = t

SurviveInv == Stands /\ JobsSurvive

LEMMA SurviveInit == Init => SurviveInv
  BY DEF Init, SurviveInv, Stands, JobsSurvive

\* A torrent file that changes excuses the jobs that used it, in memory or in the history.
LEMMA SurviveFile ==
    ASSUME IInv, JobTypes, SurviveInv, NEW p \in Paths, pc \in {"up", "down"},
           pc' = pc \/ (pc = "up" /\ pc' = "ending"),
           \A q \in Paths \ {p} : torrentAt'[q] = torrentAt[q],
           mine' = mine \ UsersOf(p), UNCHANGED <<history, jobs, torrent_path>>
    PROVE  SurviveInv'
<1>1. \A t \in mine' : t \in Torrents /\ t \in mine /\ torrent_path[t] # p
                       /\ torrent_path[t] \in Paths
  BY DEF UsersOf, JobTypes, IInv, BitTypes
<1>2. \A t \in mine' : \A i \in DOMAIN history :
         history[i].torrent = t => history[i].path # p /\ history[i].path \in Paths
  <2>1. \A i \in DOMAIN history : history[i] \in HistoryEntry
    BY DEF IInv, BitTypes
  <2>2. QED
    BY <2>1 DEF UsersOf, HistoryEntry
<1>3. \A t \in mine' : t \in Found(history) => t \in Found(history)'
  BY <1>2 DEF Found
<1>4. Stands'
  BY <1>1 DEF SurviveInv, Stands, Listed
<1>5. JobsSurvive'
  BY <1>1, <1>3 DEF SurviveInv, JobsSurvive, Listed
<1>6. QED
  BY <1>4, <1>5 DEF SurviveInv

LEMMA SurviveAdd ==
    ASSUME IInv, JobTypes, SurviveInv, NEW t \in Torrents, NEW p \in Paths, NEW b, Add(t, p, b)
    PROVE  SurviveInv'
<1>1. /\ pc = "up" /\ pc' = "up" /\ torrentAt[p] = t /\ ~HasThisTorrent(t) /\ AddNewJob(t, p, b)
      /\ mine' = mine \cup {t} /\ torrentAt' = torrentAt
  BY DEF Add, diskVars
<1>2. Listed' = Listed \cup {t}
  BY <1>1, NewJobListed
<1>3. torrent_path'[t] = p /\ \A u \in Torrents \ {t} : torrent_path'[u] = torrent_path[u]
  BY <1>1 DEF AddNewJob, IInv, BitTypes
<1>4. QED
  BY <1>1, <1>2, <1>3 DEF SurviveInv, Stands, JobsSurvive, JobTypes

\* Every job that is saved is found again, if its torrent file is what it was.
LEMMA SurviveSerialize ==
    ASSUME IInv, JobTypes, SurviveInv, Serialize
    PROVE  SurviveInv'
<1>1. /\ pc = "saving" /\ pc' = "down" /\ mine' = mine
      /\ history' = [i \in DOMAIN jobs |-> JobHistoryInfo(jobs[i])]
      /\ UNCHANGED <<torrentAt, torrent_path>>
  BY DEF Serialize, Saved, Ends, memVars
<1>2. ASSUME NEW t \in mine PROVE t \in Found(history)'
  <2>1. t \in Listed /\ t \in Torrents /\ torrentAt[torrent_path[t]] = t
    BY <1>1 DEF SurviveInv, JobsSurvive, Stands, JobTypes
  <2>2. PICK i \in DOMAIN jobs : jobs[i] = t
    BY <2>1 DEF Listed, Range
  <2>3. i \in DOMAIN history' /\ history'[i].torrent = t /\ history'[i].path = torrent_path[t]
    BY <1>1, <2>2 DEF JobHistoryInfo
  <2>4. QED
    BY <1>1, <2>1, <2>3 DEF Found
<1>3. QED
  BY <1>1, <1>2 DEF SurviveInv, Stands, JobsSurvive, Found

\* The next entry leads to the torrent that is in its file, or to none.
LEMMA FoundNext ==
    ASSUME IInv, entries # << >>, NEW t \in Found(entries)
    PROVE  t = torrentAt[Head(entries).path] \/ t \in Found(Tail(entries))
<1>1. PICK i \in DOMAIN entries : entries[i].torrent = t /\ torrentAt[entries[i].path] = t
  BY DEF Found
<1>2. entries \in Seq(HistoryEntry)
  BY DEF IInv, BitTypes
<1>3. CASE i = 1
  BY <1>1, <1>2, <1>3
<1>4. CASE i # 1
  <2>1. i - 1 \in DOMAIN Tail(entries) /\ Tail(entries)[i - 1] = entries[i]
    BY <1>2, <1>4
  <2>2. QED
    BY <1>1, <2>1 DEF Found
<1>5. QED
  BY <1>3, <1>4

LEMMA SurviveStep == ASSUME IInv, JobTypes, SurviveInv, [Next]_vars PROVE SurviveInv'
<1> USE DEF memVars, diskVars
<1>1. ASSUME UNCHANGED <<pc, torrentAt, history, jobs, torrent_path, entries, mine>>
      PROVE  SurviveInv'
  BY <1>1 DEF SurviveInv, Stands, JobsSurvive, Listed, Found
<1>2. ASSUME NEW t \in Torrents, RemoveJob(t) PROVE SurviveInv'
  <2>1. Listed \ {t} \subseteq Listed' /\ Listed' \subseteq Listed
    BY <1>2, RemoveJobListed
  <2>2. /\ pc = "up" /\ mine' = mine \ {t}
        /\ UNCHANGED <<pc, torrentAt, history, torrent_path, entries>>
    BY <1>2 DEF RemoveJob
  <2>3. QED
    BY <2>1, <2>2 DEF SurviveInv, Stands, JobsSurvive
<1>3. ASSUME NEW t \in Torrents, NEW p \in Paths, MakeTorrent(t, p) PROVE SurviveInv'
  BY <1>1, <1>3, SurviveFile DEF MakeTorrent, Writes, IInv, BitTypes
<1>4. ASSUME NEW p \in Paths, DeleteTorrent(p) PROVE SurviveInv'
  BY <1>4, SurviveFile DEF DeleteTorrent, Writes, IInv, BitTypes
<1>5. CASE JobStep
  BY <1>1, <1>2, <1>3, <1>4, <1>5, SurviveAdd
  DEF JobStep, AddNewDownloadJob, AddNewUploadJob, WriteChunk, SetBit
<1>6. CASE Open
  BY <1>6 DEF Open, SurviveInv, Stands, JobsSurvive, Listed
<1>7. CASE SaveFails \/ LoginFails \/ ReloadFails
  BY <1>7 DEF SaveFails, LoginFails, ReloadFails, SurviveInv, Stands, JobsSurvive
<1>8. CASE Crash \/ OpenFails \/ SerializeFails
  BY <1>8 DEF Crash, OpenFails, SerializeFails, Ends, SurviveInv, Stands, JobsSurvive, Found
<1>9. CASE Start
  BY <1>9 DEF Start, SurviveInv, Stands, JobsSurvive, Found, Listed, Range
<1>10. CASE ReloadJobHistory
  BY <1>10 DEF ReloadJobHistory, SurviveInv, Stands, JobsSurvive, Found, Listed
<1>11. CASE SkipJob
  <2>1. /\ pc = "reloading" /\ entries # << >> /\ torrentAt[Head(entries).path] = NoTorrent
        /\ entries' = Tail(entries)
        /\ UNCHANGED <<pc, torrentAt, jobs, torrent_path, mine>>
    BY <1>11 DEF SkipJob, AfterContinue
  <2>2. \A t \in Found(entries) : t \in Found(Tail(entries))
    BY <2>1, FoundNext, SetsAssumption DEF Found
  <2>3. \A t \in mine : t \in Listed \cup Found(Tail(entries))
    BY <2>1, <2>2 DEF SurviveInv, JobsSurvive
  <2>4. QED
    BY <2>1, <2>3 DEF SurviveInv, Stands, JobsSurvive, Listed, Found
<1>12. CASE ReloadOneJob
  <2> DEFINE e == Head(entries)  t == torrentAt[e.path]
  <2>1. /\ pc = "reloading" /\ entries # << >> /\ t # NoTorrent /\ ~HasThisTorrent(t)
        /\ AddNewJob(t, e.path, ReloadedBitmaps(t, e))
        /\ entries' = Tail(entries) /\ UNCHANGED <<pc, torrentAt, mine>>
    BY <1>12 DEF ReloadOneJob
  <2>2. e.path \in Paths /\ t \in Torrents
    BY <2>1, HeadAndTail DEF HistoryEntry, IInv, BitTypes
  <2>3. Listed' = Listed \cup {t}
    BY <2>1, <2>2, NewJobListed
  <2>4. /\ torrent_path'[t] = e.path
        /\ \A u \in Torrents \ {t} : torrent_path'[u] = torrent_path[u]
    BY <2>1, <2>2 DEF AddNewJob, IInv, BitTypes
  <2>5. \A u \in mine : u \in Torrents /\ u \in Listed \cup {t} \cup Found(Tail(entries))
    BY <2>1, FoundNext DEF SurviveInv, JobsSurvive, JobTypes
  <2> HIDE DEF t
  <2>6. Stands'
    BY <2>1, <2>3, <2>4, <2>5 DEF SurviveInv, Stands, t
  <2>7. JobsSurvive'
    BY <2>1, <2>3, <2>5 DEF JobsSurvive, Found
  <2>8. QED
    BY <2>6, <2>7 DEF SurviveInv
<1>13. CASE AssertFails
  BY <1>13 DEF AssertFails, RepeatsTorrent, SurviveInv, Stands, JobsSurvive, Listed
<1>14. CASE Reloaded
  <2>1. Found(<< >>) = {}
    BY DEF Found
  <2>2. QED
    BY <1>14, <2>1 DEF Reloaded, SurviveInv, Stands, JobsSurvive, Listed
<1>15. CASE UNCHANGED vars
  BY <1>1, <1>15 DEF vars
<1>16. QED
  BY <1>5, <1>6, <1>7, <1>8, <1>9, <1>10, <1>11, <1>12, <1>13, <1>14, <1>15, SurviveSerialize
  DEF Next

\* A job that was not removed, and whose torrent file stayed what it was, is there after
\* every restart, unless one of the ways of losing it that JobsSurvive names was taken.
THEOREM JobsSurviveAlways == Spec => []JobsSurvive
<1>1. IInv /\ JobTypes /\ SurviveInv /\ [Next]_vars => JobTypes' /\ SurviveInv'
  BY JobTypesStep, SurviveStep
<1>2. SurviveInv => JobsSurvive
  BY DEF SurviveInv
<1>3. QED
  BY <1>1, <1>2, InitInv, NextInv, JobTypesInit, SurviveInit, PTL DEF Spec
=============================================================================
